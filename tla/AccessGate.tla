------------------------------ MODULE AccessGate ------------------------------
(***************************************************************************)
(* The lease state machine of passd: the access_requests table and every   *)
(* handler of service.py that reads or writes it, run by the threads of    *)
(* one or more daemons on one database.                                    *)
(*                                                                         *)
(* A handler is a sequence of actions.  An action is what a handler does   *)
(* between two points where another thread can act: a read before the lock *)
(* is taken, one SQL statement with its commit under the lock, the network *)
(* request, an audit row.  The lock (service.py:66) belongs to a daemon;   *)
(* the database is shared.                                                 *)
(***************************************************************************)
EXTENDS Integers, FiniteSets

CONSTANTS
  Thread,       \* the connections, each served by a thread of its own
  Daemon,       \* the daemon processes that have the database open
  Home,         \* [Thread -> Daemon]
  Calls,        \* [Thread -> SUBSET Call]: what the client of a thread calls
  Agent,        \* machine accounts
  Scopes,       \* [Agent -> SUBSET STRING]: scopes_json of the API key
  Ceiling,      \* [Agent -> SUBSET Host]: allowed_hosts_json, {} for no ceiling
  KeyExpiry,    \* [Agent -> Nat]: expires_at of the API key
  Capability,   \* capability ids
  Definition,   \* the definitions an administrator may put
  Host, Route,  \* target hosts; a route is a method and a path
  Item, Selector, Value,  \* items, what pass:// references name, field values
  Target,       \* what agents ask for and use
  Terms,        \* the TTL and use budget of a request
  ReviewTTL, ReviewUses,  \* what a reviewer may enter when approving
  Request,      \* request ids
  MinTTL,       \* 60 seconds
  MaxUses,      \* MAX_ACCESS_USES
  MaxPending,   \* MAX_PENDING_PER_AGENT
  MaxClock,     \* bound: the last second of the model
  MaxCrash,     \* bound: how often daemons are killed
  MaxChange,    \* bound: how often capabilities and items are written
  FirstDefinition,  \* [Capability -> Definition or None]: what the
  FirstItem,        \* [Item -> ItemType]: administrator set up before
  None          \* NULL

Call == {"request", "consume", "approve", "deny", "revoke", "configure",
         "edit", "bar"}
Kind == {"capability.invoke", "secret.use", "secret.reveal"}
Status == {"free", "pending", "approved", "denied", "revoked", "stale"}
PC == {"idle", "authed", "prepared", "requesting", "recorded", "consuming",
       "refused", "claimed", "sent", "replying", "reviewing", "reviewed"}
\* A definition names the selector of its backing field, the methods and paths
\* it allows and its host; its other fields (headers, timeout) are the tag.
\* The keyed version of a definition identifies it, so it is the definition.
DefinitionType ==
  [sel: Selector, routes: SUBSET Route, host: Host, tag: STRING]
TargetType ==
  [kind: {"capability.invoke"}, on: Capability, at: Route]
    \cup [kind: {"secret.use"}, on: Selector, at: Host]
    \cup [kind: {"secret.reveal"}, on: Selector, at: {None}]
NoTerms == [ttl |-> 0, uses |-> 0]
\* The name an item stands under in its vault, and the value of its field.
ItemType == [name: Selector \cup {None}, val: Value \cup {None}]

ASSUME ConstantsAssumption ==
  /\ IsFiniteSet(Thread)
  /\ Home \in [Thread -> Daemon]
  /\ Calls \in [Thread -> SUBSET Call]
  /\ Scopes \in [Agent -> SUBSET STRING]
  /\ Ceiling \in [Agent -> SUBSET Host]
  /\ KeyExpiry \in [Agent -> Nat]
  /\ Definition \subseteq DefinitionType
  /\ Target \subseteq TargetType
  /\ MinTTL \in Nat /\ MaxUses \in Nat \ {0} /\ MaxPending \in Nat
  /\ MaxClock \in Nat /\ MaxCrash \in Nat /\ MaxChange \in Nat
  /\ FirstDefinition \in [Capability -> Definition \cup {None}]
  /\ FirstItem \in [Item -> ItemType]
  /\ Terms \subseteq [ttl: Nat, uses: 1 .. MaxUses]
  /\ \A m \in Terms : m.ttl >= MinTTL
  /\ ReviewTTL \subseteq Int /\ ReviewUses \subseteq Int
ASSUME NoneAssumption ==
  /\ None \notin Definition /\ None \notin Target
  /\ None \notin Item /\ None \notin Value /\ None \notin Selector
  /\ None \notin Request /\ None \notin Thread /\ None \notin Agent

VARIABLES
  clock,        \* time.time() in seconds
  barred,       \* the agents whose key is revoked
  capdef,       \* the capabilities table
  items,        \* the items table
  table,        \* the access_requests table
  trail,        \* the audit rows about requests and reviews
  receipts,     \* the audit rows that record a use, counted by request
  out,          \* uses that left the service, counted by request
  lock,         \* _db_lock of each daemon: its holder
  pc, job,      \* where a thread is, and the handler's local variables
  crashes, changes  \* how much of the bounds is used

store == <<capdef, items>>
ledger == <<table, trail, receipts, out>>
threads == <<lock, pc, job>>
spare == <<crashes, changes>>
vars == <<clock, barred, store, ledger, threads, spare>>

EmptyRow ==
  [status |-> "free", agent |-> None, what |-> None, terms |-> NoTerms,
   def |-> None, item |-> None, cred |-> None, expires |-> 0, max |-> 0,
   uses |-> 0]
NoJob ==
  [call |-> "none", agent |-> None, what |-> None, terms |-> NoTerms,
   def |-> None, ts |-> 0, rows |-> {}, req |-> None, val |-> None]

Init ==
  /\ clock = 0
  /\ barred = {}
  /\ capdef = FirstDefinition
  /\ items = FirstItem
  /\ table = [r \in Request |-> EmptyRow]
  /\ trail = {}
  /\ receipts = [r \in Request |-> 0]
  /\ out = [r \in Request |-> 0]
  /\ lock = [d \in Daemon |-> None]
  /\ pc = [t \in Thread |-> "idle"]
  /\ job = [t \in Thread |-> NoJob]
  /\ crashes = 0 /\ changes = 0

-----------------------------------------------------------------------------
(* Steps of a handler *)

Free(t) == lock[Home[t]] = None
Holds(t) == lock[Home[t]] = t

\* The thread goes on at p with local variables j.
Goto(t, p, j) ==
  /\ pc' = [pc EXCEPT ![t] = p]
  /\ job' = [job EXCEPT ![t] = j]

Acquire(t) == Free(t) /\ lock' = [lock EXCEPT ![Home[t]] = t]
Release(t) == Holds(t) /\ lock' = [lock EXCEPT ![Home[t]] = None]
\* The lock is taken for one action: free before and after it.
Briefly(t) == Free(t) /\ UNCHANGED lock

\* The handler returns or raises.
Return(t) == Goto(t, "idle", NoJob)

Record(op, on) == trail' = trail \cup {[op |-> op, on |-> on]}
SetRow(r, row) == table' = [table EXCEPT ![r] = row]

-----------------------------------------------------------------------------
(* Agents' calls, before the lock *)

HostAllowed(a, h) == Ceiling[a] = {} \/ h \in Ceiling[a]

\* The scopes of the key permit the call.
InScope(a, call, w) ==
  /\ w.kind \in Scopes[a]
  /\ call = "request" =>
       (IF w.kind = "capability.invoke" THEN "capability.request"
                                        ELSE "access.request") \in Scopes[a]

Authenticate(t) ==
  /\ pc[t] = "idle"
  /\ \E call \in Calls[t] \cap {"request", "consume"}, a \in Agent \ barred,
        w \in Target :
       /\ clock < KeyExpiry[a]
       /\ InScope(a, call, w)
       /\ \E m \in IF call = "request" THEN Terms ELSE {NoTerms} :
            Goto(t, "authed", [NoJob EXCEPT !.call = call, !.agent = a,
                                            !.what = w, !.terms = m])
  /\ Briefly(t)
  /\ UNCHANGED <<clock, barred, store, ledger, spare>>

\* The capability that stands now; a later one is not seen by this handler.
CurrentDefinition(w) ==
  IF w.kind = "capability.invoke" THEN capdef[w.on] ELSE None

\* The route is in the capability, and the host is under the key's ceiling.
Permitted(a, w, d) ==
  CASE w.kind = "capability.invoke" ->
         d # None /\ w.at \in d.routes /\ HostAllowed(a, d.host)
    [] w.kind = "secret.use" -> HostAllowed(a, w.at)
    [] OTHER -> TRUE

\* The handler reads the capability row and the clock, without the lock.
Prepare(t) ==
  LET j == job[t]
      d == CurrentDefinition(j.what)
  IN
  /\ pc[t] = "authed"
  /\ Permitted(j.agent, j.what, d)
  /\ Goto(t, "prepared", [j EXCEPT !.def = d, !.ts = clock])
  /\ UNCHANGED <<clock, barred, store, ledger, lock, spare>>

RefuseEarly(t) ==
  /\ pc[t] = "authed"
  /\ ~Permitted(job[t].agent, job[t].what, CurrentDefinition(job[t].what))
  /\ Return(t)
  /\ UNCHANGED <<clock, barred, store, ledger, lock, spare>>

-----------------------------------------------------------------------------
(* request_access and request_capability *)

PendingOf(a) ==
  {r \in Request : table[r].status = "pending" /\ table[r].agent = a}

RequestSelect(t) ==
  /\ pc[t] = "prepared" /\ job[t].call = "request"
  /\ Acquire(t)
  /\ Goto(t, "requesting", [job[t] EXCEPT !.rows = PendingOf(job[t].agent)])
  /\ UNCHANGED <<clock, barred, store, ledger, spare>>

\* Mutant: the digest, which no two requests share, is compared too.
SamePayload_WithDigest(row, j) == FALSE
\* Both payloads, the sealed one and the one built from the call, agree.
SamePayload(row, j) ==
  row.what = j.what /\ row.terms = j.terms /\ row.def = j.def

Retried(j) == \E r \in j.rows : SamePayload(table[r], j)
\* Mutant: off by one.
QuotaFull_OffByOne(j) == Cardinality(j.rows) > MaxPending
QuotaFull(j) == Cardinality(j.rows) >= MaxPending

\* An exact retry gets the request that is pending.
RequestExisting(t) ==
  /\ pc[t] = "requesting"
  /\ Retried(job[t])
  /\ Release(t) /\ Return(t)
  /\ UNCHANGED <<clock, barred, store, ledger, spare>>

\* Bound: the model has finitely many request ids.
NoIdLeft == \A r \in Request : table[r].status # "free"

\* The quota is used up.
RequestFull(t) ==
  /\ pc[t] = "requesting"
  /\ ~Retried(job[t])
  /\ QuotaFull(job[t]) \/ NoIdLeft
  /\ Release(t) /\ Return(t)
  /\ UNCHANGED <<clock, barred, store, ledger, spare>>

RequestInsert(t) ==
  LET j == job[t] IN
  /\ pc[t] = "requesting"
  /\ ~Retried(j) /\ ~QuotaFull(j)
  /\ \E r \in Request :
       /\ table[r].status = "free"
       /\ SetRow(r, [EmptyRow EXCEPT !.status = "pending", !.agent = j.agent,
                       !.what = j.what, !.terms = j.terms, !.def = j.def])
       /\ Goto(t, "recorded", [NoJob EXCEPT !.call = "request", !.req = r])
  /\ Release(t)
  /\ UNCHANGED <<clock, barred, store, trail, receipts, out, spare>>

\* The audit row follows after the lock was given up; or AuditLocked.
RequestAudit(t) ==
  /\ pc[t] = "recorded"
  /\ Briefly(t)
  /\ Record("request", job[t].req)
  /\ Return(t)
  /\ UNCHANGED <<clock, barred, store, table, receipts, out, spare>>

-----------------------------------------------------------------------------
(* _consume_exact_grant and _consume_capability_grant *)

\* Mutant: a claim that does not look at the budget.
Spendable_Unbounded(row, ts) == row.status = "approved" /\ ts < row.expires
\* Mutant: a claim that does not look at the status.
Spendable_AnyStatus(row, ts) == ts < row.expires /\ row.uses < row.max
\* The WHERE clause of the claim.
Spendable(row, ts) ==
  row.status = "approved" /\ ts < row.expires /\ row.uses < row.max

\* Leases of this agent for this very target.
CandidatesOf(j) ==
  {r \in Request : /\ Spendable(table[r], j.ts)
                   /\ table[r].agent = j.agent
                   /\ table[r].what = j.what}

ClaimSelect(t) ==
  /\ pc[t] = "prepared" /\ job[t].call = "consume"
  /\ Acquire(t)
  /\ Goto(t, "consuming", [job[t] EXCEPT !.rows = CandidatesOf(job[t])])
  /\ UNCHANGED <<clock, barred, store, ledger, spare>>

\* The loop takes the lease that expires first; ids, which break ties, are
\* random.
IsNext(j, r) ==
  r \in j.rows /\ \A q \in j.rows : table[r].expires <= table[q].expires

\* Mutant: the capability version is not compared.
SameVersion_Ignored(row, j) == TRUE
\* The lease was approved for the definition the handler has read.
SameVersion(row, j) == row.def = j.def
\* Mutant: the credential version is not compared.
SameCredential_Ignored(row) == TRUE
\* Mutant: the randomized envelope is compared, which every write changes.
SameCredential_Envelope(row) == FALSE
\* The field still has the value that was approved.
SameCredential(row) == items[row.item].val = row.cred
FieldMissing(row) == items[row.item].val = None

\* Mutant: the loop looks at the same lease again.
Skip_Again(t, r) == Goto(t, "consuming", job[t])
Skip(t, r) == Goto(t, "consuming", [job[t] EXCEPT !.rows = @ \ {r}])

\* A version differs: the lease is closed and the loop goes on.
ClaimStale(t) ==
  /\ pc[t] = "consuming"
  /\ \E r \in job[t].rows :
       /\ IsNext(job[t], r)
       /\ SameVersion(table[r], job[t]) =>
            ~FieldMissing(table[r]) /\ ~SameCredential(table[r])
       /\ SetRow(r, IF table[r].status = "approved"
                    THEN [table[r] EXCEPT !.status = "stale"]
                    ELSE table[r])
       /\ Skip(t, r)
  /\ UNCHANGED <<clock, barred, store, trail, receipts, out, lock, spare>>

\* The item has lost the field: _extract_field raises out of the loop.
ClaimBroken(t) ==
  /\ pc[t] = "consuming"
  /\ \E r \in job[t].rows : /\ IsNext(job[t], r)
                            /\ SameVersion(table[r], job[t])
                            /\ FieldMissing(table[r])
  /\ Release(t) /\ Return(t)
  /\ UNCHANGED <<clock, barred, store, ledger, spare>>

Current(row, j) ==
  SameVersion(row, j) /\ ~FieldMissing(row) /\ SameCredential(row)

ClaimTake(t) ==
  LET j == job[t] IN
  /\ pc[t] = "consuming"
  /\ \E r \in j.rows :
       /\ IsNext(j, r)
       /\ Current(table[r], j)
       /\ Spendable(table[r], j.ts)
       /\ SetRow(r, [table[r] EXCEPT !.uses = @ + 1])
       /\ Goto(t, "claimed", [j EXCEPT !.ts = 0, !.rows = {}, !.req = r,
                                       !.val = items[table[r].item].val])
  /\ Release(t)
  /\ UNCHANGED <<clock, barred, store, trail, receipts, out, spare>>

\* Another daemon was faster: the conditional UPDATE changes no row.
ClaimLost(t) ==
  /\ pc[t] = "consuming"
  /\ \E r \in job[t].rows : /\ IsNext(job[t], r)
                            /\ Current(table[r], job[t])
                            /\ ~Spendable(table[r], job[t].ts)
                            /\ Skip(t, r)
  /\ UNCHANGED <<clock, barred, store, ledger, lock, spare>>

ClaimNone(t) ==
  /\ pc[t] = "consuming" /\ job[t].rows = {}
  /\ Release(t)
  /\ Goto(t, "refused", [NoJob EXCEPT !.call = "consume",
                                      !.agent = job[t].agent])
  /\ UNCHANGED <<clock, barred, store, ledger, spare>>

\* The audit row of a refusal names no request; it is not kept in trail.
RefuseAudit(t) ==
  /\ pc[t] = "refused"
  /\ Briefly(t)
  /\ Return(t)
  /\ UNCHANGED <<clock, barred, store, ledger, spare>>

-----------------------------------------------------------------------------
(* invoke_capability, broker_http and reveal_secret, after the claim *)

Count(f, r) == [f EXCEPT ![r] = @ + 1]

\* The request with the secret in it reaches the target.
UseSend(t) ==
  /\ pc[t] = "claimed" /\ job[t].what.kind # "secret.reveal"
  /\ out' = Count(out, job[t].req)
  /\ Goto(t, "sent", job[t])
  /\ UNCHANGED <<clock, barred, store, table, trail, receipts, lock, spare>>

\* A check after the claim, the connection, the response or the audit row raises.
UseFail(t) ==
  /\ \/ pc[t] = "claimed" /\ job[t].what.kind # "secret.reveal"
     \/ pc[t] = "sent"
  /\ Return(t)
  /\ UNCHANGED <<clock, barred, store, ledger, lock, spare>>

UseAudit(t) ==
  /\ pc[t] = "sent"
  /\ Briefly(t)
  /\ receipts' = Count(receipts, job[t].req)
  /\ Return(t)
  /\ UNCHANGED <<clock, barred, store, table, trail, out, spare>>

\* A revealed value is recorded before it is returned.
RevealAudit(t) ==
  /\ pc[t] = "claimed" /\ job[t].what.kind = "secret.reveal"
  /\ Briefly(t)
  /\ receipts' = Count(receipts, job[t].req)
  /\ Goto(t, "replying", job[t])
  /\ UNCHANGED <<clock, barred, store, table, trail, out, spare>>

\* Mutant: the value is returned before it is recorded.
RevealReply_Unrecorded(t) ==
  /\ pc[t] \in {"claimed", "replying"} /\ job[t].what.kind = "secret.reveal"
  /\ out' = Count(out, job[t].req)
  /\ Return(t)
  /\ UNCHANGED <<clock, barred, store, table, trail, receipts, lock, spare>>

RevealReply(t) ==
  /\ pc[t] = "replying"
  /\ out' = Count(out, job[t].req)
  /\ Return(t)
  /\ UNCHANGED <<clock, barred, store, table, trail, receipts, lock, spare>>

-----------------------------------------------------------------------------
(* approve_access, deny_access and revoke_access: the lock is held throughout *)

Reviewable(call) == IF call = "revoke" THEN "approved" ELSE "pending"
\* Mutant: UPDATE ... WHERE id=?
StillOpen_Unchecked(row, call) == TRUE
\* The clause AND status=... of the UPDATE.
StillOpen(row, call) == row.status = Reviewable(call)

\* The row is read; a row in another status is a Conflict and changes nothing.
ReviewSelect(t) ==
  /\ pc[t] = "idle"
  /\ \E call \in Calls[t] \cap {"approve", "deny", "revoke"}, r \in Request :
       /\ table[r].status = Reviewable(call)
       /\ Goto(t, "reviewing", [NoJob EXCEPT !.call = call, !.req = r])
  /\ Acquire(t)
  /\ UNCHANGED <<clock, barred, store, ledger, spare>>

\* The capability is still the one that was requested.
Unchanged(row) == row.def = CurrentDefinition(row.what)

\* Items that the request's selector names now.
BackingOf(row) ==
  IF row.what.kind = "capability.invoke" THEN row.def.sel ELSE row.what.on
Named(s) == {i \in Item : items[i].name = s}
\* A selector has to name one item, and that item has to have the field.
Binds(row, i) == Named(BackingOf(row)) = {i} /\ items[i].val # None

\* Mutant: the floor is dropped.
Clamp_NoFloor(asked, floor, entered) ==
  IF entered < asked THEN entered ELSE asked
\* Mutant: the reviewer may widen the request.
Clamp_AsEntered(asked, floor, entered) ==
  IF entered < floor THEN floor ELSE entered
\* min(requested, max(floor, entered)); no entry is an entry that is no
\* narrower than the request.
Clamp(asked, floor, entered) ==
  LET wanted == IF entered < floor THEN floor ELSE entered
  IN IF wanted < asked THEN wanted ELSE asked

Approve(t) ==
  LET r == job[t].req
      row == table[r]
  IN
  /\ pc[t] = "reviewing" /\ job[t].call = "approve"
  /\ Unchanged(row)
  /\ StillOpen(row, "approve")
  /\ \E i \in Item, ttl \in ReviewTTL, n \in ReviewUses :
       /\ Binds(row, i)
       /\ SetRow(r, [row EXCEPT !.status = "approved", !.item = i,
                       !.cred = items[i].val,
                       !.expires = clock + Clamp(row.terms.ttl, MinTTL, ttl),
                       !.max = Clamp(row.terms.uses, 1, n), !.uses = 0])
  /\ Goto(t, "reviewed", job[t])
  /\ UNCHANGED <<clock, barred, store, trail, receipts, out, lock, spare>>

\* The capability was redefined since the request.
ApproveStale(t) ==
  LET r == job[t].req
      row == table[r]
  IN
  /\ pc[t] = "reviewing" /\ job[t].call = "approve"
  /\ ~Unchanged(row)
  /\ SetRow(r, IF StillOpen(row, "approve")
                THEN [row EXCEPT !.status = "stale"] ELSE row)
  /\ Goto(t, "reviewed", [job[t] EXCEPT !.call = "stale"])
  /\ UNCHANGED <<clock, barred, store, trail, receipts, out, lock, spare>>

\* The selector names no item or several, or the field is missing.
ApproveUnbound(t) ==
  /\ pc[t] = "reviewing" /\ job[t].call = "approve"
  /\ Unchanged(table[job[t].req])
  /\ \A i \in Item : ~Binds(table[job[t].req], i)
  /\ Release(t) /\ Return(t)
  /\ UNCHANGED <<clock, barred, store, ledger, spare>>

Close(t) ==
  LET r == job[t].req IN
  /\ pc[t] = "reviewing" /\ job[t].call \in {"deny", "revoke"}
  /\ StillOpen(table[r], job[t].call)
  /\ SetRow(r, [table[r] EXCEPT
        !.status = IF job[t].call = "deny" THEN "denied" ELSE "revoked"])
  /\ Goto(t, "reviewed", job[t])
  /\ UNCHANGED <<clock, barred, store, trail, receipts, out, lock, spare>>

\* Another daemon was faster: the conditional UPDATE changes no row.
ReviewLost(t) ==
  LET row == table[job[t].req] IN
  /\ pc[t] = "reviewing"
  /\ ~StillOpen(row, job[t].call)
  /\ job[t].call = "approve" => Unchanged(row) /\ \E i \in Item : Binds(row, i)
  /\ Release(t) /\ Return(t)
  /\ UNCHANGED <<clock, barred, store, ledger, spare>>

\* Mutant: the decision leaves no audit row.
ReviewAudit_Silent(t) ==
  /\ pc[t] = "reviewed"
  /\ Release(t) /\ Return(t)
  /\ UNCHANGED <<clock, barred, store, ledger, spare>>

\* The decision is committed; its audit row follows, or WriteLocked.
ReviewAudit(t) ==
  /\ pc[t] = "reviewed"
  /\ Record(job[t].call, job[t].req)
  /\ Release(t) /\ Return(t)
  /\ UNCHANGED <<clock, barred, store, table, receipts, out, spare>>

-----------------------------------------------------------------------------
(* "database is locked" *)

\* The write lock of the database, which daemons can keep from one another.
Contended(t) == \E u \in Thread : Home[u] # Home[t]

\* The next statement inside the lock is an INSERT or an UPDATE.
WritesNext(t) ==
  LET j == job[t] IN
  \/ pc[t] = "requesting" /\ ~Retried(j) /\ ~QuotaFull(j)
  \/ /\ pc[t] = "consuming"
     /\ \E r \in j.rows : /\ IsNext(j, r)
                          /\ SameVersion(table[r], j) => ~FieldMissing(table[r])
  \/ /\ pc[t] = "reviewing"
     /\ j.call = "approve" /\ Unchanged(table[j.req]) =>
          \E i \in Item : Binds(table[j.req], i)
  \/ pc[t] = "reviewed"

\* It raises; what was committed before it stays.
WriteLocked(t) ==
  /\ WritesNext(t)
  /\ Contended(t)
  /\ Release(t) /\ Return(t)
  /\ UNCHANGED <<clock, barred, store, ledger, spare>>

\* The INSERT of audit() raises: the request is there without its audit row, a
\* value is not revealed.
AuditLocked(t) ==
  /\ \/ pc[t] = "recorded"
     \/ pc[t] = "claimed" /\ job[t].what.kind = "secret.reveal"
  /\ Contended(t)
  /\ Briefly(t) /\ Return(t)
  /\ UNCHANGED <<clock, barred, store, ledger, spare>>

-----------------------------------------------------------------------------
(* put_capability, put_item, revoke_agent, and the world *)

Change == changes < MaxChange /\ changes' = changes + 1 /\ UNCHANGED crashes

\* Under the lock, in one action.
PutCapability(t) ==
  /\ pc[t] = "idle" /\ "configure" \in Calls[t]
  /\ Briefly(t)
  /\ \E c \in Capability, d \in Definition :
       capdef' = [capdef EXCEPT ![c] = d]
  /\ Change
  /\ UNCHANGED <<clock, barred, items, ledger, pc, job>>

\* put_item takes no lock.  It inserts an item, or updates the one with the
\* same source: name, field, or both.
PutItem(t) ==
  /\ pc[t] = "idle" /\ "edit" \in Calls[t]
  /\ \E i \in Item, s \in Selector, v \in Value \cup {None} :
       items' = [items EXCEPT ![i] = [name |-> s, val |-> v]]
  /\ Change
  /\ UNCHANGED <<clock, barred, capdef, ledger, threads>>

RevokeAgent(t) ==
  /\ pc[t] = "idle" /\ "bar" \in Calls[t]
  /\ \E a \in Agent : barred' = barred \cup {a}
  /\ UNCHANGED <<clock, store, ledger, threads, spare>>

Tick ==
  /\ clock < MaxClock
  /\ clock' = clock + 1
  /\ UNCHANGED <<barred, store, ledger, threads, spare>>

\* A daemon is killed and started again: its threads and its lock are gone,
\* what was committed stays.
Crash(d) ==
  /\ crashes < MaxCrash
  /\ crashes' = crashes + 1
  /\ pc' = [t \in Thread |-> IF Home[t] = d THEN "idle" ELSE pc[t]]
  /\ job' = [t \in Thread |-> IF Home[t] = d THEN NoJob ELSE job[t]]
  /\ lock' = [lock EXCEPT ![d] = None]
  /\ UNCHANGED <<clock, barred, store, ledger, changes>>

-----------------------------------------------------------------------------
AgentStep(t) ==
  \/ Authenticate(t) \/ Prepare(t) \/ RefuseEarly(t)
  \/ RequestSelect(t) \/ RequestExisting(t) \/ RequestFull(t)
  \/ RequestInsert(t) \/ RequestAudit(t)
  \/ ClaimSelect(t) \/ ClaimStale(t) \/ ClaimBroken(t) \/ ClaimTake(t)
  \/ ClaimLost(t) \/ ClaimNone(t) \/ RefuseAudit(t)
  \/ UseSend(t) \/ UseFail(t) \/ UseAudit(t)
  \/ RevealAudit(t) \/ RevealReply(t)

AdminStep(t) ==
  \/ ReviewSelect(t) \/ Approve(t) \/ ApproveStale(t) \/ ApproveUnbound(t)
  \/ Close(t) \/ ReviewLost(t) \/ ReviewAudit(t)
  \/ PutCapability(t) \/ PutItem(t) \/ RevokeAgent(t)

LockedStep(t) == WriteLocked(t) \/ AuditLocked(t)

HandlerStep(t) == AgentStep(t) \/ AdminStep(t) \/ LockedStep(t)

Next ==
  \/ \E t \in Thread : HandlerStep(t)
  \/ Tick
  \/ \E d \in Daemon : Crash(d)

Spec == Init /\ [][Next]_vars

\* What the holder of a lock does until it gives the lock up: SQL statements
\* and nothing that waits for the network or for another thread.
HolderStep(t) ==
  Holds(t) /\ HandlerStep(t)

FairSpec == Spec /\ \A t \in Thread : WF_vars(HolderStep(t))
=============================================================================
