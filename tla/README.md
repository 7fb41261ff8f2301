# passd: a verification development

passd is a local secrets daemon. Agents hold an API key but no secrets. An agent
asks for the right to use one credential field or to make one kind of HTTP call,
a human reviewer approves the request with a TTL and a use budget, and the
daemon then makes the calls, putting the secret in itself. This directory holds
TLA+ modules of that machine, TLC configurations that check them on small
instances, and proofs that TLAPS checks for every instance. Paths below are in
the repository; without a directory they are in `passd/`.

## 1. Inventory

| Component | State | Operations | Correct when |
|---|---|---|---|
| access gate, `service.py` 555-1069 | table `access_requests` | request_access, request_capability, approve_access, deny_access, revoke_access, _consume_exact_grant, _consume_capability_grant | a request is reviewed once; a grant is no wider than what was asked; a lease is used at most as often as granted, for exactly what was approved; a retry makes no second request |
| capability catalogue, `service.py` 301-463 | table `capabilities`; a keyed version per row | put_capability, get and list, path and method rules | leases are tied to the version; the path that is sent is under the prefix |
| custody, `service.py` 105-299 | tables `vaults`, `items`; root, vault and item keys | create_vault, put_item, find_vault, find_item | every payload opens with the key stored beside it; a source makes one row; names resolve to one row or are refused |
| machine identities, `service.py` 74-103, 465-529 | table `agents` | create_agent, rotate_agent, revoke_agent, authenticate_agent | one active agent per name; a revoked or expired key starts no call |
| invocation, `service.py` 1150-1328 | none of its own | invoke_capability, broker_http, reveal_secret | a use is claimed before the secret leaves; what is recorded agrees with what was sent |
| audit log, `service.py` 1106-1148 | table `audit` | audit, list_audit | every decision and every use has its row |
| daemon, `server.py` | socket, a thread per connection | accept, dispatch, shutdown | a daemon alone is reached by its path and stops when signalled; threads share one database connection and one lock |
| database, `db.py` | the SQLite file, WAL | connect | what is committed survives the process |
| RPC client, `client.py` | a socket and a buffer | call, session | each answer goes to the call that asked; a call is carried out at most once and ends |
| configuration, `config.py` | `config.json` | initialize, load | the file is whole or absent; the database opens under its key |
| Proton import, `proton_import.py` | none; calls the daemon | import_export | repeating an import changes nothing |
| references, `refs.py` | none | parse_pass_ref | the URI that access.status and access.pending print parses to the selector of the lease |
| sealing, `crypto.py`, and versions, `authority.py` | none | seal, open, versions, digests | ideal cryptography is assumed |
| command line, `cli.py` | none | one RPC per command | |

How they interact: a client writes one JSON line per call to the Unix socket; the
connection's thread runs `PassdService.handle`, which authenticates the agent or
the administrator and calls one handler. Handlers share one SQLite connection
and one lock, `_db_lock`. Some take it (the access gate, put_capability,
rotate_agent, audit), some do not (create_vault, put_item, create_agent,
revoke_agent), and most read something before they take it. Nothing prevents a
second daemon on the same data directory (`server.py:47` unlinks the socket of
the first); then only SQLite's own isolation stands between the two.

What is hard about it, and to test: what a handler reads before it has the lock
and uses after; several claims of one lease at once; a reviewer's decision that
crosses another; a capability or credential that changes between request,
approval, claim and use; a daemon that dies between claim, send and audit; a
lost answer and its retry; quota and clamp boundaries; one database connection
whose transaction every thread may commit, roll back or leave open; an import or
an initialisation that is cut short; a socket path that outlives its daemon. `PROJECT.json` lists these
under `hazards`, each at its line, with the properties that cover it.

## 2. The modules

| Module | Contents |
|---|---|
| `LeaseContract` | what passd promises about one request: Submit, Grant, Close, Spend, Effect. No agents, threads, locks, clocks or versions |
| `AccessGate` | the handlers of the access gate, step by step, as threads of daemons run them |
| `LeaseProperties` | type invariant, safety, action and liveness properties, the inductive invariant, the refinement mapping to `LeaseContract` |
| `LeaseProofs`, `GateProofs` | theorems about the gate: types, life of a row, budgets, refinement; then receipts, audit, admission, staleness |
| `Connection` | the SQLite connection that the threads of a daemon share, and the file that daemons share |
| `Identity` | create_agent, rotate_agent, revoke_agent, authenticate_agent on `Connection` |
| `Custody` | create_vault, put_item and the reviews that commit or roll back with them, on `Connection` |
| `ProtonImport` | import_export, a client of `Custody` |
| `RpcContract`, `RpcSession` | what a call promises; the session, the socket and the handler that keep it |
| `ConfigInit` | runs of `passd init` on one data directory |
| `DaemonLife` | runs of `passd serve` on top of `ConfigInit` |
| `UriText` | urlsplit, unquote, quote and the str methods, on texts of tokens |
| `CapabilityPath`, `PassRef`, `HostPattern` | the rules about paths, references and hosts, on `UriText` |
| `TextRules` | the three side by side: a behaviour is about one of them |
| `IdentityProofs` | theorems about machine identities |
| `CustodyProofs`, `ImportProofs` | theorems about vaults and items, and about what an import leaves |
| `RpcProofs` | theorems about calls and the refinement of `RpcContract` |
| `DeploymentProofs` | theorems about `ConfigInit` and `DaemonLife` |
| `TextProofs` | what the recursive functions on texts compute, and theorems about `TextRules` |
| `MCAccessGate`, `MCIdentity`, `MCProtonImport`, `MCTextRules` | constants and instances for TLC; the `.cfg` files choose among them |

Composition: `Identity` and `Custody` extend `Connection`; `ProtonImport` extends
`Custody` and shares its replies; `DaemonLife` extends `ConfigInit` and reads the
file it writes; `RpcSession` instantiates `RpcContract`, `LeaseProperties`
instantiates `LeaseContract`; `TextRules` extends the three modules of text rules.
`AccessGate` and `Identity` meet in two places: AccessGate takes a key as valid or
not (`barred`), Identity takes a review as a write that commits or rolls back; so
does Custody, as reviews and put_item share a connection.

### AccessGate and the code

State: `table` is `access_requests`, one function from request ids to rows, with
`free` for ids not yet used. A row keeps the agent, the target (`what`: an exact
selector with its host, or a capability with its method and path), the terms
asked for, the definition that was requested, and from approval on the item, the
credential value, the deadline and the budget. `capdef` is `capabilities`,
`items` the part of `items` that leases depend on (the name an item goes by and
the value of its field), `barred` the revoked agents. `trail` and `receipts` are
the audit rows; `out` counts the uses whose secret has left the service: it is
no state of the program, it says what the program has done. `lock`, `pc` and
`job` are the lock of each daemon, where each thread is and its local variables.

A handler is a sequence of actions, cut where another thread can act:

| Code | Actions |
|---|---|
| authenticate_agent, scope checks | Authenticate |
| reads before the lock: get_capability_row, path rules, host ceiling, `ts = now()` | Prepare, RefuseEarly |
| request_access, request_capability | RequestSelect; RequestExisting, RequestFull or RequestInsert; RequestAudit |
| _consume_exact_grant, _consume_capability_grant | ClaimSelect; per candidate ClaimStale, ClaimLost, ClaimBroken or ClaimTake; ClaimNone, RefuseAudit |
| invoke_capability, broker_http | UseSend, UseFail, UseAudit |
| reveal_secret | RevealAudit, RevealReply |
| approve_access | ReviewSelect; Approve, ApproveStale, ApproveUnbound or ReviewLost; ReviewAudit |
| deny_access, revoke_access | ReviewSelect; Close or ReviewLost; ReviewAudit |
| put_capability, put_item, revoke_agent | PutCapability, PutItem, RevokeAgent |
| a write that a second daemon keeps from running | WriteLocked (under the lock; the audit row of a decision too), AuditLocked (of a request, of a value to reveal), UseFail (of a use) |
| time; a process that is killed and started again | Tick, Crash |

What is one action although it is several statements, and why:

- An UPDATE or INSERT and its commit. A process killed between them leaves
  nothing, as if killed before; another daemon sees nothing until the commit.
  Threads of the same daemon that hold no lock can see it earlier, but they write
  other tables. What it means that they share a transaction is the subject of
  `Connection`, `Identity` and `Custody`.
- The read of the item and the UPDATE that follows, in a claim or an approval.
  put_item may run in between, also on the same daemon as it takes no lock. It
  touches no row of `access_requests`, so the run is the same as the one where
  put_item comes after the UPDATE: the claim uses the value it has read.
- The read of the capability row and of the clock before the lock. put_capability
  in between is the same as put_capability after both; a clock that moves in
  between is the same as a clock that moves before the capability is read, as
  reading the row does not depend on the time.
- put_capability, which works under the lock, and put_item, a read by source and
  one write. Its own races, its commit and what may undo it are in `Custody`.

Versions are keyed hashes (`authority.py`); the model compares what they hash: the
definition itself, and the value of the field of the item the lease is bound to.
A definition is a record of the parts that matter to a lease (selector, routes,
host) and a tag for the rest. The routes of a capability are a set; how a prefix
decides membership is in `CapabilityPath`. A reviewer's missing
entry (None) is an entry no narrower than what was asked; `Clamp` shows both
give the same grant. The reason of a call is always present, as handlers raise
before they change anything if it is not. The lease that expires first is tried
first; equal deadlines are ordered by random ids, which is a free choice.

`database is locked` (after five seconds: `db.py:100` overrides the ten of line
97) is an outcome of every INSERT and UPDATE as soon as a second daemon has the
file (`Contended`): the handler raises, what it had committed stays, and its audit
row may be missing. The guard asks for a second daemon, not for the moment at
which it writes, since it may be one of its many writes outside the gate.

Not in the model: rows approved by v0.2 or early v0.3 (`service.py:975-985`);
branches for items, vaults or capabilities that no longer exist, as nothing
deletes them; that a connection left in a transaction by `database is locked`
reads an older snapshot until it commits, with which its writes fail again (see
`Connection`); a put_capability, put_item or revoke_agent that raises, which is
the step not taken; the second check of a stored route in an approval
(`service.py:839`), which when it raises has written nothing (only for the paths
that `AcceptedAgain` leaves out); the refusal rows of
the audit log (RefuseAudit is a step, its row is not kept); admin's own reveal
and broker calls, which read and change nothing; wording, encryption and
listings.

### LeaseContract

Five actions on five counters per request. `LeaseProperties!Contract` maps the
status of a row to `phase`, the budget asked and granted and the uses counted to
`asked`, `granted`, `spent`, and `out` to `done`. `ImplementsContract` says that
every step of every handler, on however many daemons, is one of the five or
leaves the request alone.

### Connection, Identity and Custody

`Connection` has what sqlite3 and SQLite do with `db.py`'s single connection:
`disk` is the committed database, `conn[d]` the open transaction of a daemon. A
SELECT outside a transaction reads `disk`. Python begins a deferred transaction
before an INSERT or UPDATE; it has no snapshot until something reads or writes
in it. A statement that finds the write lock taken, or a snapshot that another
connection has outdated, raises "database is locked" (ExecuteLocked), and no
handler rolls back: the transaction stays open, the next SELECT of any thread
gives it a snapshot, and every thread then reads from that. Commit publishes
whatever the threads of the daemon have executed by then, Rollback drops it all.

| Code | Actions |
|---|---|
| create_agent | CreateLook; CreateWrite or Locked; CommitStep; CreateReply, which reads the row again |
| rotate_agent (in the lock), revoke_agent | RefLook; RotateWrite, RevokeWrite or Locked; CommitStep; RotateReply, RevokeReply |
| authenticate_agent and the call it admits | Authenticate, Served |
| request_access; deny_access, for every review | Ask; ReviewLook, ReviewWrite (or its rollback), CommitStep, ReviewReply |
| create_vault | VaultLook; VaultUpdate, VaultInsert or Locked; CommitStep; ReplyStep |
| put_item | ItemLook; ItemUpdate, ItemInsert or Locked; CommitStep; ReplyStep |
| approve_access, deny_access, revoke_access, beside put_item | ReviewLook; ReviewWrite, ReviewLost or Locked; CommitStep; ReplyStep |
| import_export | CallNext, Receive, SkipTrashed; Again after an error or the end |
| a daemon that is killed | Crash |

In `Identity`, random ids and secrets are numbers in the order they are drawn; a
key is an id and a secret, a row keeps the secret its hash stands for. `issued`
and `dead` are histories: the keys that a reply has handed out or ended.
Deviations: expiry and scopes are in AccessGate, and the audit rows, which are
committed like a request, are left out.

In `Custody`, a row holds what its ciphertexts hold: the key inside `wrapped_key`
and the vault key it was wrapped under, the body and the key it was sealed with.
`Opens` asks whether these fit. A vault key never changes, so a vault stands for
it. put_item's reads (vault, then item) are one step: what the second finds without
the first cannot differ but by a vault that was rolled back between, and the write
meets that too (`Dangling`). A review is here what it does to the connection:
`pending` are the requests that wait for a decision, and the one that finds its
request decided by another daemon rolls back (ReviewLost) whatever put_item or
create_vault have executed. Their commit is then empty and they report success
(`service.py:264-265`); a later UPDATE may find no row and write none (`Updated`),
and a vault may be gone (`Dangling`: the foreign key raises). `undone` is a history:
the importers that were in a call when this happened on their connection, until
they import again.

### RpcSession and RpcContract

One client, one connection at a time. Begin, Connect, SendRequest, Recv, Parse and
Close are PassdSession; Take, Serve and ServeLarge the connection's thread. A
response comes in two pieces; Parse takes everything up to the first newline and
leaves the rest in `buffer`. `got` keeps what each response was parsed from. A
request over 2 MiB is answered and the connection closed: before the client has
sent it all (SendCut: the client gets EPIPE and never reads) or after. Crash may
come before, in or after a response. PassdClient is a session with Close after
every call.

### ConfigInit and DaemonLife

ConfigInit tells files from paths: `config.tmp` is opened, written, made private
and renamed, and a run that still has it open writes to it wherever it has gone.
DaemonLife: Start loads the configuration; LookForSocket, ClearSocket, Bind and
EnterLoop are `PassdUnixServer.__init__` and `serve`; Signal, Shutdown and
LeaveLoop are the handler, its thread and the loop; CloseSocket and Unlink are
server_close. When bind fails, TCPServer calls server_close, so Bind goes on to
Unlink. Store is any handler that seals a row under the root key.

### UriText, CapabilityPath, PassRef, HostPattern

A text is a sequence of tokens: a character as itself or as %XX. Characters
that no rule looks at are one letter (two for hosts); "?" stands for "#" as
well. A behaviour is two steps: something is stored (prefix, host pattern,
selector), then something is compared with it or printed from it.

## 3. Properties

- `SpendsWithinApproval`: uses that left the service plus claims in flight
  never exceed the uses in the row, nor these the budget granted, nor that the
  budget asked. README.md:203 "atomic use budget", SECURITY.md:66-68.
- `UseMatchesApproval`: a handler between claim and reply has the agent, target,
  definition and credential value that the reviewer approved. The hazards are the
  early read of the definition, the rewrite of an item, a renamed item.
- `LifecycleStep`: every row moves along `free-pending-approved-revoked`,
  `pending-denied`, `pending-stale`, `approved-stale` only; what was asked and
  what was granted are frozen; a use is only counted, by one, while approved.
- `ReceiptOrder`: a revealed value is recorded before it leaves; a use over HTTP
  is never recorded unless it was sent, although the daemon may be killed
  anywhere.
- `ReviewAudited`: on one daemon that was not killed, every request and decision has
  its audit row or its handler is just about to write it. Section 5 says why not
  on two.
- `NoDuplicatePending`, `PendingBounded`: retries and the quota, under
  concurrent requests to one daemon.
- `StaleOnlyWhenChanged`: a lease is closed as stale only if the definition or
  the field value differs from what was approved. It holds for exact leases; for
  capabilities it does not (section 5).
- `LockReleased`: a thread that holds a lock gives it up.
- `DeadKeyRefused`: once revoke_agent or rotate_agent has replied, no call is
  admitted with a key it ended. For one daemon; section 5 says why not for two.
- `IssuedKeyStored`: a key that was handed out is in the committed database or was
  rotated away, though another thread's rollback may take its INSERT.
- `RevokedStays`: a committed revocation survives a rotation that read the row
  before it.
- `Opens`, `OneRowPerSource`: what put_item and create_vault leave opens, and a
  source has one row, although both look first and write later without a lock.
- `ImportComplete`, `RepeatAddsNothing`: an import that reports its end has put
  everything with the right content in the right vault, whatever failed before;
  after it, importing adds no row. Both leave out an import of which the rollback
  of a losing review may have undone a write (section 5).
- `AnswerMatches`, `AtMostOnce` (a refinement of `RpcContract`), `CallEnds`,
  `SessionRecovers`: answers belong to their calls; nothing is carried out twice;
  every call ends; a socket on which no call has failed works.
- `ConfigWhole`, `RowsOpen`: with one initialisation at a time, config.json is never half written; what a daemon has
  stored opens under the key of the configuration there is.
- `ServingReachable`, `StartServes`, `StopEnds`: a daemon alone is reached through
  its path, comes to serve although its predecessor left a socket, and stops.
- `Contained`, `NothingLegalRefused`, `AcceptedAgain`: a path leads below the
  prefix when it is decoded and resolved, a plain one below it is sent, and a
  stored one passes the later checks.
- `ShownNamesSelector`: the printed uri parses to the stored selector.
- `CeilingByLabels`: host patterns go by labels.
- `TypeOK`: one type invariant per state machine. It is not free: the clamps have
  to keep budgets and deadlines natural numbers, errors must not become ids.

## 4. The runs

| Run | Instance | Shows |
|---|---|---|
| `gate_capability` | 3 threads on one daemon: a client that requests and invokes, one that invokes, a reviewer who approves, revokes, redefines and edits; 2 requests of budget 1; 1 change; clock 0-1 | TypeOK, SpendsWithinApproval, UseMatchesApproval, LifecycleStep, ImplementsContract |
| `gate_exact` | 2 threads, secret.use to an allowed and a refused host and secret.reveal, 2 items, 1 crash, leases that expire within the clock | UseMatchesApproval, ReceiptOrder, ReviewAudited, StaleOnlyWhenChanged |
| `gate_admission` | 2 requesting threads of one agent and an administrator; 3 ids, quota 2, requests of two different budgets; key revoked | NoDuplicatePending, PendingBounded |
| `gate_two_daemons` | 2 daemons with a thread each that may do everything or find the database locked; secret.reveal; 1 request of budget 2; entries of -1 and 2 for TTL and budget; 1 crash, 1 change | SpendsWithinApproval, LifecycleStep, ImplementsContract |
| `gate_liveness` | 2 threads that may do everything, capability leases, weak fairness | LockReleased |
| `gate_fresh_lease` | 2 threads, capability leases | StaleOnlyWhenChanged is violated |
| `identity` | 3 threads and 1 agent name: one thread does everything, one revokes and reviews, one creates, rotates, reviews and calls, on the same daemon or on another; 2 ids or secrets; 1 kill | TypeOK, IssuedKeyStored, DeadKeyRefused, RevokedStays |
| `identity_name` | 1 thread, 1 daemon | ActiveNameFound is violated |
| `proton_import` | an importer and a reviewer on one daemon; on a second one an administrator who creates a vault, moves an item and reviews; 2 vaults, 3 items (one in the trash), 2 editions; 1 request to review; 1 kill | TypeOK, Opens, OneRowPerSource, ImportComplete, RepeatAddsNothing |
| `rpc_session` | 5 calls, the third too large; 3 kills | TypeOK, AnswerMatches, AtMostOnce, CallEnds, SessionRecovers |
| `deployment` | 3 runs of init, one at a time; 2 daemons; 3 kills | ConfigWhole, RowsOpen, ServingReachable, StartServes, StopEnds |
| `text_rules` | prefixes to 3 tokens, paths to 5, references to 7, host patterns to 4 characters, hosts to 5 | Contained, NothingLegalRefused, AcceptedAgain, ShownNamesSelector, CeilingByLabels |

Bounds. `Request` bounds how many requests are ever made (`NoIdLeft`); two are
enough for two candidates in a claim and for a claim that passes over the first.
`MaxClock` bounds the clock; one tick separates "before the deadline" from "at the
deadline", with `MinTTL` 1 for the 60 seconds. `MaxCrash` and `MaxChange` bound
kills and writes to the stores: one change is enough to make a snapshot stale,
and one kill reaches every step. Two values per field, two definitions. Request ids are interchangeable, hence the symmetry set; the run with
a liveness property uses none.

`MaxMint` bounds the random ids and secrets of `identity`: two are a creation and a
rotation, or two creations of which one dies with its transaction. `Vault`,
`Item` and `Key` in `proton_import` are larger than what can be in
use at once, and one that is nowhere any more is drawn again. One request is
enough for a review to lose, once in a behaviour. An UPDATE that finds its row gone
and a foreign key that raises take a third thread on one daemon, which this
instance does not have: of these two cases only the theorems speak. Where an instance could
use up its ids or keys (`NewId`, `FreshKey`, `Uuid`), the model draws no more and
the handler stays where it is; so the theorems need no assumption on how many
there are. `MaxUnsourced` is 0 there:
an item without a source cannot collide. Two editions tell an import from the
next one. `MaxCall` and `MaxCrash` in `rpc_session` leave room for a failed call, a
kill and two calls after it. `SetupsAtOnce` is 1 in `deployment`, see section 5;
`AtOnce` is 2, as a third daemon meets the path as a second does. The bounds of
`text_rules` hold "/a" as a prefix with a longer path whose next segment is "..",
escaped or not, and a reference with an escaped separator in each of its parts.

Deadlock checking is on for the runs of the gate, of `identity` and of
`proton_import`: somebody can always call again. It is off where the system
really stops: in `rpc_session` when the client has made its last call, in
`deployment` when every initialisation has failed and there is no configuration,
in `text_rules` when the one question of a behaviour is answered.

Fairness. The gate's `FairSpec` asks only that a thread that holds its daemon's
lock goes on (`HolderStep`): under the lock the code runs SQL statements and
cryptography, never the network (`_execute_http` runs after the claim has given
the lock up), and the operating system schedules every thread. Nothing is assumed
about who gets a free lock, about clients, reviewers or the network, and nothing
about progress beyond the lock is claimed: a thread that waits for the lock may,
as far as `threading.RLock` promises, wait forever. RpcSession's `FairSpec` asks
that a client in a call and the thread that serves it go on; not that a client
begins or closes, nor that a daemon is started again. DaemonLife's asks that the
threads of a process go on (`GoOn`), once it is started or signalled; not that
anybody starts or signals it. `StartServes` speaks of daemons after the last kill.

## 5. Where the documents and the code differ

Two disagreements are runs that TLC refutes:

- `gate_fresh_lease`. An invocation reads the capability (`service.py:1013`) before
  it takes the lock (1023), and compares leases with that row. Redefinition, a new
  request and its approval fit in between. The invocation then finds the new
  lease of another version than the one it has read and closes it as stale,
  although nothing about it has changed (README.md:206). By the same early read an
  old lease may be used under a definition that has just been replaced;
  `UseMatchesApproval` shows what remains true: such a use is still exactly what
  the reviewer approved.
- `identity_name`. create_agent looks for the name among active agents, rotate and
  revoke among all (488, 507, 522). Created, revoked and created again, an agent
  is "ambiguous" by its name, by which tests/test_access_gate.py:438 revokes.

Limits met while modelling. Each is a condition in a property, not a run of its
own, as no document speaks of the case:

- `DeadKeyRefused` needs a single daemon. With two, a failed INSERT leaves a
  transaction whose snapshot the daemon authenticates against, and a review that
  loses to the other daemon rolls back what another thread has executed; that
  thread's commit is then empty and it reports success.
- `ImportComplete` and `RepeatAddsNothing` meet that rollback too
  (`service.py:890`, 909, 925): with a second daemon put_item may return an item that
  is not stored, the import reports its end without it, and the next import adds
  it. Without the condition `undone` TLC refutes both in `proton_import`, as follows:
  a review reads "pending", the other daemon decides and commits, put_item executes
  its INSERT, the review's UPDATE finds no row and rolls back.
- `ReviewAudited` needs a single daemon: audit writes in a transaction of its own
  (1112-1117), which with a second daemon can raise "database is locked" after the
  request or decision was committed.
- `ConfigWhole` and `RowsOpen` need initialisations one after the other. Two that have both found
  no config.json replace each other's root key (`config.py:54`, 65), and the second empties the config.tmp
  that the first is about to rename (63).
- `NoDuplicatePending` and `PendingBounded` need a single daemon: each daemon has a
  `_db_lock` of its own, so two may both look for pending requests
  (`service.py:617`, 624) and then both insert.
- `ImportComplete` speaks of one import at a time: two of the same export that
  carry different editions move an item to and fro.
- `ServingReachable` and `StartServes` need a daemon beside which no other runs: each
  unlinks the other's path, also one that only failed to bind (`server.py:47`, 56).
- `RepeatAddsNothing` is about items with an id in the export
  (`proton_import.py:78-80` draws one for the others).
- `SessionRecovers`: after request_too_large or an error of the transport the
  session keeps its dead socket, and every call fails until close.
- `AcceptedAgain`: urlsplit drops tabs after the tests for "/" and "//", so that a
  path of a slash and a tab is stored as "" and can never be approved.

## 6. What is proved

TLAPS checks 35 theorems that hold for any number of threads, daemons, agents,
requests, items, calls and kills, and for texts of any length. Each is about the
specification that a run checks, and all but four state a property of that run. The last column has what
a theorem supposes beside the assumptions of its module; the text below says why.

| Module | Theorem | Property | Supposes |
|---|---|---|---|
| `LeaseProofs` | `TypeCorrect` | `TypeOK` | |
| | `UseMatchesApprovalHolds` | `UseMatchesApproval` | |
| | `LifecycleHolds` | `LifecycleStep` | |
| | `SpendsWithinApprovalHolds` | `SpendsWithinApproval` | |
| | `ImplementsContractHolds` | `ImplementsContract`, the refinement | |
| | `Invariance` | the invariant `IInv` of all these | |
| | `ClampBounds` | what a reviewer enters never widens a request | |
| `GateProofs` | `ReceiptsAlwaysInOrder` | `ReceiptOrder` | |
| | `ReviewsAlwaysAudited` | `ReviewAudited` | one daemon, in the property |
| | `NeverADuplicate` | `NoDuplicatePending` | `OneHome` |
| | `PendingAlwaysBounded` | `PendingBounded` | `OneHome` |
| | `ExactStaleOnlyWhenChanged` | `StaleOnlyWhenChanged` of the exact leases | |
| | `StaleOnlyAfterAChange` | `StaleOnlyWhenChanged` | exact targets only |
| `IdentityProofs` | `IdentityTypeCorrect` | `TypeOK` | |
| | `IssuedKeyAlwaysStored` | `IssuedKeyStored` | |
| | `RevocationIsFinal` | `RevokedStays` | |
| | `DeadKeyAlwaysRefused` | `DeadKeyRefused` | one daemon, in the property |
| `CustodyProofs` | `ImportTypeCorrect` | `TypeOK` | |
| | `AlwaysOpens` | `Opens` | |
| | `AlwaysOneRowPerSource` | `OneRowPerSource` | |
| `ImportProofs` | `ImportAlwaysComplete` | `ImportComplete` | `OneImporter`, `IdsApart`; nothing undone, in the property |
| | `RepeatNeverAdds` | `RepeatAddsNothing` | `OnlyTheExport`; nothing undone, in the property |
| `RpcProofs` | `RpcTypeCorrect` | `TypeOK` | |
| | `AnswerAlwaysMatches` | `AnswerMatches` | |
| | `RpcImplementsContract` | `AtMostOnce`, the refinement | |
| | `SessionAlwaysRecovers` | `SessionRecovers` | |
| `DeploymentProofs` | `ConfigAlwaysWhole` | `ConfigWhole` | `SetupsAtOnce = 1` |
| | `RowsAlwaysOpen` | `RowsOpen` | `SetupsAtOnce = 1` |
| | `AlwaysReachable` | `ServingReachable` | alone, in the property |
| `TextProofs` | `AlwaysContained` | `Contained` | |
| | `NothingLegalEverRefused` | `NothingLegalRefused` | a plain path, in the property |
| | `AlwaysAcceptedAgain` | `AcceptedAgain` | no tab, in the property |
| | `ShownAlwaysNamesSelector` | `ShownNamesSelector` | |
| | `CeilingAlwaysByLabels` | `CeilingByLabels` | |
| | `TextInvariance` | the invariant `TextInv` of these five | |

Assumptions on the constants stand in the modules that declare them, and every
run evaluates those of its module. They say that sets have the types the schema
gives them, that `None` is none of the values it stands in for, and of what is
counted (threads, initialisations) that it is finite. `ConstantsAssumption` adds
that an agent asks for at least one use and at least `MinTTL` seconds (both
requests check that, `service.py:589-592`), `ImportAssumption` that an importer
makes no calls beside those of its export. Of the text rules only the bounds on
lengths are assumed to be numbers: tokens and characters are any sets.

### The gate: `LeaseProofs`

`TypeOK` is not inductive: that a claim stays typed depends on the
row it claims, and that on what approval wrote. `IInv` adds three parts.
`JobShape` says what a thread's local variables hold at each step; its core is
`HasLease`: from the claim on, the row of the claim is reviewed and agrees with
what the handler has read. `RowShape` says what a row holds in each status, with
uses at most max and max at most what was asked. `Counted` says that uses gone
and claims in flight are all counted in the row.

1. `TableStep`: a step changes at most one row, by an insert, a grant, a closing
   or a use (`RowChange`), and then no use leaves. `RowsStep`: so every row makes
   a legal step of its life. This is `LifecycleStep`.
2. `JobKept`: what a thread that does not move relies on survives any legal step
   of the rows; approved columns are frozen, reviewed rows stay reviewed. With
   the steps of the thread that does move, `JobShape` is inductive (`ShapeStep`),
   which gives `UseMatchesApproval`.
3. `ClaimStep`: as far as uses go, a step is a claim, an effect of a claim in
   flight, or neither. `CountedByClaim`, `CountedByEffect` and `CountedByFewer`
   count each case with the cardinality lemmas of FiniteSetTheorems.
4. Refinement: a changed row is Submit, Grant, Close or Spend
   (`TableStepImplements`), and an effect needs a use spent and not yet done,
   which is what `Counted` gives (`EffectImplements`).

### The gate: `GateProofs`, on `IInv`

- Receipts. `ReceiptOrder` compares two counters of a row and forgets the threads
  between them. `Receipted` balances them: what has been sent and not recorded,
  or recorded and not sent, is owed by a thread at that very step, and a thread
  owes one effect at most.
- Audit. `ReviewAudited` is inductive on `IInv` once each step is one of two kinds: it
  changes no row and no thread drops a debt (`DebtsKept`), or it changes one row and
  leaves the thread that owes its audit row (`ChangesOwed`). A handler that finds the
  database locked drops its debt, which takes a second daemon (`OneHome`).
- Admission. `LockHeld`: a thread between SELECT and COMMIT has its daemon's lock.
  Under `OneHome` all threads share that lock, so what RequestSelect has read is
  what is pending when RequestInsert runs (`Fresh`); then quota and search in what
  was read decide (`Counts`). Without `OneHome` TLC refutes `NoDuplicatePending`: the
  hypothesis is not for the prover's comfort (section 5).
- Staleness. ClaimStale compares a row with the definition the handler has read
  early. For an exact lease both are None (`ExactJobs`, `ExactRows`), so that only
  the value of the field can differ, which is read with the lock held. For
  capabilities the run `gate_fresh_lease` refutes the property.

### `IdentityProofs`

`ConnInv` says what the versions of the database are to each other: a snapshot is
the committed version or an earlier one, a working copy extends the committed
version, and there is one at most. One version extends another when it has the
other's agents, as revoked as there, with the same secret or a later one. From
this alone follows `RevokedStays`. `IssuedKeyStored` needs what each handler has
in hand (`JobOK`): a create_agent that has written finds its row in the working
copy of its own daemon or committed (`Kept`). The INSERT may be rolled back by
another thread, but then the read for the reply (`service.py:499`) does not find
it and the key is not handed out. `DeadKeyRefused` adds `Alone`: with one daemon there are no
outdated snapshots and nothing rolls back, so what was revoked stays
executed until its commit.

### `CustodyProofs` and `ImportProofs`

`ConnInv` is here that every version, committed or not, is `Good`: sources are
unique, every item is sealed under the key and the vault stored beside it. A
handler that looks first and writes later is safe because the UNIQUE constraint
refuses a second row (`Taken`), because what it writes over an old row it seals
with the key that it writes beside it, and because an id in some thread's hand is
not drawn again: whatever rolls back in between, a row of that id has the source
it had (`VaultIs`, `ItemIs`, kept by `IdsStay`). The committed database only grows
(`Extends`); the version of a daemon also shrinks, when a kill or a losing review
rolls it back (`Grow` says whose did not). `ImportInv` adds the position of each importer
and, as long as it is not in `undone` (`Present`), that what lies behind it is
stored in the committed database or carried by the call being answered; `Finished`
says so of an import that ended.

`ContentInv` adds what rows contain: `Placed`, `Target` and `Contents` follow one item of
the export from the call to the row, `Foreign` says what calls of others are
about. `ImportComplete` is stated of items that nobody else writes;
`OneImporter` and `IdsApart` say the same of the export itself: no second import
with another edition, two entries are not one item, no random id is also an id of
the export, and no vault is called by another's id (ids are random,
`service.py:249`). `OnlyTheExport`, for `RepeatAddsNothing`: every item has an id,
and others bring in no source the export does not have, so that the set of
sources is at its limit once all are there (`KnownInv`).

### `RpcProofs`

`RpcInv`: on an open connection the request, the handler and the response are in
one place each (`LinkInv`): what the client has read and what is on its way are
together a whole response to the current call, or the beginning of one whose
rest will never come. One call is in progress and the earlier ones have ended
(`CallInv`); it is carried out between the sending of its request and its
response (`DoneInv`). So a step is one step of `RpcContract` or none.

### `DeploymentProofs`

With one initialisation at a time, who goes on has found no config.json, and the
config.tmp it writes is its own (`SetupInv`); config.json is thus written once,
whole, and every daemon that runs has its key (`KeyInv`). `AloneInv`: nothing runs
beside a daemon that has been alone since its start, so nobody unlinks its path.

### `TextProofs`

`TextInv` is short, as a behaviour has two steps: what is stored are texts, the
prefix has passed put_capability, and the answer is that of the rule. The work is
in what the rules compute, for texts of every length. str.split, str.replace,
str.join and the walk of a target are recursive functions in the model, and the
library's induction theorems take an operator, which no prover here can
instantiate. So induction is stated on sets: `NatInduct` says that a set with 0
and with every successor has all numbers, as otherwise the rest would have a
least element (the order of Nat is well founded); `TextInduct` says the same of
texts that grow by a token at their end.

1. `RecursionExists`: a function that is computed step by step exists on 0..N.
   `SplitRecursion`, `WithoutRecursion`, `JoinedRecursion` and `WalkRecursion`: the
   CHOOSE of the definition is such a function. `SplitFacts` and its like turn
   this into equations, one for the empty text and one for a token more. From
   here on nothing looks inside a recursive definition.
2. Algebra. `SplitConcat`: splitting on both sides of a separator is splitting
   each side. `JoinedSplit`: joining what was split gives the text back, so that
   different texts split differently. Hence `SplitPrefix` and `SplitSuffix`: when the
   parts of one text come first (last) among those of another, so does the text,
   and a separator follows (precedes) it.
3. `CeilingByLabels` by `LabelsDecide`: the suffix test of `_host_allowed` with its
   dot is `SplitSuffix` one way, `SplitConcat` the other.
4. `NothingLegalRefused` by `SegmentsBelow`, which is `SplitPrefix`. `Contained` by
   `CapabilityContains`: without ".." a walk never goes back (`WalkOn`), and the "/" that
   rstrip drops leads nowhere (`ResolvedStripped`).
5. `AcceptedAgain`: without tabs `urlsplit` cuts at the first "?" only
   (`UrlSplitPlain`), and what is left still begins with one "/" (`AbsoluteUntil`).
6. `ShownNamesSelector`: `Quote` leaves no raw "/", "?" or tab and `Unquote` undoes it
   (`QuoteFacts`), so that a written selector is cut where it was put together
   (`ParseParts`). What was stored has no empty vault or item, as `Parse` drops empty
   parts (`ParseType`).

### What stays with TLC

- `LockReleased`, `CallEnds`, `StartServes`, `StopEnds`: liveness under fairness.
- The assumptions about SQLite in `Connection`, as those about cryptography and
  about `urllib.parse`, are the model's; no proof removes them.

## 7. Not modelled, and why

- Power loss (`db.py:9`): what WAL with synchronous=NORMAL takes back is decided
  by SQLite and the file system, not by this code. A killed process loses nothing
  it has committed, and that is modelled.
- Handlers in progress when service.close closes the database, and calls that a
  client interrupts: the outcome is an exception in a thread that is ending.
- `crypto.py` and the hashing of `authority.py`: taken as ideal. Custody models which
  key seals what.
- Header rules, DNS and address checks, redaction, response sizes (`service.py`
  301-314, 357-372, 1165-1224, 1307-1322): functions of one value with no state.
- `cli.py` beside init and serve, `errors.py`, benchmarks and examples.
- Rows of v0.2 and early v0.3 (`service.py:975-985`); listings, which read only.

## 8. Plan for further proofs

Every safety property of the state machines is proved, each under the weakest
hypothesis found. What may still be worth the work:

1. An abstract specification of the committed custody tables (a source is bound
   once and never leaves) that `Custody` implements, as `RpcSession` implements
   `RpcContract`; `Extends` and `Good` already say what a commit does.
2. `RepeatAddsNothing` when administrators bring in sources of their own: true of
   the rows of the export's sources, with a count that leaves the others out.
