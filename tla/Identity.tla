------------------------------- MODULE Identity -------------------------------
(***************************************************************************)
(* The agents table of passd: create_agent, rotate_agent, revoke_agent and *)
(* authenticate_agent, statement by statement, by threads that share one   *)
(* connection.  Only rotation and authentication take the lock.  Of the    *)
(* other handlers on the connection there are a request and its review: a  *)
(* review that loses to another daemon rolls the connection back.          *)
(***************************************************************************)
EXTENDS Connection, Integers, FiniteSets

CONSTANTS
  Thread,    \* the connections, each served by a thread of its own
  Homes,     \* SUBSET [Thread -> Daemon]: who may be connected to whom
  Calls,     \* [Thread -> SUBSET (Call \cup {"use"})]
  Name,      \* agent names
  MaxMint,   \* bound: how many token ids and secrets are drawn
  MaxCrash   \* bound: how often daemons are killed

Call == {"create", "rotate", "revoke", "review"}
\* Token ids and secrets are random and never met twice: they are numbered in
\* the order in which they are drawn, and an id has the number of its first
\* secret.  A key, pda_<id>.<secret>, is both.
Id == 1 .. MaxMint
Ref == Name \cup Id
KeyType == [id: Id, secret: Id]
RowType == [name: Name, secret: Id, revoked: BOOLEAN]
DbType == [agents: [Id -> RowType \cup {None}], pending: BOOLEAN]

ASSUME IdentityAssumption ==
  /\ Homes \subseteq [Thread -> Daemon] /\ Homes # {}
  /\ Calls \in [Thread -> SUBSET (Call \cup {"use"})]
  /\ MaxMint \in Nat /\ MaxCrash \in Nat
  /\ None \notin Thread \cup Name \cup KeyType \cup RowType

VARIABLES
  home,      \* the daemon that each connection goes to
  lock,      \* _db_lock of each daemon: its holder
  pc, job,   \* where a thread is, and the handler's local variables
  minted,    \* the last id or secret drawn
  issued,    \* the keys that a reply has handed out
  dead,      \* the keys that a replied revocation or rotation has ended
  crashes

vars == <<disk, conn, home, lock, pc, job, minted, issued, dead, crashes>>
threads == <<lock, pc, job>>
history == <<issued, dead, crashes>>

PC == {"idle", "found", "written", "committed", "inside"}
NoJob == [call |-> "none", name |-> None, key |-> None, old |-> None]
JobType ==
  [call: Call \cup {"none", "use"}, name: Name \cup {None},
   key: KeyType \cup {None}, old: KeyType \cup {None}]

Init ==
  /\ ConnInit([agents |-> [i \in Id |-> None], pending |-> FALSE])
  /\ home \in Homes
  /\ lock = [d \in Daemon |-> None]
  /\ pc = [t \in Thread |-> "idle"]
  /\ job = [t \in Thread |-> NoJob]
  /\ minted = 0 /\ issued = {} /\ dead = {} /\ crashes = 0

-----------------------------------------------------------------------------
Db(t) == View(home[t])
Free(t) == lock[home[t]] = None
Goto(t, p, j) == pc' = [pc EXCEPT ![t] = p] /\ job' = [job EXCEPT ![t] = j]
At(t, p, call) == pc[t] = p /\ job[t].call = call
Locking == {"rotate", "review"}
Begin(t, call, p, j) ==
  /\ pc[t] = "idle" /\ call \in Calls[t]
  /\ Goto(t, p, [j EXCEPT !.call = call])
  /\ IF call \in Locking /\ p # "idle"
     THEN Free(t) /\ lock' = [lock EXCEPT ![home[t]] = t]
     ELSE UNCHANGED lock
\* The handler returns or raises, which releases its lock.
Return(t) ==
  /\ Goto(t, "idle", NoJob)
  /\ lock' = [d \in Daemon |-> IF lock[d] = t THEN None ELSE lock[d]]

Active(db, n) ==
  {i \in Id : db.agents[i] # None /\ db.agents[i].name = n /\ ~db.agents[i].revoked}
\* SELECT * FROM agents WHERE id=? OR name=?
Matches(db, ref) ==
  {i \in Id : db.agents[i] # None /\ (i = ref \/ db.agents[i].name = ref)}
Valid(db, k) ==
  db.agents[k.id] # None /\ ~db.agents[k.id].revoked /\ db.agents[k.id].secret = k.secret
KeyOf(db, i) == [id |-> i, secret |-> db.agents[i].secret]

\* UPDATE agents SET ... WHERE id=?, which changes nothing when the row is gone: a
\* review that was rolled back may have taken it away.
Updated(db, i, row) ==
  IF db.agents[i] = None THEN db ELSE [db EXCEPT !.agents[i] = row]

\* A bound: a secret is left for every handler that is going to draw one.
Room ==
  minted + Cardinality({t \in Thread : \E c \in {"create", "rotate"} : At(t, "found", c)})
    < MaxMint

(* create_agent: no lock, no unique index on the name *)

\* A name that is taken is refused, which changes nothing.
CreateLook(t) ==
  \E n \in Name :
    /\ Room /\ Active(Db(t), n) = {}
    /\ Begin(t, "create", "found", [NoJob EXCEPT !.name = n])
    /\ Select(home[t])
    /\ UNCHANGED <<minted, history>>

CreateWrite(t) ==
  /\ At(t, "found", "create")
  /\ minted' = minted + 1
  /\ Execute(home[t], [Db(t) EXCEPT !.agents[minted'] =
       [name |-> job[t].name, secret |-> minted', revoked |-> FALSE]])
  /\ Goto(t, "written", [job[t] EXCEPT !.key = [id |-> minted', secret |-> minted']])
  /\ UNCHANGED <<lock, history>>

\* Mutant: the reply is made of what was to be written.
CreateReply_Unread(t) ==
  /\ At(t, "committed", "create")
  /\ issued' = issued \cup {job[t].key}
  /\ Select(home[t]) /\ Return(t)
  /\ UNCHANGED <<minted, dead, crashes>>
\* The row is read again for the reply, which fails when it is not there.
CreateReply(t) ==
  /\ At(t, "committed", "create")
  /\ issued' = IF Db(t).agents[job[t].key.id] # None
               THEN issued \cup {job[t].key} ELSE issued
  /\ Select(home[t]) /\ Return(t)
  /\ UNCHANGED <<minted, dead, crashes>>

(* rotate_agent, under the lock; revoke_agent, without it *)

\* No match, several, or for a rotation a revoked one: refused.
RefLook(t) ==
  \E call \in {"rotate", "revoke"}, ref \in Ref :
    \E i \in Id :
      /\ Matches(Db(t), ref) = {i}
      /\ call = "rotate" => Room /\ ~Db(t).agents[i].revoked
      /\ Begin(t, call, "found", [NoJob EXCEPT !.old = KeyOf(Db(t), i),
                                               !.name = Db(t).agents[i].name])
      /\ Select(home[t])
      /\ UNCHANGED <<minted, history>>

\* Mutant: the whole row is written back as it was read.
RotateWrite_WholeRow(t) ==
  LET i == job[t].old.id IN
  /\ At(t, "found", "rotate")
  /\ minted' = minted + 1
  /\ Execute(home[t],
       Updated(Db(t), i, [name |-> job[t].name, secret |-> minted', revoked |-> FALSE]))
  /\ Goto(t, "written", [job[t] EXCEPT !.key = [id |-> i, secret |-> minted']])
  /\ UNCHANGED <<lock, history>>
RotateWrite(t) ==
  LET i == job[t].old.id IN
  /\ At(t, "found", "rotate")
  /\ minted' = minted + 1
  /\ Execute(home[t],
       Updated(Db(t), i, [Db(t).agents[i] EXCEPT !.secret = minted']))
  /\ Goto(t, "written", [job[t] EXCEPT !.key = [id |-> i, secret |-> minted']])
  /\ UNCHANGED <<lock, history>>

RotateReply(t) ==
  /\ At(t, "committed", "rotate")
  /\ issued' = issued \cup {job[t].key}
  /\ dead' = dead \cup {job[t].old}
  /\ Select(home[t]) /\ Return(t)
  /\ UNCHANGED <<minted, crashes>>

\* Mutant: a revocation clears the hash, in a column that is NOT NULL.
RevokeWrite_ClearsHash(t) ==
  LET i == job[t].old.id IN
  /\ At(t, "found", "revoke")
  /\ Execute(home[t], Updated(Db(t), i,
       [Db(t).agents[i] EXCEPT !.revoked = TRUE, !.secret = None]))
  /\ Goto(t, "written", job[t])
  /\ UNCHANGED <<lock, minted, history>>
RevokeWrite(t) ==
  LET i == job[t].old.id IN
  /\ At(t, "found", "revoke")
  /\ Execute(home[t], Updated(Db(t), i, [Db(t).agents[i] EXCEPT !.revoked = TRUE]))
  /\ Goto(t, "written", job[t])
  /\ UNCHANGED <<lock, minted, history>>

\* Every key that the agent has been given is at its end.
RevokeReply(t) ==
  /\ At(t, "committed", "revoke")
  /\ dead' = dead \cup {job[t].old} \cup {k \in issued : k.id = job[t].old.id}
  /\ Return(t)
  /\ UNCHANGED <<disk, conn, minted, issued, crashes>>

(* A request for access and its review, as far as the connection goes *)

\* request_access, request_capability: the INSERT and its commit, in the lock.
Ask(t) ==
  /\ "review" \in Calls[t] /\ pc[t] = "idle" /\ Free(t) /\ ~Db(t).pending
  /\ Store(home[t], [Db(t) EXCEPT !.pending = TRUE])
  /\ UNCHANGED <<threads, minted, history>>

ReviewLook(t) ==
  /\ Db(t).pending
  /\ Begin(t, "review", "found", NoJob)
  /\ Select(home[t])
  /\ UNCHANGED <<minted, history>>

\* UPDATE ... WHERE status='pending': another daemon may have been first.
ReviewWrite(t) ==
  /\ At(t, "found", "review") /\ CanWrite(home[t])
  /\ IF Db(t).pending
     THEN /\ Execute(home[t], [Db(t) EXCEPT !.pending = FALSE])
          /\ Goto(t, "written", job[t]) /\ UNCHANGED lock
     ELSE Rollback(home[t]) /\ Return(t)
  /\ UNCHANGED <<minted, history>>

ReviewReply(t) ==
  /\ At(t, "committed", "review")
  /\ Return(t)
  /\ UNCHANGED <<disk, conn, minted, history>>

(* Every writing handler *)

\* Mutant: a revocation is not committed.
CommitStep_NotRevoked(t) ==
  /\ pc[t] = "written"
  /\ IF job[t].call = "revoke" THEN UNCHANGED <<disk, conn>> ELSE Commit(home[t])
  /\ Goto(t, "committed", job[t])
  /\ UNCHANGED <<lock, minted, history>>
CommitStep(t) ==
  /\ pc[t] = "written"
  /\ Commit(home[t])
  /\ Goto(t, "committed", job[t])
  /\ UNCHANGED <<lock, minted, history>>

\* "database is locked"
Locked(t) ==
  /\ pc[t] = "found"
  /\ ExecuteLocked(home[t])
  /\ Return(t)
  /\ UNCHANGED <<minted, history>>

(* authenticate_agent *)

\* A key that was given out is accepted and the call goes on.
Authenticate(t) ==
  \E k \in issued \cup dead :
    /\ "use" \in Calls[t] /\ pc[t] = "idle" /\ Free(t)
    /\ Valid(Db(t), k)
    /\ Goto(t, "inside", [NoJob EXCEPT !.call = "use", !.key = k])
    /\ Select(home[t])
    /\ UNCHANGED <<lock, minted, history>>

Served(t) ==
  /\ pc[t] = "inside"
  /\ Return(t)
  /\ UNCHANGED <<disk, conn, minted, history>>

Crash(d) ==
  /\ \E t \in Thread : home[t] = d
  /\ crashes < MaxCrash /\ crashes' = crashes + 1
  /\ Rollback(d)
  /\ lock' = [lock EXCEPT ![d] = None]
  /\ pc' = [t \in Thread |-> IF home[t] = d THEN "idle" ELSE pc[t]]
  /\ job' = [t \in Thread |-> IF home[t] = d THEN NoJob ELSE job[t]]
  /\ UNCHANGED <<minted, issued, dead>>

ThreadStep(t) ==
  \/ CreateLook(t) \/ CreateWrite(t) \/ CreateReply(t)
  \/ RefLook(t) \/ RotateWrite(t) \/ RotateReply(t)
  \/ RevokeWrite(t) \/ RevokeReply(t)
  \/ Ask(t) \/ ReviewLook(t) \/ ReviewWrite(t) \/ ReviewReply(t)
  \/ CommitStep(t) \/ Locked(t)
  \/ Authenticate(t) \/ Served(t)
Next ==
  /\ (\E t \in Thread : ThreadStep(t)) \/ (\E d \in Daemon : Crash(d))
  /\ UNCHANGED home
Spec == Init /\ [][Next]_vars

-----------------------------------------------------------------------------
(* Properties *)

\* Rows, snapshots, jobs and keys have the types of the schema.
TypeOK ==
  /\ disk \in DbType
  /\ \A d \in Daemon : conn[d].mode \in Mode /\ conn[d].db \in DbType \cup {None}
  /\ home \in Homes /\ lock \in [Daemon -> Thread \cup {None}]
  /\ pc \in [Thread -> PC] /\ job \in [Thread -> JobType]
  /\ minted \in 0 .. MaxMint
  /\ issued \subseteq KeyType /\ dead \subseteq KeyType

\* Once revoke_agent or rotate_agent has replied, no call is admitted with a key
\* that it ended (tests/test_access_gate.py:401 and 437), whatever else was
\* running, and also by a daemon that was killed and started again.  Only while
\* one daemon has the database: of two, one may answer from a snapshot that a
\* failed INSERT left open, and a review that it loses rolls back what another
\* thread has executed, whose commit then has nothing to commit.
OneDaemon == \A t, u \in Thread : home[t] = home[u]
DeadKeyRefused ==
  [][\A t \in Thread :
       OneDaemon /\ pc[t] = "idle" /\ pc'[t] = "inside" => job'[t].key \notin dead]_vars

\* A key that create_agent or rotate_agent has handed out is in the committed
\* database, or a later rotation has taken its place: no reply is lost by a
\* crash, by another daemon or by another thread's rollback.
IssuedKeyStored ==
  \A k \in issued :
    disk.agents[k.id] # None /\ disk.agents[k.id].secret >= k.secret

\* A committed revocation is final, although rotate_agent may have read the row
\* before it and revoke_agent does not wait for rotate_agent's lock.
RevokedStays ==
  [][\A i \in Id : disk.agents[i] # None =>
       /\ disk'.agents[i] # None
       /\ disk.agents[i].revoked => disk'.agents[i].revoked]_vars

\* An active agent can be rotated and revoked by its name, as
\* tests/test_access_gate.py:438 does: "an active agent named ... already exists"
\* (service.py:489) is said of one.  Not when a revoked agent had the name before
\* it, nor when two create_agent at once have both found it free.
ActiveNameFound ==
  \A n \in Name : \A i \in Active(disk, n) : Matches(disk, n) = {i}
=============================================================================
