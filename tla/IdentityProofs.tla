---------------------------- MODULE IdentityProofs ----------------------------
(***************************************************************************)
(* Theorems about machine identities, for every set of daemons, threads    *)
(* and calls, any number of tokens, and however often daemons are killed.  *)
(***************************************************************************)
EXTENDS Identity, TLAPS, FiniteSetTheorems

-----------------------------------------------------------------------------
(* Versions of the database *)

Rows(db) == {i \in Id : db.agents[i] # None}
Revoked(db, i) == i \in Rows(db) /\ db.agents[i].revoked
\* The key is stored, or a later one of its agent; it is at its end.
Holds(db, k) == k.id \in Rows(db) /\ db.agents[k.id].secret >= k.secret
Ended(db, k) ==
  k.id \in Rows(db) /\ (db.agents[k.id].revoked \/ db.agents[k.id].secret > k.secret)

\* What an earlier version has is there in a later one: its rows, as revoked, and
\* with the secret or one that was drawn later.
Extends(a, b) ==
  \A i \in Rows(a) :
    /\ i \in Rows(b) /\ b.agents[i].secret >= a.agents[i].secret
    /\ a.agents[i].revoked => b.agents[i].revoked

Versions == {disk} \cup {View(d) : d \in Daemon}
Writers == {d \in Daemon : conn[d].mode = "write"}

\* A snapshot is the committed version, or, outdated, an earlier one; a working
\* copy extends the committed version, and there is one at most.
ConnInv ==
  /\ conn \in [Daemon -> [mode: Mode, db: DbType \cup {None}]]
  /\ disk \in DbType
  /\ \A d \in Daemon :
       /\ conn[d].mode = "read" => conn[d].db = disk
       /\ conn[d].mode = "stale" => conn[d].db \in DbType /\ Extends(conn[d].db, disk)
       /\ conn[d].mode = "write" => conn[d].db \in DbType /\ Extends(disk, conn[d].db)
  /\ \A d, e \in Daemon : conn[d].mode = "write" /\ conn[e].mode = "write" => d = e

\* Every secret in a version has been drawn, not before that of its row's id.
Drawn(db) ==
  \A i \in Rows(db) : db.agents[i].secret <= minted /\ i <= db.agents[i].secret

-----------------------------------------------------------------------------
(* The invariant *)

Busy == {"found", "written", "committed"}
Drawing == {t \in Thread : \E c \in {"create", "rotate"} : At(t, "found", c)}

Typed ==
  /\ home \in [Thread -> Daemon] /\ home \in Homes
  /\ lock \in [Daemon -> Thread \cup {None}]
  /\ pc \in [Thread -> PC] /\ job \in [Thread -> JobType]
  /\ minted \in Nat /\ IsFiniteSet(Drawing) /\ minted + Cardinality(Drawing) <= MaxMint
  /\ dead \subseteq KeyType

\* A row that a create_agent has written is committed, or in the working copy of one
\* of the daemons D.
Kept(i, D) ==
  \A d \in Writers : i \in Rows(conn[d].db) => i \in Rows(disk) \/ d \in D

CreateOK(t) ==
  LET k == job[t].key IN
  /\ At(t, "found", "create") => job[t].name \in Name
  /\ At(t, "written", "create") \/ At(t, "committed", "create") =>
       k \in KeyType /\ k.id = k.secret /\ k.id <= minted
  /\ At(t, "written", "create") => Kept(k.id, {home[t]})
  /\ At(t, "committed", "create") => Kept(k.id, {})

RotateOK(t) ==
  LET k == job[t].key
      o == job[t].old IN
  /\ At(t, "found", "rotate") => o.id \in Rows(Db(t))
  /\ At(t, "written", "rotate") \/ At(t, "committed", "rotate") =>
       k \in KeyType /\ o.secret < k.secret /\ o.id = k.id /\ k.secret <= minted
  /\ At(t, "written", "rotate") => Holds(Db(t), k)
  /\ At(t, "committed", "rotate") => Holds(disk, k)

JobOK(t) ==
  /\ pc[t] \in Busy => job[t].call \in Call
  /\ pc[t] \in Busy /\ job[t].call \in Locking => lock[home[t]] = t
  /\ pc[t] \in Busy /\ job[t].call \in {"rotate", "revoke"} =>
       job[t].old \in KeyType /\ job[t].name \in Name /\ job[t].old.secret <= minted
  /\ CreateOK(t) /\ RotateOK(t)

IssuedOK == \A k \in issued : k \in KeyType /\ Holds(disk, k)

\* While one daemon has the database, nothing is rolled back but by a kill: a review
\* is the only one, and a revocation finds its row.
AloneJob(t) ==
  /\ At(t, "found", "review") => Db(t).pending
  /\ At(t, "found", "revoke") => job[t].old.id \in Rows(Db(t))
  /\ At(t, "written", "revoke") => Revoked(Db(t), job[t].old.id)
  /\ At(t, "committed", "revoke") => Revoked(disk, job[t].old.id)
AloneConn ==
  \A d \in Daemon :
    /\ conn[d].mode \in {"auto", "write"}
    /\ conn[d].mode = "write" => \E t \in Thread : home[t] = d
AloneDead == \A k \in dead : Ended(disk, k)
Alone == OneDaemon => AloneConn /\ AloneDead /\ \A t \in Thread : AloneJob(t)

IdentityInv ==
  /\ ConnInv /\ Typed /\ \A db \in Versions : Drawn(db)
  /\ \A t \in Thread : JobOK(t)
  /\ IssuedOK
  /\ Alone

-----------------------------------------------------------------------------
(* The connections *)

\* The columns of a stored agent.
LEMMA RowTyped ==
  ASSUME NEW db \in DbType, NEW i \in Rows(db)
  PROVE  /\ db.agents[i] \in RowType /\ db.agents[i].name \in Name
         /\ db.agents[i].secret \in Id /\ db.agents[i].secret \in Int
         /\ db.agents[i].revoked \in BOOLEAN /\ i \in Id /\ i \in Int
<1>1. db.agents[i] \in RowType /\ i \in Id BY DEF Rows, DbType
<1> QED BY <1>1 DEF RowType, Id

\* A version of the database extends itself.
LEMMA ExtendsSelf == ASSUME NEW a \in DbType PROVE Extends(a, a)
BY RowTyped DEF Extends

\* Versions extend each other in a row.
LEMMA ExtendsTransitive ==
  ASSUME NEW a \in DbType, NEW b \in DbType, NEW c \in DbType, Extends(a, b), Extends(b, c)
  PROVE  Extends(a, c)
<1> SUFFICES ASSUME NEW i \in Rows(a)
             PROVE  /\ i \in Rows(c) /\ c.agents[i].secret >= a.agents[i].secret
                    /\ a.agents[i].revoked => c.agents[i].revoked
  BY DEF Extends
<1>1. i \in Rows(b) /\ i \in Rows(c) BY DEF Extends
<1>2. /\ a.agents[i].secret \in Int /\ b.agents[i].secret \in Int
      /\ c.agents[i].secret \in Int
  BY <1>1, RowTyped
<1> QED BY <1>1, <1>2 DEF Extends

\* What the threads of a daemon see is typed.
LEMMA ViewTyped ==
  ASSUME ConnInv, NEW d \in Daemon
  PROVE  View(d) \in DbType
BY DEF ConnInv, View, Mode

Grow(D) == Extends(disk, disk') /\ \A d \in D : Extends(View(d), View(d)')
\* No version is new; a writer that is one no more has committed, unless it is in D.
Moves(D) ==
  /\ Versions' \subseteq Versions
  /\ Writers' \subseteq Writers /\ \A d \in Writers' : conn'[d].db = conn[d].db
  /\ \A d \in Writers \ Writers' : d \in D \/ disk' = conn[d].db
  /\ disk' = disk \/ \E d \in Writers : disk' = conn[d].db

\* A SELECT changes what no thread sees.
LEMMA SelectConn ==
  ASSUME ConnInv, NEW d \in Daemon, Select(d)
  PROVE  /\ ConnInv' /\ Grow(Daemon) /\ Moves({}) /\ disk' = disk
         /\ \A e \in Daemon : View(e)' = View(e)
<1>1. ConnInv' BY DEF ConnInv, Select, Mode
<1>2. disk' = disk /\ \A e \in Daemon : View(e)' = View(e)
  BY DEF ConnInv, Select, View
<1>3. Grow(Daemon) BY <1>2, ViewTyped, ExtendsSelf DEF Grow, ConnInv
<1>4. Moves({}) BY DEF ConnInv, Select, Moves, Versions, Writers, View
<1> QED BY <1>1, <1>2, <1>3, <1>4

\* A statement that raises "database is locked" takes nothing away.
LEMMA LockedConn ==
  ASSUME ConnInv, NEW d \in Daemon, ExecuteLocked(d)
  PROVE  ConnInv' /\ Grow(Daemon) /\ Moves({}) /\ disk' = disk
<1>1. ConnInv' BY DEF ConnInv, ExecuteLocked, Mode
<1>2. disk' = disk /\ \A e \in Daemon : View(e)' = View(e)
  BY DEF ConnInv, ExecuteLocked, View
<1>3. Grow(Daemon) BY <1>2, ViewTyped, ExtendsSelf DEF Grow, ConnInv
<1>4. Moves({}) BY DEF ConnInv, ExecuteLocked, Moves, Versions, Writers, View
<1> QED BY <1>1, <1>2, <1>3, <1>4

\* A step that does not touch the database takes nothing away.
LEMMA QuietConn ==
  ASSUME ConnInv, UNCHANGED <<disk, conn>>
  PROVE  /\ ConnInv' /\ Grow(Daemon) /\ Moves({})
         /\ \A d \in Daemon : View(d)' = View(d)
<1>1. ConnInv' BY DEF ConnInv
<1>2. disk' = disk /\ \A e \in Daemon : View(e)' = View(e) BY DEF View
<1>3. Grow(Daemon) BY <1>2, ViewTyped, ExtendsSelf DEF Grow, ConnInv
<1>4. Moves({}) BY DEF Moves, Versions, Writers, View
<1> QED BY <1>1, <1>2, <1>3, <1>4

\* A rollback, or a kill, takes rows away from the threads of one daemon only.
LEMMA RollbackConn ==
  ASSUME ConnInv, NEW d \in Daemon, Rollback(d)
  PROVE  ConnInv' /\ Grow(Daemon \ {d}) /\ Moves({d}) /\ disk' = disk
<1>1. ConnInv' BY DEF ConnInv, Rollback, Closed, Mode
<1>2. disk' = disk /\ \A e \in Daemon \ {d} : View(e)' = View(e)
  BY DEF ConnInv, Rollback, View
<1>3. Grow(Daemon \ {d}) BY <1>2, ViewTyped, ExtendsSelf DEF Grow, ConnInv
<1>4. Moves({d}) BY DEF ConnInv, Rollback, Closed, Moves, Versions, Writers, View
<1> QED BY <1>1, <1>2, <1>3, <1>4

\* A statement that writes makes its connection the only writer, of what it made.
LEMMA ExecuteConn ==
  ASSUME ConnInv, NEW d \in Daemon, NEW db \in DbType, Extends(View(d), db),
         Execute(d, db)
  PROVE  /\ ConnInv' /\ Grow(Daemon) /\ View(d)' = db /\ disk' = disk
         /\ Versions' \subseteq Versions \cup {db}
         /\ Writers \subseteq {d} /\ Writers' = {d} /\ conn'[d].db = db
         /\ View(d) = IF d \in Writers THEN conn[d].db ELSE disk
<1>1. /\ conn[d].mode # "stale" /\ \A e \in Daemon \ {d} : conn[e].mode # "write"
      /\ conn' = [conn EXCEPT ![d] = [mode |-> "write", db |-> db]]
      /\ disk' = disk
  BY DEF Execute, CanWrite
<1>2. /\ conn'[d] = [mode |-> "write", db |-> db]
      /\ \A e \in Daemon \ {d} : conn'[e] = conn[e]
  BY <1>1 DEF ConnInv
<1>3. Writers \subseteq {d} /\ Writers' = {d} BY <1>1, <1>2 DEF Writers
<1>4. View(d)' = db /\ \A e \in Daemon \ {d} : View(e)' = View(e)
  BY <1>1, <1>2 DEF View
<1>5. View(d) = IF d \in Writers THEN conn[d].db ELSE disk
  BY <1>1 DEF View, Writers, ConnInv, Mode
<1>6. Extends(disk, db)
  <2>1. Extends(disk, View(d)) BY <1>5, ExtendsSelf DEF ConnInv, Writers
  <2> QED BY <2>1, ViewTyped, ExtendsTransitive DEF ConnInv
<1>7. ConnInv'
  <2>1. conn' \in [Daemon -> [mode: Mode, db: DbType \cup {None}]]
    BY <1>1 DEF ConnInv, Mode
  <2> QED BY <1>1, <1>2, <1>6, <2>1 DEF ConnInv
<1>8. Grow(Daemon)
  BY <1>1, <1>4, ViewTyped, ExtendsSelf DEF Grow, ConnInv
<1> QED BY <1>1, <1>2, <1>3, <1>4, <1>5, <1>7, <1>8 DEF Versions

\* A commit makes the working copy, if there is one, what others see.
LEMMA PublishConn ==
  ASSUME ConnInv, NEW d \in Daemon, \A e \in Daemon \ {d} : conn[e].mode # "write",
         disk' \in DbType, Extends(View(d), disk'), Extends(disk, disk'),
         conn' = Committed(d)
  PROVE  /\ ConnInv' /\ Grow(Daemon) /\ View(d)' = disk' /\ Writers' = {}
         /\ Versions' \subseteq Versions \cup {disk'}
<1>1. conn'[d] = Closed BY DEF Committed
<1>2. ASSUME NEW e \in Daemon, e # d
      PROVE  /\ conn[e].mode = "read" =>
                  conn'[e].mode = "stale" /\ conn'[e].db = disk
             /\ conn[e].mode # "read" => conn'[e] = conn[e]
             /\ conn'[e].mode # "write"
  BY <1>2 DEF ConnInv, Committed
<1>3. ConnInv'
  <2>1. conn' \in [Daemon -> [mode: Mode, db: DbType \cup {None}]]
    <3>1. ASSUME NEW e \in Daemon
          PROVE  Committed(d)[e] \in [mode: Mode, db: DbType \cup {None}]
      BY DEF ConnInv, Committed, Closed, Mode
    <3> QED BY <3>1 DEF Committed
  <2>2. ASSUME NEW e \in Daemon
        PROVE  /\ conn'[e].mode # "read"
               /\ conn'[e].mode = "stale" =>
                    conn'[e].db \in DbType /\ Extends(conn'[e].db, disk')
               /\ conn'[e].mode # "write"
    <3>1. CASE e = d BY <1>1, <3>1 DEF Closed
    <3>2. CASE e # d BY <1>2, <3>2, ExtendsTransitive DEF ConnInv
    <3> QED BY <3>1, <3>2
  <2> QED BY <2>1, <2>2 DEF ConnInv
<1>4. View(d)' = disk' BY <1>1 DEF View, Closed
<1>5. Writers' = {} BY <1>1, <1>2 DEF Writers, Closed
<1>6. \A e \in Daemon : e # d => View(e)' \in {disk', View(e)}
                                 /\ (View(e)' = disk' => View(e) \in {disk, disk'})
  BY <1>2 DEF View, ConnInv, Mode
<1>7. Grow(Daemon)
  <2>1. ASSUME NEW e \in Daemon, e # d PROVE Extends(View(e), View(e)')
    BY <1>6, <2>1, ViewTyped, ExtendsSelf DEF ConnInv
  <2> QED BY <1>4, <2>1 DEF Grow
<1>8. Versions' \subseteq Versions \cup {disk'} BY <1>4, <1>6 DEF Versions
<1> QED BY <1>3, <1>4, <1>5, <1>7, <1>8

\* A commit publishes what the threads of the daemon see.
LEMMA CommitConn ==
  ASSUME ConnInv, NEW d \in Daemon, Commit(d)
  PROVE  /\ ConnInv' /\ Grow(Daemon) /\ Moves({}) /\ View(d)' = disk'
         /\ Extends(View(d), disk') /\ d \notin Writers'
         /\ disk' = IF d \in Writers THEN conn[d].db ELSE disk
<1>1. CASE conn[d].mode = "write"
  <2>1. /\ disk' = conn[d].db /\ conn' = Committed(d) /\ View(d) = conn[d].db
        /\ disk' \in DbType /\ Extends(disk, disk')
    BY <1>1 DEF Commit, ConnInv, View
  <2>2. \A e \in Daemon \ {d} : conn[e].mode # "write" BY <1>1 DEF ConnInv
  <2>3. /\ ConnInv' /\ Grow(Daemon) /\ View(d)' = disk' /\ Writers' = {}
        /\ Versions' \subseteq Versions \cup {disk'}
    BY <2>1, <2>2, ExtendsSelf, PublishConn
  <2>4. disk' \in Versions BY <2>1 DEF Versions
  <2>5. Writers = {d} BY <1>1, <2>2 DEF Writers
  <2>6. Moves({}) BY <2>1, <2>3, <2>4, <2>5 DEF Moves
  <2> QED BY <2>1, <2>3, <2>5, <2>6, ExtendsSelf
<1>2. CASE conn[d].mode # "write"
  <2>1. disk' = disk /\ conn' = [conn EXCEPT ![d] = Closed] BY <1>2 DEF Commit
  <2>2. ConnInv' BY <2>1 DEF ConnInv, Closed, Mode
  <2>3. View(d)' = disk BY <2>1 DEF View, Closed, ConnInv
  <2>4. Extends(View(d), disk) BY <1>2, ExtendsSelf DEF ConnInv, View, Mode
  <2>5. \A e \in Daemon \ {d} : View(e)' = View(e) BY <2>1 DEF View
  <2>6. Grow(Daemon)
    BY <2>1, <2>3, <2>4, <2>5, ViewTyped, ExtendsSelf DEF Grow, ConnInv
  <2>7. Moves({}) /\ d \notin Writers /\ d \notin Writers'
    BY <1>2, <2>1 DEF ConnInv, Closed, Moves, Versions, Writers, View
  <2> QED BY <2>1, <2>2, <2>3, <2>4, <2>6, <2>7
<1> QED BY <1>1, <1>2

\* A statement and its commit in one action publish what was executed.
LEMMA StoreConn ==
  ASSUME ConnInv, NEW d \in Daemon, NEW db \in DbType, Extends(View(d), db), Store(d, db)
  PROVE  /\ ConnInv' /\ Grow(Daemon) /\ View(d)' = db /\ disk' = db /\ Writers' = {}
         /\ Versions' \subseteq Versions \cup {db}
<1>1. /\ conn[d].mode # "stale" /\ \A e \in Daemon \ {d} : conn[e].mode # "write"
      /\ disk' = db /\ conn' = Committed(d)
  BY DEF Store, CanWrite
<1>2. Extends(disk, View(d)) BY <1>1, ExtendsSelf DEF ConnInv, View, Mode
<1>3. Extends(disk, db) BY <1>2, ViewTyped, ExtendsTransitive DEF ConnInv
<1> QED BY <1>1, <1>3, PublishConn

-----------------------------------------------------------------------------
(* What the statements make of a version *)

\* An INSERT of an agent, or an UPDATE that neither takes back a revocation nor an
\* earlier secret, extends the version.
LEMMA RowPut ==
  ASSUME NEW db \in DbType, NEW i \in Id, NEW row \in RowType,
         i \in Rows(db) => /\ row.secret >= db.agents[i].secret
                           /\ db.agents[i].revoked => row.revoked
  PROVE  LET new == [db EXCEPT !.agents[i] = row] IN
         /\ new \in DbType /\ Extends(db, new) /\ new.pending = db.pending
         /\ Rows(new) = Rows(db) \cup {i} /\ new.agents[i] = row
         /\ \A j \in Rows(db) : j # i => new.agents[j] = db.agents[j]
<1> DEFINE new == [db EXCEPT !.agents[i] = row]
<1>1. /\ new.agents = [db.agents EXCEPT ![i] = row] /\ new.pending = db.pending
      /\ db.agents \in [Id -> RowType \cup {None}] /\ new \in DbType
  BY DEF DbType
<1> HIDE DEF new
<1>2. row # None BY IdentityAssumption
<1>3. /\ Rows(new) = Rows(db) \cup {i} /\ new.agents[i] = row
      /\ \A j \in Rows(db) : j # i => new.agents[j] = db.agents[j]
  BY <1>1, <1>2 DEF Rows
<1>4. Extends(db, new)
  BY <1>3, RowTyped DEF Extends
<1> QED BY <1>1, <1>3, <1>4 DEF new

\* A write to access_requests leaves the agents.
LEMMA PendingPut ==
  ASSUME NEW db \in DbType, NEW b \in BOOLEAN
  PROVE  LET new == [db EXCEPT !.pending = b] IN
         /\ new \in DbType /\ Extends(db, new) /\ new.agents = db.agents
         /\ Rows(new) = Rows(db) /\ new.pending = b
<1> DEFINE new == [db EXCEPT !.pending = b]
<1>1. new \in DbType /\ new.agents = db.agents /\ new.pending = b BY DEF DbType
<1> HIDE DEF new
<1>2. Rows(new) = Rows(db) BY <1>1 DEF Rows
<1>3. Extends(db, new) BY <1>1, <1>2, RowTyped DEF Extends
<1> QED BY <1>1, <1>2, <1>3 DEF new

\* UPDATE ... WHERE id=? writes the row that is there, or nothing.
LEMMA UpdatedRow ==
  ASSUME NEW db, NEW i \in Id, NEW row
  PROVE  /\ i \in Rows(db) => Updated(db, i, row) = [db EXCEPT !.agents[i] = row]
         /\ i \notin Rows(db) => Updated(db, i, row) = db
BY DEF Updated, Rows

-----------------------------------------------------------------------------
(* What a step may do to the connections *)

ConnStep ==
  /\ ConnInv' /\ Extends(disk, disk') /\ \A db \in Versions' : Drawn(db)'
  /\ \A i \in Id, D \in SUBSET Daemon : i <= minted /\ Kept(i, D) => Kept(i, D)'

\* A step that makes no version of the database draws nothing.
LEMMA MovesStep ==
  ASSUME IdentityInv, ConnInv', Extends(disk, disk'), NEW D, Moves(D), minted' = minted
  PROVE  ConnStep
<1>1. \A db \in Versions' : Drawn(db)' BY DEF Moves, IdentityInv, Drawn
<1>2. ASSUME NEW i, NEW E, Kept(i, E) PROVE Kept(i, E)'
  BY <1>2 DEF Moves, Kept, Extends
<1> QED BY <1>1, <1>2 DEF ConnStep

\* A statement adds rows only under ids that are drawn for it.
LEMMA ExecuteStep ==
  ASSUME IdentityInv, NEW d \in Daemon, NEW db \in DbType, Extends(View(d), db),
         Execute(d, db), minted' \in {minted, minted + 1}, Drawn(db)',
         \A i \in Rows(db) : i <= minted => i \in Rows(View(d))
  PROVE  ConnStep /\ Grow(Daemon) /\ View(d)' = db /\ disk' = disk /\ Writers' = {d}
         /\ conn'[d].db = db
<1>1. ConnInv /\ minted \in Nat BY DEF IdentityInv, Typed
<1>2. /\ ConnInv' /\ Grow(Daemon) /\ View(d)' = db /\ disk' = disk
      /\ Versions' \subseteq Versions \cup {db}
      /\ Writers \subseteq {d} /\ Writers' = {d} /\ conn'[d].db = db
      /\ View(d) = IF d \in Writers THEN conn[d].db ELSE disk
  BY <1>1, ExecuteConn
<1>3. \A v \in Versions : v \in DbType
  BY <1>1, ViewTyped DEF Versions, ConnInv
<1>4. \A v \in Versions' : Drawn(v)'
  <2>1. ASSUME NEW v \in Versions PROVE Drawn(v)'
    <3>1. v \in DbType /\ Drawn(v) BY <1>3 DEF IdentityInv
    <3>2. \A i \in Rows(v) : v.agents[i].secret \in Int BY <3>1, RowTyped
    <3> QED BY <1>1, <3>1, <3>2 DEF Drawn
  <2> QED BY <1>2, <2>1
<1>5. ASSUME NEW i \in Id, NEW D \in SUBSET Daemon, i <= minted, Kept(i, D)
      PROVE  Kept(i, D)'
  BY <1>2, <1>5 DEF Kept
<1> QED BY <1>2, <1>4, <1>5 DEF ConnStep, Grow

\* A statement and its commit, of a row whose secret has been drawn, keep the
\* versions right.
LEMMA StoreStep ==
  ASSUME IdentityInv, NEW d \in Daemon, NEW db \in DbType, Extends(View(d), db),
         Store(d, db), minted' = minted, Drawn(db)
  PROVE  ConnStep /\ Grow(Daemon) /\ View(d)' = db /\ disk' = db
<1>1. /\ ConnInv' /\ Grow(Daemon) /\ View(d)' = db /\ disk' = db /\ Writers' = {}
      /\ Versions' \subseteq Versions \cup {db}
  BY StoreConn DEF IdentityInv
<1>2. \A v \in Versions' : Drawn(v)' BY <1>1 DEF IdentityInv, Drawn
<1>3. \A i, D : Kept(i, D)' BY <1>1 DEF Kept
<1> QED BY <1>1, <1>2, <1>3 DEF ConnStep, Grow

-----------------------------------------------------------------------------
(* What a step may do to the threads *)

\* The step is t's: the others stay where they are and keep their locks.
Frame(t) ==
  /\ lock' \in [Daemon -> Thread \cup {None}]
  /\ \A u \in Thread \ {t} :
       /\ pc'[u] = pc[u] /\ job'[u] = job[u]
       /\ lock[home[u]] = u => lock'[home[u]] = u

\* A handler that goes on leaves the other threads alone.
LEMMA GotoFrame ==
  ASSUME Typed, NEW t \in Thread, NEW p, NEW j, Goto(t, p, j), UNCHANGED lock
  PROVE  Frame(t) /\ pc'[t] = p /\ job'[t] = j
BY DEF Typed, Goto, Frame

\* A handler that returns or raises leaves the other threads alone.
LEMMA ReturnFrame ==
  ASSUME Typed, NEW t \in Thread, Return(t)
  PROVE  Frame(t) /\ pc'[t] = "idle" /\ job'[t] = NoJob
BY DEF Typed, Return, Goto, Frame

\* A handler that begins leaves the other threads alone, and has the lock if it takes
\* one.
LEMMA BeginFrame ==
  ASSUME Typed, NEW t \in Thread, NEW call, NEW j, Begin(t, call, "found", j)
  PROVE  /\ Frame(t) /\ pc'[t] = "found" /\ job'[t] = [j EXCEPT !.call = call]
         /\ call \in Locking => lock'[home[t]] = t
<1>1. pc'[t] = "found" /\ job'[t] = [j EXCEPT !.call = call]
  BY DEF Typed, Begin, Goto
<1>2. lock' \in [Daemon -> Thread \cup {None}] BY DEF Typed, Begin
<1>3. \A u \in Thread \ {t} :
       /\ pc'[u] = pc[u] /\ job'[u] = job[u]
       /\ lock[home[u]] = u => lock'[home[u]] = u
  BY IdentityAssumption DEF Typed, Begin, Goto, Free
<1>4. call \in Locking => lock'[home[t]] = t BY DEF Typed, Begin
<1> QED BY <1>1, <1>2, <1>3, <1>4 DEF Frame

\* A secret is left for everyone who is going to draw one.
LEMMA TypedKept ==
  ASSUME IdentityInv, NEW t \in Thread, NEW p \in PC, NEW j \in JobType, Goto(t, p, j),
         lock' \in [Daemon -> Thread \cup {None}], home' = home, dead' \subseteq KeyType,
         \/ minted' = minted /\ ~(p = "found" /\ j.call \in {"create", "rotate"})
         \/ minted' = minted /\ minted + Cardinality(Drawing) < MaxMint
         \/ minted' = minted + 1 /\ t \in Drawing /\ p # "found"
  PROVE  Typed'
<1>1. Typed BY DEF IdentityInv
<1>2. pc' = [pc EXCEPT ![t] = p] /\ job' = [job EXCEPT ![t] = j] BY DEF Goto
<1>3. pc' \in [Thread -> PC] /\ job' \in [Thread -> JobType] BY <1>1, <1>2 DEF Typed
<1>4. pc'[t] = p /\ job'[t] = j /\ \A u \in Thread \ {t} : pc'[u] = pc[u] /\ job'[u] = job[u]
  BY <1>1, <1>2 DEF Typed
<1>5. /\ IsFiniteSet(Drawing) /\ Cardinality(Drawing) \in Nat /\ minted \in Nat
      /\ minted + Cardinality(Drawing) <= MaxMint
  BY <1>1, FS_CardinalityType DEF Typed
<1>6. CASE ~(p = "found" /\ j.call \in {"create", "rotate"})
  <2>1. Drawing' = Drawing \ {t} BY <1>4, <1>6 DEF Drawing, At
  <2>2. /\ IsFiniteSet(Drawing') /\ Cardinality(Drawing') \in Nat
        /\ Cardinality(Drawing') = IF t \in Drawing THEN Cardinality(Drawing) - 1
                                   ELSE Cardinality(Drawing)
    BY <1>5, <2>1, FS_RemoveElement, FS_CardinalityType
  <2>3. minted' \in Nat /\ minted' + Cardinality(Drawing') <= MaxMint
    BY <1>5, <2>2, IdentityAssumption
  <2> QED BY <1>1, <1>3, <2>2, <2>3 DEF Typed
<1>7. CASE p = "found" /\ j.call \in {"create", "rotate"}
  <2>1. Drawing' = Drawing \cup {t} BY <1>4, <1>7 DEF Drawing, At
  <2>2. /\ IsFiniteSet(Drawing') /\ Cardinality(Drawing') \in Nat
        /\ Cardinality(Drawing') <= Cardinality(Drawing) + 1
    <3>1. /\ IsFiniteSet(Drawing \cup {t})
          /\ Cardinality(Drawing \cup {t}) = IF t \in Drawing THEN Cardinality(Drawing)
                                            ELSE Cardinality(Drawing) + 1
      BY <1>5, FS_AddElement
    <3> QED BY <1>5, <2>1, <3>1
  <2>3. minted' \in Nat /\ minted' + Cardinality(Drawing') <= MaxMint
    BY <1>5, <1>7, <2>2, IdentityAssumption
  <2> QED BY <1>1, <1>3, <2>2, <2>3 DEF Typed
<1> QED BY <1>6, <1>7

\* A key that is stored, or rotated away, stays so in later versions.
LEMMA HoldsStays ==
  ASSUME NEW a \in DbType, NEW b \in DbType, Extends(a, b), NEW k \in KeyType, Holds(a, k)
  PROVE  Holds(b, k)
<1>1. k.id \in Rows(a) /\ k.id \in Rows(b) /\ k.secret \in Int
  BY DEF Holds, Extends, KeyType, Id
<1>2. a.agents[k.id].secret \in Int /\ b.agents[k.id].secret \in Int BY <1>1, RowTyped
<1> QED BY <1>1, <1>2 DEF Holds, Extends

\* A key that is ended stays ended in later versions.
LEMMA EndedStays ==
  ASSUME NEW a \in DbType, NEW b \in DbType, Extends(a, b), NEW k \in KeyType, Ended(a, k)
  PROVE  Ended(b, k)
<1>1. k.id \in Rows(a) /\ k.id \in Rows(b) /\ k.secret \in Int
  BY DEF Ended, Extends, KeyType, Id
<1>2. a.agents[k.id].secret \in Int /\ b.agents[k.id].secret \in Int BY <1>1, RowTyped
<1> QED BY <1>1, <1>2 DEF Ended, Extends

\* A thread that stays where it is keeps what it relies on; only a rotation relies on
\* what its connection sees.
LEMMA JobKept ==
  ASSUME IdentityInv, ConnStep, NEW u \in Thread, home' = home,
         minted' \in {minted, minted + 1},
         pc'[u] = pc[u], job'[u] = job[u],
         lock[home[u]] = u => lock'[home[u]] = u,
         At(u, "found", "rotate") \/ At(u, "written", "rotate") => Extends(Db(u), Db(u)')
  PROVE  JobOK(u)'
<1>1. /\ JobOK(u) /\ ConnInv /\ ConnInv' /\ Typed /\ minted \in Nat /\ home[u] \in Daemon
      /\ home[u] \in Daemon' /\ job[u] \in JobType
  BY DEF IdentityInv, Typed, ConnStep
<1>2. Db(u) \in DbType /\ Db(u)' \in DbType /\ disk \in DbType /\ disk' \in DbType
  BY <1>1, ViewTyped DEF Db, View, ConnInv, Mode
<1>3. \A p, c : At(u, p, c)' <=> At(u, p, c) BY DEF At
<1>4. job[u].call \in Call /\ job[u].old \in KeyType => job[u].old.secret \in Int
  BY DEF KeyType, Id
<1>5. CreateOK(u)'
  <2>1. job[u].key \in KeyType => job[u].key.id \in Id BY DEF KeyType
  <2> QED BY <1>1, <1>3, <2>1 DEF JobOK, CreateOK, ConnStep, Id
<1>6. RotateOK(u)'
  <2>1. job[u].key \in KeyType => job[u].key.secret \in Int BY DEF KeyType, Id
  <2>2. At(u, "written", "rotate") => Holds(Db(u)', job[u].key)
    BY <1>1, <1>2, HoldsStays DEF JobOK, RotateOK
  <2>3. At(u, "committed", "rotate") => Holds(disk', job[u].key)
    BY <1>1, <1>2, HoldsStays DEF JobOK, RotateOK, ConnStep
  <2> QED BY <1>1, <1>3, <2>1, <2>2, <2>3 DEF JobOK, RotateOK, Extends
<1> QED BY <1>1, <1>4, <1>5, <1>6 DEF JobOK, Call

-----------------------------------------------------------------------------
(* One daemon *)

\* With one daemon, a SELECT leaves no snapshot open.
LEMMA AloneSelect ==
  ASSUME ConnInv, AloneConn, NEW d \in Daemon, Select(d), home' = home
  PROVE  AloneConn'
<1>1. conn' = conn BY DEF AloneConn, Select
<1> QED BY <1>1 DEF AloneConn

\* With one daemon, nor does a step that does not touch the database.
LEMMA AloneQuiet ==
  ASSUME AloneConn, conn' = conn, home' = home
  PROVE  AloneConn'
BY DEF AloneConn

\* With one daemon, an INSERT or UPDATE makes a working copy.
LEMMA AloneExecute ==
  ASSUME ConnInv, Typed, AloneConn, NEW t \in Thread, NEW db, Execute(home[t], db),
         home' = home
  PROVE  AloneConn'
BY DEF ConnInv, Typed, AloneConn, Execute

\* With one daemon, a commit leaves nothing open.
LEMMA AlonePublish ==
  ASSUME ConnInv, AloneConn, NEW d \in Daemon, Commit(d) \/ conn' = Committed(d),
         home' = home
  PROVE  AloneConn'
<1>1. CASE conn' = Committed(d) BY <1>1 DEF ConnInv, AloneConn, Committed, Closed
<1>2. CASE conn' = [conn EXCEPT ![d] = Closed]
  BY <1>2 DEF ConnInv, AloneConn, Closed
<1> QED BY <1>1, <1>2 DEF Commit

\* Nobody else has the write lock of the file.
LEMMA AloneNeverLocked ==
  ASSUME Typed, AloneConn, OneDaemon, NEW t \in Thread
  PROVE  CanWrite(home[t])
BY DEF Typed, AloneConn, OneDaemon, CanWrite

\* With one daemon, a commit changes what no thread sees.
LEMMA AloneCommit ==
  ASSUME ConnInv, AloneConn, NEW d \in Daemon, Commit(d)
  PROVE  View(d)' = View(d)
<1>1. View(d)' = disk' /\ disk' = IF d \in Writers THEN conn[d].db ELSE disk
  BY CommitConn
<1> QED BY <1>1 DEF AloneConn, View, Writers

\* What the others rely on while there is one daemon: what they see only grows, and a
\* request that is under review stays pending.
LEMMA AloneKept ==
  ASSUME OneDaemon, NEW u \in Thread, AloneJob(u), home' = home,
         pc'[u] = pc[u], job'[u] = job[u],
         Extends(disk, disk'), Extends(Db(u), Db(u)'),
         At(u, "found", "review") => Db(u)'.pending
  PROVE  AloneJob(u)'
<1>1. \A p, c : At(u, p, c)' <=> At(u, p, c) BY DEF At
<1> QED BY <1>1 DEF AloneJob, Revoked, Extends

-----------------------------------------------------------------------------
(* The steps *)

Safe == IdentityInv' /\ Extends(disk, disk')

\* Keys that were handed out stay stored when the committed version is extended.
LEMMA IssuedKept ==
  ASSUME IdentityInv, ConnStep, issued' = issued
  PROVE  IssuedOK'
<1>1. disk \in DbType /\ disk' \in DbType BY DEF IdentityInv, ConnStep, ConnInv
<1> QED BY <1>1, HoldsStays DEF IdentityInv, IssuedOK, ConnStep

\* A step of t is safe for all when it is for t, and leaves a review what it has found.
LEMMA StepKeeps ==
  ASSUME IdentityInv, NEW t \in Thread, home' = home, minted' \in {minted, minted + 1},
         ConnStep, Grow(Daemon), Frame(t), Typed', JobOK(t)', IssuedOK',
         OneDaemon => /\ AloneConn' /\ AloneDead' /\ AloneJob(t)'
                      /\ \A u \in Thread \ {t} :
                           At(u, "found", "review") => Db(u)'.pending
  PROVE  Safe
<1>1. ASSUME NEW u \in Thread \ {t}
      PROVE  /\ pc'[u] = pc[u] /\ job'[u] = job[u] /\ Extends(Db(u), Db(u)')
             /\ lock[home[u]] = u => lock'[home[u]] = u
  BY DEF Frame, Grow, IdentityInv, Typed, Db
<1>2. \A u \in Thread : JobOK(u)' BY <1>1, JobKept
<1>3. OneDaemon' <=> OneDaemon BY DEF OneDaemon
<1>4. ASSUME OneDaemon PROVE \A u \in Thread : AloneJob(u)'
  BY <1>1, <1>4, AloneKept DEF IdentityInv, Alone, Grow
<1>5. Alone' BY <1>3, <1>4 DEF Alone
<1> QED BY <1>2, <1>5 DEF IdentityInv, ConnStep, Safe

\* What each lemma below needs of the thread that moves.
LEMMA Basics ==
  ASSUME IdentityInv, NEW t \in Thread
  PROVE  /\ ConnInv /\ Typed /\ JobOK(t) /\ home[t] \in Daemon /\ minted \in Nat
         /\ Db(t) \in DbType /\ Drawn(Db(t)) /\ disk \in DbType /\ Drawn(disk)
         /\ job[t] \in JobType /\ pc[t] \in PC
         /\ OneDaemon => AloneConn /\ AloneDead /\ AloneJob(t)
         /\ OneDaemon => \A u \in Thread : AloneJob(u) /\ Db(u) = Db(t)
<1>1. home[t] \in Daemon BY DEF IdentityInv, Typed
<1>2. Db(t) \in DbType BY <1>1, ViewTyped DEF IdentityInv, Db
<1>3. Db(t) \in Versions /\ disk \in Versions BY <1>1 DEF Versions, Db
<1> QED BY <1>1, <1>2, <1>3 DEF IdentityInv, Typed, Alone, OneDaemon, Db, ConnInv

\* A step that only reads.
LEMMA ReadKeeps ==
  ASSUME IdentityInv, NEW t \in Thread, home' = home, minted' = minted,
         Select(home[t]) \/ UNCHANGED <<disk, conn>>,
         Frame(t), Typed', JobOK(t)', IssuedOK',
         OneDaemon => AloneDead' /\ AloneJob(t)'
  PROVE  Safe
<1>1. ConnInv /\ home[t] \in Daemon BY Basics
<1>2. /\ ConnInv' /\ Grow(Daemon) /\ Moves({}) /\ disk' = disk
      /\ \A d \in Daemon : View(d)' = View(d)
  BY <1>1, SelectConn, QuietConn
<1>3. ConnStep BY <1>2, MovesStep DEF Grow
<1>4. ASSUME OneDaemon
      PROVE  /\ AloneConn'
             /\ \A u \in Thread \ {t} : At(u, "found", "review") => Db(u)'.pending
  <2>1. AloneConn' BY <1>1, <1>4, AloneSelect, AloneQuiet DEF IdentityInv, Alone
  <2>2. \A u \in Thread : Db(u)' = Db(u) BY <1>2 DEF Db, IdentityInv, Typed
  <2> QED BY <1>4, <2>1, <2>2 DEF IdentityInv, Alone, AloneJob
<1> QED BY <1>2, <1>3, <1>4, StepKeeps

\* create_agent, the look for the name.
LEMMA CreateLookKeeps ==
  ASSUME IdentityInv, NEW t \in Thread, CreateLook(t), home' = home
  PROVE  Safe
<1>1. PICK n \in Name :
        /\ Room /\ Begin(t, "create", "found", [NoJob EXCEPT !.name = n])
        /\ Select(home[t]) /\ UNCHANGED <<minted, history>>
  BY DEF CreateLook
<1> DEFINE j == [[NoJob EXCEPT !.name = n] EXCEPT !.call = "create"]
<1>2. j \in JobType /\ j.call = "create" /\ j.name = n BY DEF NoJob, JobType, Call
<1>3. Goto(t, "found", j) BY <1>1 DEF Begin
<1>4. Frame(t) /\ pc'[t] = "found" /\ job'[t] = j
  <2>1. Typed BY DEF IdentityInv
  <2>2. PICK b : b = [NoJob EXCEPT !.name = n] OBVIOUS
  <2>3. Begin(t, "create", "found", b) BY <1>1, <2>2
  <2>4. Frame(t) /\ pc'[t] = "found" /\ job'[t] = [b EXCEPT !.call = "create"]
    BY <2>1, <2>3, BeginFrame
  <2> QED BY <2>2, <2>4
<1> HIDE DEF j
<1>5. minted + Cardinality(Drawing) < MaxMint BY <1>1 DEF Room, Drawing
<1>6. Typed'
  BY <1>1, <1>2, <1>3, <1>4, <1>5, Basics, TypedKept DEF Frame, history, PC, Typed
<1>7. JobOK(t)'
  BY <1>2, <1>4 DEF JobOK, CreateOK, RotateOK, At, Busy, Call, Locking
<1>8. IssuedOK'
  BY <1>1, Basics, SelectConn DEF IdentityInv, IssuedOK, history
<1>9. OneDaemon => AloneDead' /\ AloneJob(t)'
  <2>1. disk' = disk /\ dead' = dead BY <1>1 DEF Select, history
  <2> QED BY <1>2, <1>4, <2>1, Basics DEF AloneDead, AloneJob, At
<1> QED BY <1>1, <1>4, <1>6, <1>7, <1>8, <1>9, ReadKeeps

\* A thread that draws finds a number left.
LEMMA DrawnId ==
  ASSUME Typed, NEW t \in Drawing
  PROVE  minted + 1 \in Id
<1>1. /\ IsFiniteSet(Drawing) /\ minted + Cardinality(Drawing) <= MaxMint
      /\ Cardinality(Drawing) \in Nat /\ minted \in Nat
  BY FS_CardinalityType DEF Typed
<1>2. Cardinality(Drawing) # 0 BY <1>1, FS_EmptySet
<1> QED BY <1>1, <1>2, IdentityAssumption DEF Id

\* create_agent, the INSERT.
LEMMA CreateWriteKeeps ==
  ASSUME IdentityInv, NEW t \in Thread, CreateWrite(t), home' = home
  PROVE  Safe
<1>0. PICK m, row, db, k, j :
        /\ m = minted' /\ row = [name |-> job[t].name, secret |-> m, revoked |-> FALSE]
        /\ db = [Db(t) EXCEPT !.agents[m] = row]
        /\ k = [id |-> m, secret |-> m] /\ j = [job[t] EXCEPT !.key = k]
  OBVIOUS
<1>1. /\ At(t, "found", "create") /\ minted' = minted + 1 /\ Execute(home[t], db)
      /\ Goto(t, "written", j) /\ UNCHANGED <<lock, history>>
  BY <1>0 DEF CreateWrite
<1>2. /\ ConnInv /\ Typed /\ JobOK(t) /\ home[t] \in Daemon /\ minted \in Nat
      /\ Db(t) \in DbType /\ Drawn(Db(t)) /\ job[t] \in JobType
  BY Basics
<1>3. t \in Drawing /\ m \in Id /\ m = minted + 1
  BY <1>0, <1>1, <1>2, DrawnId DEF Drawing
<1>4. row \in RowType /\ k \in KeyType /\ row.secret = m /\ k.id = m /\ k.secret = m
  BY <1>0, <1>1, <1>2, <1>3 DEF JobOK, CreateOK, RowType, KeyType
<1>5. j \in JobType /\ j.key = k /\ j.call = "create"
  BY <1>0, <1>1, <1>2, <1>4 DEF JobType, At
<1>6. \A i \in Rows(Db(t)) : Db(t).agents[i].secret \in Int /\ i \in Int
                             /\ Db(t).agents[i].secret <= minted /\ i <= minted
                             /\ i <= Db(t).agents[i].secret
  BY <1>2, RowTyped DEF Drawn
<1>7. m \notin Rows(Db(t)) BY <1>2, <1>3, <1>6
<1>8. /\ db \in DbType /\ Extends(Db(t), db) /\ db.pending = Db(t).pending
      /\ Rows(db) = Rows(Db(t)) \cup {m} /\ db.agents[m] = row
      /\ \A i \in Rows(Db(t)) : db.agents[i] = Db(t).agents[i]
  BY <1>0, <1>2, <1>3, <1>4, <1>7, RowPut
<1>9. Drawn(db)' BY <1>0, <1>1, <1>2, <1>3, <1>4, <1>6, <1>8 DEF Drawn
<1>10. \A i \in Rows(db) : i <= minted => i \in Rows(Db(t)) BY <1>2, <1>3, <1>8
<1>11. /\ ConnStep /\ Grow(Daemon) /\ Db(t)' = db /\ disk' = disk /\ Writers' = {home[t]}
  BY <1>1, <1>2, <1>8, <1>9, <1>10, ExecuteStep DEF Db
<1>12. Frame(t) /\ pc'[t] = "written" /\ job'[t] = j BY <1>1, <1>2, GotoFrame
<1>13. Typed'
  BY <1>1, <1>2, <1>3, <1>5, <1>12, TypedKept DEF Frame, history, PC, Typed
<1>14. JobOK(t)'
  <2>1. Kept(m, {home[t]})' BY <1>11 DEF Kept
  <2>2. k.id <= minted' BY <1>0, <1>1, <1>2, <1>4
  <2>3. CreateOK(t)' BY <1>4, <1>5, <1>12, <2>1, <2>2 DEF CreateOK, At
  <2> QED BY <1>5, <1>12, <2>3 DEF JobOK, RotateOK, At, Call, Locking
<1>15. IssuedOK' BY <1>1, <1>11, IssuedKept DEF history
<1>16. OneDaemon =>
         /\ AloneConn' /\ AloneDead' /\ AloneJob(t)'
         /\ \A u \in Thread \ {t} : At(u, "found", "review") => Db(u)'.pending
  <2> SUFFICES ASSUME OneDaemon
               PROVE  /\ AloneConn' /\ AloneDead' /\ AloneJob(t)'
                      /\ \A u \in Thread : At(u, "found", "review") => Db(u)'.pending
    OBVIOUS
  <2>1. AloneConn' BY <1>1, <1>2, Basics, AloneExecute
  <2>2. AloneDead' BY <1>1, <1>11, Basics DEF AloneDead, history
  <2>3. AloneJob(t)' BY <1>5, <1>12 DEF AloneJob, At
  <2>4. \A u \in Thread : Db(u) = Db(t) /\ Db(u)' = Db(t)' /\ AloneJob(u)
    BY Basics DEF OneDaemon, Db
  <2> QED BY <1>8, <1>11, <2>1, <2>2, <2>3, <2>4 DEF AloneJob
<1> QED BY <1>1, <1>11, <1>12, <1>13, <1>14, <1>15, <1>16, StepKeeps

\* The row that the reply is made of is committed.
LEMMA KeptStored ==
  ASSUME ConnInv, NEW d \in Daemon, NEW i, Kept(i, {}), i \in Rows(View(d))
  PROVE  i \in Rows(disk)
<1>1. CASE conn[d].mode = "write" BY <1>1 DEF Kept, Writers, View
<1>2. CASE conn[d].mode # "write" BY <1>2 DEF ConnInv, View, Mode, Extends
<1> QED BY <1>1, <1>2

\* create_agent, the read of the new row and the reply.
LEMMA CreateReplyKeeps ==
  ASSUME IdentityInv, NEW t \in Thread, CreateReply(t), home' = home
  PROVE  Safe
<1> DEFINE k == job[t].key
<1>1. /\ At(t, "committed", "create") /\ Select(home[t]) /\ Return(t)
      /\ issued' = IF Db(t).agents[k.id] # None THEN issued \cup {k} ELSE issued
      /\ UNCHANGED <<minted, dead, crashes>>
  BY DEF CreateReply
<1>2. /\ ConnInv /\ Typed /\ JobOK(t) /\ home[t] \in Daemon /\ disk \in DbType
      /\ Drawn(disk)
  BY Basics
<1>3. Frame(t) /\ pc'[t] = "idle" /\ job'[t] = NoJob BY <1>1, <1>2, ReturnFrame
<1>4. NoJob \in JobType /\ "idle" \in PC /\ Goto(t, "idle", NoJob)
  BY <1>1 DEF NoJob, JobType, PC, Return
<1>5. Typed' BY <1>1, <1>3, <1>4, <1>2, TypedKept DEF Frame, Typed
<1>6. JobOK(t)' BY <1>3 DEF JobOK, CreateOK, RotateOK, At, Busy
<1>7. disk' = disk BY <1>1 DEF Select
<1>8. IssuedOK'
  <2>1. k \in KeyType /\ k.id = k.secret /\ Kept(k.id, {})
    BY <1>1, <1>2 DEF JobOK, CreateOK
  <2>2. ASSUME Db(t).agents[k.id] # None PROVE Holds(disk, k)
    <3>1. k.id \in Rows(disk)
      BY <1>2, <2>1, <2>2, KeptStored DEF Rows, Db, KeyType
    <3> QED BY <1>2, <2>1, <3>1 DEF Holds, Drawn
  <2> QED BY <1>1, <1>7, <2>1, <2>2 DEF IdentityInv, IssuedOK
<1>9. OneDaemon => AloneDead' /\ AloneJob(t)'
  BY <1>1, <1>3, <1>7, Basics DEF AloneDead, AloneJob, At
<1> QED BY <1>1, <1>3, <1>5, <1>6, <1>8, <1>9, ReadKeeps

\* rotate_agent and revoke_agent, the look for the reference.
LEMMA RefLookKeeps ==
  ASSUME IdentityInv, NEW t \in Thread, RefLook(t), home' = home
  PROVE  Safe
<1>1. PICK call \in {"rotate", "revoke"}, ref \in Ref, i \in Id :
        /\ Matches(Db(t), ref) = {i}
        /\ call = "rotate" => Room /\ ~Db(t).agents[i].revoked
        /\ Begin(t, call, "found", [NoJob EXCEPT !.old = KeyOf(Db(t), i),
                                                 !.name = Db(t).agents[i].name])
        /\ Select(home[t])
        /\ UNCHANGED <<minted, history>>
  BY DEF RefLook
<1> DEFINE o == KeyOf(Db(t), i)
           new == [NoJob EXCEPT !.old = o, !.name = Db(t).agents[i].name]
           j == [new EXCEPT !.call = call]
<1>2. /\ ConnInv /\ Typed /\ home[t] \in Daemon /\ Db(t) \in DbType /\ Drawn(Db(t))
  BY Basics
<1>3. i \in Rows(Db(t)) BY <1>1 DEF Matches, Rows
<1>4. /\ o \in KeyType /\ o.id = i /\ o.secret <= minted /\ Db(t).agents[i].name \in Name
  BY <1>2, <1>3, RowTyped DEF KeyOf, KeyType, Drawn
<1>6. Goto(t, "found", j) BY <1>1 DEF Begin
<1>7. /\ Frame(t) /\ pc'[t] = "found" /\ job'[t] = j
      /\ call = "rotate" => lock'[home[t]] = t
  <2>1. Begin(t, call, "found", new) BY <1>1
  <2> HIDE DEF new
  <2> QED BY <1>2, <2>1, BeginFrame DEF Locking
<1> HIDE DEF o
<1>5. /\ j \in JobType /\ j.call = call /\ j.old = o /\ j.name \in Name
  BY <1>1, <1>4 DEF NoJob, JobType, Call
<1> HIDE DEF j
<1>8. call = "rotate" => minted + Cardinality(Drawing) < MaxMint
  BY <1>1 DEF Room, Drawing
<1>9. Typed'
  BY <1>1, <1>2, <1>5, <1>6, <1>7, <1>8, TypedKept DEF Frame, history, PC, Typed
<1>10. Db(t)' = Db(t) /\ disk' = disk BY <1>1, <1>2, SelectConn DEF Db
<1>11. JobOK(t)'
  BY <1>1, <1>3, <1>4, <1>5, <1>7, <1>10
  DEF JobOK, CreateOK, RotateOK, At, Busy, Call, Locking
<1>12. IssuedOK' BY <1>1, <1>10 DEF IdentityInv, IssuedOK, history
<1>13. OneDaemon => AloneDead' /\ AloneJob(t)'
  BY <1>1, <1>3, <1>4, <1>5, <1>7, <1>10, Basics DEF AloneDead, AloneJob, At, history
<1> QED BY <1>1, <1>7, <1>9, <1>11, <1>12, <1>13, ReadKeeps

\* rotate_agent, the UPDATE of token_hash.
LEMMA RotateWriteKeeps ==
  ASSUME IdentityInv, NEW t \in Thread, RotateWrite(t), home' = home
  PROVE  Safe
<1>0. PICK o, i, m, row, db, k, j :
        /\ o = job[t].old /\ i = o.id /\ m = minted'
        /\ row = [Db(t).agents[i] EXCEPT !.secret = m]
        /\ db = [Db(t) EXCEPT !.agents[i] = row]
        /\ k = [id |-> i, secret |-> m] /\ j = [job[t] EXCEPT !.key = k]
  OBVIOUS
<1>1. /\ At(t, "found", "rotate") /\ minted' = minted + 1
      /\ Execute(home[t], Updated(Db(t), i, row))
      /\ Goto(t, "written", j) /\ UNCHANGED <<lock, history>>
  BY <1>0 DEF RotateWrite
<1>2. /\ ConnInv /\ Typed /\ JobOK(t) /\ home[t] \in Daemon /\ minted \in Nat
      /\ Db(t) \in DbType /\ Drawn(Db(t)) /\ job[t] \in JobType
  BY Basics
<1>3. t \in Drawing /\ m \in Id /\ m = minted + 1
  BY <1>0, <1>1, <1>2, DrawnId DEF Drawing
<1>4. /\ i \in Rows(Db(t)) /\ o \in KeyType /\ o.secret <= minted
      /\ lock[home[t]] = t /\ job[t].name \in Name
  BY <1>0, <1>1, <1>2 DEF JobOK, RotateOK, At, Busy, Locking
<1>5. \A l \in Rows(Db(t)) : Db(t).agents[l].secret \in Int /\ l \in Int
                             /\ Db(t).agents[l].secret <= minted /\ l <= minted
                             /\ l <= Db(t).agents[l].secret
  BY <1>2, RowTyped DEF Drawn
<1>6. /\ row \in RowType /\ row.secret = m /\ row.revoked = Db(t).agents[i].revoked
      /\ i \in Id
  BY <1>0, <1>2, <1>3, <1>4, RowTyped DEF RowType
<1>7. k \in KeyType /\ k.id = i /\ k.secret = m BY <1>0, <1>3, <1>6 DEF KeyType
<1>8. j \in JobType /\ j.key = k /\ j.call = "rotate" /\ j.old = o /\ j.name = job[t].name
  BY <1>0, <1>1, <1>2, <1>7 DEF JobType, At
<1>9. Execute(home[t], db)
  <2>1. Updated(Db(t), i, row) = [Db(t) EXCEPT !.agents[i] = row]
    BY <1>4, <1>6, UpdatedRow
  <2> QED BY <1>0, <1>1, <2>1
<1>10. /\ db \in DbType /\ Extends(Db(t), db) /\ db.pending = Db(t).pending
       /\ Rows(db) = Rows(Db(t)) /\ db.agents[i] = row
       /\ \A l \in Rows(Db(t)) : l # i => db.agents[l] = Db(t).agents[l]
  <2>1. /\ row.secret >= Db(t).agents[i].secret
        /\ Db(t).agents[i].revoked => row.revoked
    BY <1>2, <1>3, <1>4, <1>5, <1>6
  <2>2. /\ db \in DbType /\ Extends(Db(t), db) /\ db.pending = Db(t).pending
        /\ Rows(db) = Rows(Db(t)) \cup {i} /\ db.agents[i] = row
        /\ \A l \in Rows(Db(t)) : l # i => db.agents[l] = Db(t).agents[l]
    <3>1. db = [Db(t) EXCEPT !.agents[i] = row] BY <1>0
    <3>2. Db(t) \in DbType /\ row \in RowType /\ i \in Id BY <1>2, <1>6
    <3> QED BY <2>1, <3>1, <3>2, RowPut
  <2> QED BY <1>4, <2>2
<1>11. Drawn(db)'
  <2> SUFFICES ASSUME NEW l \in Rows(db)
               PROVE  db.agents[l].secret <= minted' /\ l <= db.agents[l].secret
    BY DEF Drawn
  <2>1. CASE l = i
    <3>1. db.agents[i].secret = m /\ m = minted' BY <1>0, <1>6, <1>10
    <3>2. i \in Int /\ i <= minted BY <1>4, <1>5
    <3>3. i <= m BY <1>2, <1>3, <3>2
    <3>4. m \in Int /\ m <= m BY <1>2, <1>3
    <3> QED BY <2>1, <3>1, <3>3, <3>4
  <2>2. CASE l # i BY <1>1, <1>2, <1>5, <1>10, <2>2
  <2> QED BY <2>1, <2>2
<1>12. /\ ConnStep /\ Grow(Daemon) /\ Db(t)' = db /\ disk' = disk
  BY <1>1, <1>2, <1>9, <1>10, <1>11, ExecuteStep DEF Db
<1>13. Frame(t) /\ pc'[t] = "written" /\ job'[t] = j BY <1>1, <1>2, GotoFrame
<1>14. Typed'
  BY <1>1, <1>2, <1>3, <1>8, <1>13, TypedKept DEF Frame, history, PC, Typed
<1>15. JobOK(t)'
  <2>1. Holds(db, k) BY <1>3, <1>4, <1>6, <1>7, <1>10 DEF Holds, Id
  <2>2. /\ o.secret \in Int /\ o.secret < m /\ o.secret <= minted'
        /\ k.secret <= minted' /\ o.id = k.id
    <3>1. m = minted' /\ m = minted + 1 /\ minted \in Int
      <4>1. m = minted' BY <1>0
      <4>2. m = minted + 1 BY <1>3
      <4>3. minted \in Int BY <1>2
      <4> QED BY <4>1, <4>2, <4>3
    <3>2. o.secret \in Int /\ o.secret <= minted BY <1>4 DEF KeyType, Id
    <3>3. k.secret = m /\ o.id = k.id BY <1>0, <1>7
    <3> QED BY <3>1, <3>2, <3>3
  <2>3. lock'[home[t]] = t BY <1>1, <1>4
  <2>4. RotateOK(t)' BY <1>7, <1>8, <1>12, <1>13, <2>1, <2>2 DEF RotateOK, At
  <2> QED BY <1>4, <1>8, <1>13, <2>2, <2>3, <2>4
      DEF JobOK, CreateOK, At, Call, Locking
<1>16. IssuedOK' BY <1>1, <1>12, IssuedKept DEF history
<1>17. OneDaemon =>
         /\ AloneConn' /\ AloneDead' /\ AloneJob(t)'
         /\ \A u \in Thread \ {t} : At(u, "found", "review") => Db(u)'.pending
  <2> SUFFICES ASSUME OneDaemon
               PROVE  /\ AloneConn' /\ AloneDead' /\ AloneJob(t)'
                      /\ \A u \in Thread : At(u, "found", "review") => Db(u)'.pending
    OBVIOUS
  <2>1. AloneConn' BY <1>2, <1>9, Basics, AloneExecute
  <2>2. AloneDead' BY <1>1, <1>12, Basics DEF AloneDead, history
  <2>3. AloneJob(t)' BY <1>8, <1>13 DEF AloneJob, At
  <2>4. \A u \in Thread : Db(u) = Db(t) /\ Db(u)' = Db(t)' /\ AloneJob(u)
    BY Basics DEF OneDaemon, Db
  <2> QED BY <1>10, <1>12, <2>1, <2>2, <2>3, <2>4 DEF AloneJob
<1> QED BY <1>1, <1>12, <1>13, <1>14, <1>15, <1>16, <1>17, StepKeeps

\* rotate_agent, the reply.
LEMMA RotateReplyKeeps ==
  ASSUME IdentityInv, NEW t \in Thread, RotateReply(t), home' = home
  PROVE  Safe
<1>0. PICK k, o : k = job[t].key /\ o = job[t].old OBVIOUS
<1>1. /\ At(t, "committed", "rotate") /\ Select(home[t]) /\ Return(t)
      /\ issued' = issued \cup {k} /\ dead' = dead \cup {o} /\ minted' = minted
  BY <1>0 DEF RotateReply
<1>2. /\ ConnInv /\ Typed /\ JobOK(t) /\ home[t] \in Daemon /\ disk \in DbType
  BY Basics
<1>3. Frame(t) /\ pc'[t] = "idle" /\ job'[t] = NoJob BY <1>1, <1>2, ReturnFrame
<1>4. /\ k \in KeyType /\ o \in KeyType /\ o.secret < k.secret /\ o.id = k.id
      /\ Holds(disk, k)
  BY <1>0, <1>1, <1>2 DEF JobOK, RotateOK, At, Busy
<1>5. NoJob \in JobType /\ "idle" \in PC /\ Goto(t, "idle", NoJob)
  BY <1>1 DEF NoJob, JobType, PC, Return
<1>6. Typed' BY <1>1, <1>2, <1>3, <1>4, <1>5, TypedKept DEF Frame, Typed
<1>7. JobOK(t)' BY <1>3 DEF JobOK, CreateOK, RotateOK, At, Busy
<1>8. disk' = disk BY <1>1 DEF Select
<1>9. IssuedOK' BY <1>1, <1>4, <1>8 DEF IdentityInv, IssuedOK
<1>10. Ended(disk, o)
  <2>1. k.id \in Rows(disk) /\ k.secret \in Int /\ o.secret \in Int
    BY <1>4 DEF Holds, KeyType, Id
  <2>2. disk.agents[k.id].secret \in Int BY <1>2, <2>1, RowTyped
  <2> QED BY <1>4, <2>1, <2>2 DEF Holds, Ended
<1>11. OneDaemon => AloneDead' /\ AloneJob(t)'
  BY <1>1, <1>3, <1>8, <1>10, Basics DEF AloneDead, AloneJob, At
<1> QED BY <1>1, <1>3, <1>6, <1>7, <1>9, <1>11, ReadKeeps

\* revoke_agent, the UPDATE of revoked.
LEMMA RevokeWriteKeeps ==
  ASSUME IdentityInv, NEW t \in Thread, RevokeWrite(t), home' = home
  PROVE  Safe
<1>0. PICK i, row, db :
        /\ i = job[t].old.id /\ row = [Db(t).agents[i] EXCEPT !.revoked = TRUE]
        /\ db = Updated(Db(t), i, row)
  OBVIOUS
<1>1. /\ At(t, "found", "revoke") /\ Execute(home[t], db) /\ minted' = minted
      /\ Goto(t, "written", job[t]) /\ UNCHANGED <<lock, history>>
  BY <1>0 DEF RevokeWrite
<1>2. /\ ConnInv /\ Typed /\ JobOK(t) /\ home[t] \in Daemon /\ minted \in Nat
      /\ Db(t) \in DbType /\ Drawn(Db(t)) /\ job[t] \in JobType
  BY Basics
<1>3. i \in Id /\ job[t].old \in KeyType /\ job[t].name \in Name /\ job[t].old.secret <= minted
  BY <1>0, <1>1, <1>2 DEF JobOK, At, Busy, KeyType
<1>4. /\ db \in DbType /\ Extends(Db(t), db) /\ db.pending = Db(t).pending
      /\ Rows(db) = Rows(Db(t)) /\ Drawn(db)
      /\ i \in Rows(Db(t)) => Revoked(db, i)
  <2>1. CASE i \in Rows(Db(t))
    <3>1. db = [Db(t) EXCEPT !.agents[i] = row]
      <4>1. db = Updated(Db(t), i, row) BY <1>0
      <4> QED BY <1>3, <2>1, <4>1, UpdatedRow
    <3>2. /\ row \in RowType /\ row.secret = Db(t).agents[i].secret /\ row.revoked = TRUE
          /\ row.secret \in Int
      BY <1>0, <1>2, <2>1, RowTyped DEF RowType
    <3>3. /\ row.secret >= Db(t).agents[i].secret
          /\ Db(t).agents[i].revoked => row.revoked
      BY <3>2
    <3>4. /\ db \in DbType /\ Extends(Db(t), db) /\ db.pending = Db(t).pending
          /\ Rows(db) = Rows(Db(t)) \cup {i} /\ db.agents[i] = row
          /\ \A l \in Rows(Db(t)) : l # i => db.agents[l] = Db(t).agents[l]
      BY <1>2, <1>3, <3>1, <3>2, <3>3, RowPut
    <3>5. Rows(db) = Rows(Db(t)) BY <2>1, <3>4
    <3>6. Drawn(db) BY <1>2, <3>2, <3>4, <3>5 DEF Drawn
    <3> QED BY <2>1, <3>2, <3>4, <3>5, <3>6 DEF Revoked
  <2>2. CASE i \notin Rows(Db(t))
    <3>1. db = Db(t) BY <1>0, <1>3, <2>2, UpdatedRow
    <3> QED BY <1>2, <2>2, <3>1, ExtendsSelf
  <2> QED BY <2>1, <2>2
<1>5. Drawn(db)' BY <1>1, <1>4 DEF Drawn
<1>6. /\ ConnStep /\ Grow(Daemon) /\ Db(t)' = db /\ disk' = disk
  BY <1>1, <1>2, <1>4, <1>5, ExecuteStep DEF Db
<1>7. Frame(t) /\ pc'[t] = "written" /\ job'[t] = job[t] BY <1>1, <1>2, GotoFrame
<1>8. Typed' BY <1>1, <1>2, <1>7, TypedKept DEF Frame, history, PC, Typed
<1>9. JobOK(t)'
  BY <1>1, <1>3, <1>7 DEF JobOK, CreateOK, RotateOK, At, Call, Locking
<1>10. IssuedOK' BY <1>1, <1>6, IssuedKept DEF history
<1>11. OneDaemon =>
         /\ AloneConn' /\ AloneDead' /\ AloneJob(t)'
         /\ \A u \in Thread \ {t} : At(u, "found", "review") => Db(u)'.pending
  <2> SUFFICES ASSUME OneDaemon
               PROVE  /\ AloneConn' /\ AloneDead' /\ AloneJob(t)'
                      /\ \A u \in Thread : At(u, "found", "review") => Db(u)'.pending
    OBVIOUS
  <2>1. AloneConn' BY <1>1, <1>2, Basics, AloneExecute
  <2>2. AloneDead' BY <1>1, <1>6, Basics DEF AloneDead, history
  <2>3. AloneJob(t)'
    <3>1. Revoked(db, i) BY <1>0, <1>1, <1>4, Basics DEF AloneJob
    <3> QED BY <1>0, <1>1, <1>6, <1>7, <3>1 DEF AloneJob, At
  <2>4. \A u \in Thread : Db(u) = Db(t) /\ Db(u)' = Db(t)' /\ AloneJob(u)
    BY Basics DEF OneDaemon, Db
  <2> QED BY <1>4, <1>6, <2>1, <2>2, <2>3, <2>4 DEF AloneJob
<1> QED BY <1>1, <1>6, <1>7, <1>8, <1>9, <1>10, <1>11, StepKeeps

\* revoke_agent, the reply.
LEMMA RevokeReplyKeeps ==
  ASSUME IdentityInv, NEW t \in Thread, RevokeReply(t), home' = home
  PROVE  Safe
<1>0. PICK o : o = job[t].old OBVIOUS
<1>1. /\ At(t, "committed", "revoke") /\ UNCHANGED <<disk, conn>> /\ Return(t)
      /\ dead' = dead \cup {o} \cup {k \in issued : k.id = o.id}
      /\ UNCHANGED <<minted, issued>>
  BY <1>0 DEF RevokeReply
<1>2. ConnInv /\ Typed /\ JobOK(t) /\ home[t] \in Daemon /\ IssuedOK
  BY Basics DEF IdentityInv
<1>3. Frame(t) /\ pc'[t] = "idle" /\ job'[t] = NoJob BY <1>1, <1>2, ReturnFrame
<1>4. o \in KeyType BY <1>0, <1>1, <1>2 DEF JobOK, At, Busy
<1>5. NoJob \in JobType /\ "idle" \in PC /\ Goto(t, "idle", NoJob)
  BY <1>1 DEF NoJob, JobType, PC, Return
<1>6. dead' \subseteq KeyType BY <1>1, <1>2, <1>4 DEF Typed, IssuedOK
<1>7. Typed' BY <1>1, <1>2, <1>3, <1>5, <1>6, TypedKept DEF Frame
<1>8. JobOK(t)' BY <1>3 DEF JobOK, CreateOK, RotateOK, At, Busy
<1>9. IssuedOK' BY <1>1, <1>2 DEF IssuedOK
<1>10. OneDaemon => AloneDead' /\ AloneJob(t)'
  <2>1. ASSUME OneDaemon PROVE Revoked(disk, o.id) /\ AloneDead
    BY <1>0, <1>1, <2>1, Basics DEF AloneJob
  <2> QED BY <1>1, <1>3, <2>1 DEF AloneDead, AloneJob, At, Revoked, Ended
<1> QED BY <1>1, <1>3, <1>7, <1>8, <1>9, <1>10, ReadKeeps

\* request_access, the INSERT and its commit.
LEMMA AskKeeps ==
  ASSUME IdentityInv, NEW t \in Thread, Ask(t), home' = home
  PROVE  Safe
<1>0. PICK db : db = [Db(t) EXCEPT !.pending = TRUE] OBVIOUS
<1>1. /\ pc[t] = "idle" /\ Store(home[t], db)
      /\ UNCHANGED <<threads, minted, history>>
  BY <1>0 DEF Ask
<1>2. /\ ConnInv /\ Typed /\ JobOK(t) /\ home[t] \in Daemon
      /\ Db(t) \in DbType /\ Drawn(Db(t)) /\ disk \in DbType
  BY Basics
<1>3. /\ db \in DbType /\ Extends(Db(t), db) /\ db.agents = Db(t).agents
      /\ Rows(db) = Rows(Db(t)) /\ db.pending = TRUE
  BY <1>0, <1>2, PendingPut
<1>4. /\ ConnStep /\ Grow(Daemon) /\ Db(t)' = db /\ disk' = db
  BY <1>1, <1>2, <1>3, StoreStep DEF Db, Drawn
<1>5. Frame(t) BY <1>1, <1>2 DEF Frame, Typed, threads
<1>6. Typed' BY <1>1, <1>2 DEF Typed, threads, history, Drawing, At
<1>7. /\ pc'[t] = pc[t] /\ job'[t] = job[t]
      /\ lock[home[t]] = t => lock'[home[t]] = t
      /\ Extends(Db(t), Db(t)') /\ minted' = minted
  BY <1>1, <1>3, <1>4 DEF threads
<1>8. JobOK(t)' BY <1>4, <1>7, JobKept
<1>9. IssuedOK' BY <1>1, <1>4, IssuedKept DEF history
<1>10. ASSUME OneDaemon
       PROVE  /\ AloneConn' /\ AloneDead' /\ AloneJob(t)'
              /\ \A u \in Thread \ {t} : At(u, "found", "review") => Db(u)'.pending
  <2>1. AloneConn' BY <1>1, <1>2, <1>10, Basics, AlonePublish DEF Store
  <2>2. AloneDead'
    BY <1>1, <1>2, <1>3, <1>4, <1>10, Basics, EndedStays
    DEF AloneDead, history, Typed, Grow
  <2>3. AloneJob(t)' BY <1>1, <1>4, <1>7 DEF AloneJob, At
  <2>4. \A u \in Thread : Db(u)' = Db(t)' BY <1>10 DEF OneDaemon, Db
  <2> QED BY <1>3, <1>4, <2>1, <2>2, <2>3, <2>4
<1> QED BY <1>1, <1>4, <1>5, <1>6, <1>8, <1>9, <1>10, StepKeeps

\* deny_access, the look for the request.
LEMMA ReviewLookKeeps ==
  ASSUME IdentityInv, NEW t \in Thread, ReviewLook(t), home' = home
  PROVE  Safe
<1>0. PICK j : j = [NoJob EXCEPT !.call = "review"] OBVIOUS
<1>1. /\ Db(t).pending /\ Begin(t, "review", "found", NoJob) /\ Select(home[t])
      /\ UNCHANGED <<minted, history>>
  BY DEF ReviewLook
<1>2. ConnInv /\ Typed /\ home[t] \in Daemon BY Basics
<1>3. j \in JobType /\ j.call = "review" BY <1>0 DEF NoJob, JobType, Call
<1>4. Goto(t, "found", j) BY <1>0, <1>1 DEF Begin
<1>5. Frame(t) /\ pc'[t] = "found" /\ job'[t] = j /\ lock'[home[t]] = t
  BY <1>0, <1>1, <1>2, BeginFrame DEF Locking
<1>6. Typed' BY <1>1, <1>2, <1>3, <1>4, <1>5, TypedKept DEF Frame, history, PC, Typed
<1>7. JobOK(t)' BY <1>3, <1>5 DEF JobOK, CreateOK, RotateOK, At, Busy, Call, Locking
<1>8. Db(t)' = Db(t) /\ disk' = disk BY <1>1, <1>2, SelectConn DEF Db
<1>9. IssuedOK' BY <1>1, <1>8 DEF IdentityInv, IssuedOK, history
<1>10. OneDaemon => AloneDead' /\ AloneJob(t)'
  BY <1>1, <1>3, <1>5, <1>8, Basics DEF AloneDead, AloneJob, At, history
<1> QED BY <1>1, <1>5, <1>6, <1>7, <1>9, <1>10, ReadKeeps

\* The review of a pending request: no other thread of the daemon reviews meanwhile.
LEMMA ReviewWritten ==
  ASSUME IdentityInv, NEW t \in Thread, ReviewWrite(t), Db(t).pending, home' = home
  PROVE  Safe
<1>0. PICK db : db = [Db(t) EXCEPT !.pending = FALSE] OBVIOUS
<1>1. /\ At(t, "found", "review") /\ Execute(home[t], db)
      /\ Goto(t, "written", job[t]) /\ UNCHANGED <<lock, minted, history>>
  BY <1>0 DEF ReviewWrite
<1>2. /\ ConnInv /\ Typed /\ JobOK(t) /\ home[t] \in Daemon
      /\ Db(t) \in DbType /\ Drawn(Db(t)) /\ job[t] \in JobType
  BY Basics
<1>3. /\ db \in DbType /\ Extends(Db(t), db) /\ db.agents = Db(t).agents
      /\ Rows(db) = Rows(Db(t))
  BY <1>0, <1>2, PendingPut
<1>4. Drawn(db)' BY <1>1, <1>2, <1>3 DEF Drawn
<1>5. /\ ConnStep /\ Grow(Daemon) /\ Db(t)' = db /\ disk' = disk
  BY <1>1, <1>2, <1>3, <1>4, ExecuteStep DEF Db
<1>6. Frame(t) /\ pc'[t] = "written" /\ job'[t] = job[t] BY <1>1, <1>2, GotoFrame
<1>7. Typed' BY <1>1, <1>2, <1>6, TypedKept DEF Frame, history, PC, Typed
<1>8. lock[home[t]] = t BY <1>1, <1>2 DEF JobOK, At, Busy, Locking
<1>9. JobOK(t)'
  BY <1>1, <1>6, <1>8 DEF JobOK, CreateOK, RotateOK, At, Call, Locking
<1>10. IssuedOK' BY <1>1, <1>5, IssuedKept DEF history
<1>11. ASSUME OneDaemon
       PROVE  /\ AloneConn' /\ AloneDead' /\ AloneJob(t)'
              /\ \A u \in Thread \ {t} : At(u, "found", "review") => Db(u)'.pending
  <2>1. AloneConn' BY <1>1, <1>2, <1>11, Basics, AloneExecute
  <2>2. AloneDead' BY <1>1, <1>5, <1>11, Basics DEF AloneDead, history
  <2>3. AloneJob(t)' BY <1>1, <1>6 DEF AloneJob, At
  <2>4. ASSUME NEW u \in Thread \ {t} PROVE ~At(u, "found", "review")
    BY <1>8, <1>11 DEF IdentityInv, JobOK, OneDaemon, At, Busy, Locking
  <2> QED BY <2>1, <2>2, <2>3, <2>4
<1> QED BY <1>1, <1>5, <1>6, <1>7, <1>9, <1>10, <1>11, StepKeeps

\* The review that another daemon has won rolls the connection back.  No rotation of
\* its own daemon is in progress then: it would have the lock.
LEMMA ReviewLost ==
  ASSUME IdentityInv, NEW t \in Thread, ReviewWrite(t), ~Db(t).pending, home' = home
  PROVE  Safe
<1>1. /\ At(t, "found", "review") /\ Rollback(home[t]) /\ Return(t)
      /\ UNCHANGED <<minted, history>>
  BY DEF ReviewWrite
<1>2. ConnInv /\ Typed /\ JobOK(t) /\ home[t] \in Daemon BY Basics
<1>3. ~OneDaemon BY <1>1, Basics DEF AloneJob
<1>4. /\ ConnInv' /\ Grow(Daemon \ {home[t]}) /\ Moves({home[t]}) /\ disk' = disk
  BY <1>1, <1>2, RollbackConn
<1>5. ConnStep BY <1>1, <1>4, MovesStep DEF Grow, history
<1>6. Frame(t) /\ pc'[t] = "idle" /\ job'[t] = NoJob BY <1>1, <1>2, ReturnFrame
<1>7. NoJob \in JobType /\ "idle" \in PC /\ Goto(t, "idle", NoJob)
  BY <1>1 DEF NoJob, JobType, PC, Return
<1>8. Typed' BY <1>1, <1>2, <1>6, <1>7, TypedKept DEF Frame, history, Typed
<1>9. lock[home[t]] = t BY <1>1, <1>2 DEF JobOK, At, Busy, Locking
<1>10. ASSUME NEW u \in Thread PROVE JobOK(u)'
  <2>1. CASE u = t BY <1>6, <2>1 DEF JobOK, CreateOK, RotateOK, At, Busy
  <2>2. CASE u # t
    <3>1. home[u] \in Daemon BY <1>2 DEF Typed
    <3>2. ASSUME At(u, "found", "rotate") \/ At(u, "written", "rotate")
          PROVE  Extends(Db(u), Db(u)')
      <4>1. home[u] # home[t]
        BY <1>9, <2>2, <3>2 DEF IdentityInv, JobOK, At, Busy, Locking
      <4> QED BY <1>4, <3>1, <4>1 DEF Grow, Db
    <3>3. /\ pc'[u] = pc[u] /\ job'[u] = job[u] /\ minted' = minted
          /\ lock[home[u]] = u => lock'[home[u]] = u
      BY <1>1, <1>6, <2>2 DEF Frame
    <3> QED BY <1>5, <3>2, <3>3, JobKept
  <2> QED BY <2>1, <2>2
<1>11. IssuedOK' BY <1>1, <1>5, IssuedKept DEF history
<1>12. Alone' BY <1>3 DEF Alone, OneDaemon
<1> QED BY <1>5, <1>8, <1>10, <1>11, <1>12 DEF IdentityInv, ConnStep, Safe

\* deny_access, the reply, and the end of a call that was admitted.
LEMMA ReviewReplyKeeps ==
  ASSUME IdentityInv, NEW t \in Thread, ReviewReply(t) \/ Served(t), home' = home
  PROVE  Safe
<1>1. /\ Return(t) /\ UNCHANGED <<disk, conn, minted, history>>
  BY DEF ReviewReply, Served
<1>2. ConnInv /\ Typed BY Basics
<1>3. Frame(t) /\ pc'[t] = "idle" /\ job'[t] = NoJob BY <1>1, <1>2, ReturnFrame
<1>4. NoJob \in JobType /\ "idle" \in PC /\ Goto(t, "idle", NoJob)
  BY <1>1 DEF NoJob, JobType, PC, Return
<1>5. Typed' BY <1>1, <1>2, <1>3, <1>4, TypedKept DEF Frame, history, Typed
<1>6. JobOK(t)' BY <1>3 DEF JobOK, CreateOK, RotateOK, At, Busy
<1>7. IssuedOK' BY <1>1 DEF IdentityInv, IssuedOK, history
<1>8. OneDaemon => AloneDead' /\ AloneJob(t)'
  BY <1>1, <1>3, Basics DEF AloneDead, AloneJob, At, history
<1> QED BY <1>1, <1>3, <1>5, <1>6, <1>7, <1>8, ReadKeeps

\* The commit of any handler.
LEMMA CommitStepKeeps ==
  ASSUME IdentityInv, NEW t \in Thread, CommitStep(t), home' = home
  PROVE  Safe
<1>1. /\ pc[t] = "written" /\ Commit(home[t]) /\ Goto(t, "committed", job[t])
      /\ UNCHANGED <<lock, minted, history>>
  BY DEF CommitStep
<1>2. /\ ConnInv /\ Typed /\ JobOK(t) /\ home[t] \in Daemon /\ job[t] \in JobType
      /\ Db(t) \in DbType /\ disk \in DbType
  BY Basics
<1>3. /\ ConnInv' /\ Grow(Daemon) /\ Moves({}) /\ Db(t)' = disk'
      /\ Extends(Db(t), disk') /\ home[t] \notin Writers'
  BY <1>1, <1>2, CommitConn DEF Db
<1>4. ConnStep BY <1>1, <1>3, MovesStep DEF Grow, history
<1>5. Frame(t) /\ pc'[t] = "committed" /\ job'[t] = job[t] BY <1>1, <1>2, GotoFrame
<1>6. Typed' BY <1>1, <1>2, <1>5, TypedKept DEF Frame, history, PC, Typed
<1>7. CreateOK(t)'
  <2>1. ASSUME NEW i, Kept(i, {home[t]}) PROVE Kept(i, {})'
    BY <1>3, <2>1 DEF Moves, Grow, Kept, Extends
  <2> QED BY <1>1, <1>2, <1>5, <2>1 DEF JobOK, CreateOK, At
<1>8. RotateOK(t)'
  <2>1. ASSUME NEW k \in KeyType, Holds(Db(t), k) PROVE Holds(disk', k)
    BY <1>2, <1>3, <2>1, HoldsStays DEF ConnInv
  <2> QED BY <1>1, <1>2, <1>5, <2>1 DEF JobOK, RotateOK, At
<1>9. JobOK(t)' BY <1>1, <1>2, <1>5, <1>7, <1>8 DEF JobOK, Busy
<1>10. IssuedOK' BY <1>1, <1>4, IssuedKept DEF history
<1>11. ASSUME OneDaemon
       PROVE  /\ AloneConn' /\ AloneDead' /\ AloneJob(t)'
              /\ \A u \in Thread \ {t} : At(u, "found", "review") => Db(u)'.pending
  <2>1. AloneConn /\ AloneDead /\ AloneJob(t) BY <1>11, Basics
  <2>2. AloneConn' BY <1>1, <1>2, <2>1, AlonePublish
  <2>3. AloneDead'
    BY <1>1, <1>2, <1>3, <2>1, EndedStays DEF AloneDead, history, Typed, Grow, ConnInv
  <2>4. AloneJob(t)'
    <3>1. \A i : Revoked(Db(t), i) => Revoked(disk', i)
      BY <1>3 DEF Revoked, Extends
    <3> QED BY <1>1, <1>5, <2>1, <3>1 DEF AloneJob, At
  <2>5. Db(t)' = Db(t) BY <1>1, <1>2, <2>1, AloneCommit DEF Db
  <2>6. \A u \in Thread : Db(u) = Db(t) /\ Db(u)' = Db(t)' /\ AloneJob(u)
    BY <1>11, Basics DEF OneDaemon, Db
  <2> QED BY <2>2, <2>3, <2>4, <2>5, <2>6 DEF AloneJob
<1> QED BY <1>1, <1>4, <1>3, <1>5, <1>6, <1>9, <1>10, <1>11, StepKeeps DEF history

\* An INSERT or UPDATE that raises "database is locked" ends the call.
LEMMA LockedKeeps ==
  ASSUME IdentityInv, NEW t \in Thread, Locked(t), home' = home
  PROVE  Safe
<1>1. ExecuteLocked(home[t]) /\ Return(t) /\ UNCHANGED <<minted, history>>
  BY DEF Locked
<1>2. ConnInv /\ Typed /\ home[t] \in Daemon BY Basics
<1>3. ~OneDaemon
  BY <1>1, <1>2, AloneNeverLocked DEF ExecuteLocked, IdentityInv, Alone
<1>4. ConnInv' /\ Grow(Daemon) /\ Moves({}) /\ disk' = disk
  BY <1>1, <1>2, LockedConn
<1>5. ConnStep BY <1>1, <1>4, MovesStep DEF Grow, history
<1>6. Frame(t) /\ pc'[t] = "idle" /\ job'[t] = NoJob BY <1>1, <1>2, ReturnFrame
<1>7. NoJob \in JobType /\ "idle" \in PC /\ Goto(t, "idle", NoJob)
  BY <1>1 DEF NoJob, JobType, PC, Return
<1>8. Typed' BY <1>1, <1>2, <1>6, <1>7, TypedKept DEF Frame, history, Typed
<1>9. JobOK(t)' BY <1>6 DEF JobOK, CreateOK, RotateOK, At, Busy
<1>10. IssuedOK' BY <1>1, <1>5, IssuedKept DEF history
<1> QED BY <1>1, <1>3, <1>4, <1>5, <1>6, <1>8, <1>9, <1>10, StepKeeps DEF history

\* authenticate_agent admits a call.
LEMMA AuthenticateKeeps ==
  ASSUME IdentityInv, NEW t \in Thread, Authenticate(t), home' = home
  PROVE  Safe
<1>1. PICK k \in issued \cup dead :
        /\ Goto(t, "inside", [NoJob EXCEPT !.call = "use", !.key = k])
        /\ Select(home[t]) /\ UNCHANGED <<lock, minted, history>>
  BY DEF Authenticate
<1>2. PICK j : j = [NoJob EXCEPT !.call = "use", !.key = k] OBVIOUS
<1>3. ConnInv /\ Typed /\ IssuedOK BY Basics DEF IdentityInv
<1>4. k \in KeyType BY <1>3 DEF IssuedOK, Typed
<1>5. j \in JobType BY <1>2, <1>4 DEF NoJob, JobType, Call
<1>6. Goto(t, "inside", j) BY <1>1, <1>2
<1>7. Frame(t) /\ pc'[t] = "inside" BY <1>1, <1>3, <1>6, GotoFrame
<1>8. Typed' BY <1>1, <1>3, <1>5, <1>6, <1>7, TypedKept DEF Frame, history, PC, Typed
<1>9. JobOK(t)' BY <1>7 DEF JobOK, CreateOK, RotateOK, At, Busy
<1>10. disk' = disk BY <1>1 DEF Select
<1>11. IssuedOK' BY <1>1, <1>3, <1>10 DEF IssuedOK, history
<1>12. OneDaemon => AloneDead' /\ AloneJob(t)'
  BY <1>1, <1>7, <1>10, Basics DEF AloneDead, AloneJob, At, history
<1> QED BY <1>1, <1>7, <1>8, <1>9, <1>11, <1>12, ReadKeeps

\* A kill forgets what was not committed, with all who relied on it.
LEMMA CrashKeeps ==
  ASSUME IdentityInv, NEW d \in Daemon, Crash(d), home' = home
  PROVE  Safe
<1>1. /\ \E t \in Thread : home[t] = d
      /\ Rollback(d) /\ lock' = [lock EXCEPT ![d] = None]
      /\ pc' = [t \in Thread |-> IF home[t] = d THEN "idle" ELSE pc[t]]
      /\ job' = [t \in Thread |-> IF home[t] = d THEN NoJob ELSE job[t]]
      /\ UNCHANGED <<minted, issued, dead>>
  BY DEF Crash
<1>2. ConnInv /\ Typed BY DEF IdentityInv
<1>3. ConnInv' /\ Grow(Daemon \ {d}) /\ Moves({d}) /\ disk' = disk
  BY <1>1, <1>2, RollbackConn
<1>4. ConnStep BY <1>1, <1>3, MovesStep DEF Grow
<1>5. Typed'
  <2>1. /\ lock' \in [Daemon -> Thread \cup {None}]
        /\ pc' \in [Thread -> PC] /\ job' \in [Thread -> JobType]
    BY <1>1, <1>2 DEF Typed, PC, NoJob, JobType
  <2>2. Drawing' \subseteq Drawing BY <1>1 DEF Drawing, At
  <2>3. /\ IsFiniteSet(Drawing) /\ Cardinality(Drawing) \in Nat
        /\ minted \in Nat /\ minted + Cardinality(Drawing) <= MaxMint
    BY <1>2, FS_CardinalityType DEF Typed
  <2>4. /\ IsFiniteSet(Drawing') /\ Cardinality(Drawing') \in Nat
        /\ Cardinality(Drawing') <= Cardinality(Drawing)
    BY <2>2, <2>3, FS_Subset, FS_CardinalityType
  <2>5. minted' + Cardinality(Drawing') <= MaxMint
    BY <1>1, <2>3, <2>4, IdentityAssumption
  <2> QED BY <1>1, <1>2, <2>1, <2>4, <2>5 DEF Typed
<1>6. ASSUME NEW u \in Thread PROVE JobOK(u)'
  <2>1. CASE home[u] = d
    BY <1>1, <2>1 DEF JobOK, CreateOK, RotateOK, At, Busy
  <2>2. CASE home[u] # d
    <3>1. home[u] \in Daemon BY <1>2 DEF Typed
    <3>2. Extends(Db(u), Db(u)') BY <1>3, <2>2, <3>1 DEF Grow, Db
    <3>3. /\ pc'[u] = pc[u] /\ job'[u] = job[u] /\ minted' = minted
          /\ lock[home[u]] = u => lock'[home[u]] = u
      BY <1>1, <1>2, <2>2 DEF Typed
    <3> QED BY <1>4, <3>2, <3>3, JobKept
  <2> QED BY <2>1, <2>2
<1>7. IssuedOK' BY <1>1, <1>4, IssuedKept
<1>8. Alone'
  <2> SUFFICES ASSUME OneDaemon
               PROVE  AloneConn' /\ AloneDead' /\ \A t \in Thread : AloneJob(t)'
    BY DEF Alone, OneDaemon
  <2>1. \A t \in Thread : home[t] = d BY <1>1 DEF OneDaemon
  <2>2. AloneConn /\ AloneDead BY DEF IdentityInv, Alone
  <2>3. AloneConn' BY <1>1, <1>2, <2>2 DEF AloneConn, ConnInv, Rollback, Closed
  <2>4. AloneDead' BY <1>1, <1>3, <2>2 DEF AloneDead
  <2>5. \A t \in Thread : AloneJob(t)' BY <1>1, <2>1 DEF AloneJob, At
  <2> QED BY <2>3, <2>4, <2>5
<1> QED BY <1>3, <1>4, <1>5, <1>6, <1>7, <1>8 DEF IdentityInv, ConnStep, Safe

-----------------------------------------------------------------------------
(* The theorems *)

\* The invariant holds at first.
LEMMA IdentityInit == Init => IdentityInv
<1> SUFFICES ASSUME Init PROVE IdentityInv
  OBVIOUS
<1> DEFINE db0 == [agents |-> [i \in Id |-> None], pending |-> FALSE]
<1>1. /\ disk = db0 /\ conn = [d \in Daemon |-> Closed] /\ home \in Homes
      /\ lock = [d \in Daemon |-> None] /\ pc = [t \in Thread |-> "idle"]
      /\ job = [t \in Thread |-> NoJob]
      /\ minted = 0 /\ issued = {} /\ dead = {}
  BY DEF Init, ConnInit
<1>2. db0 \in DbType /\ Rows(db0) = {} BY DEF DbType, Rows
<1> HIDE DEF db0
<1>3. ConnInv BY <1>1, <1>2 DEF ConnInv, Closed, Mode
<1>4. Typed
  <2>1. Drawing = {} BY <1>1 DEF Drawing, At
  <2>2. IsFiniteSet(Drawing) /\ Cardinality(Drawing) = 0 BY <2>1, FS_EmptySet
  <2>3. pc \in [Thread -> PC] /\ job \in [Thread -> JobType]
    BY <1>1 DEF PC, NoJob, JobType
  <2> QED BY <1>1, <2>2, <2>3, IdentityAssumption DEF Typed
<1>5. \A db \in Versions : Drawn(db)
  BY <1>1, <1>2 DEF Versions, View, Closed, Drawn
<1>6. \A t \in Thread : JobOK(t) /\ AloneJob(t)
  BY <1>1 DEF JobOK, AloneJob, CreateOK, RotateOK, At, Busy
<1>7. AloneConn /\ AloneDead BY <1>1 DEF AloneConn, AloneDead, Closed
<1> QED BY <1>1, <1>3, <1>4, <1>5, <1>6, <1>7 DEF IdentityInv, IssuedOK, Alone

\* No step breaks the invariant or takes back a committed row.
LEMMA IdentityStep == IdentityInv /\ [Next]_vars => Safe
<1> SUFFICES ASSUME IdentityInv, [Next]_vars PROVE Safe
  OBVIOUS
<1>1. ASSUME NEW t \in Thread, ThreadStep(t), home' = home PROVE Safe
  BY <1>1, CreateLookKeeps, CreateWriteKeeps, CreateReplyKeeps, RefLookKeeps,
     RotateWriteKeeps, RotateReplyKeeps, RevokeWriteKeeps, RevokeReplyKeeps, AskKeeps,
     ReviewLookKeeps, ReviewWritten, ReviewLost, ReviewReplyKeeps, CommitStepKeeps,
     LockedKeeps, AuthenticateKeeps
  DEF ThreadStep
<1>2. ASSUME NEW d \in Daemon, Crash(d), home' = home PROVE Safe
  BY <1>2, CrashKeeps
<1>3. CASE UNCHANGED vars
  <2>1. disk' = disk /\ Extends(disk, disk')
    BY <1>3, ExtendsSelf DEF vars, IdentityInv, ConnInv
  <2>2. /\ UNCHANGED <<home, lock, pc, job>> /\ UNCHANGED <<minted, issued, dead>>
        /\ UNCHANGED <<disk, conn>>
    BY <1>3 DEF vars
  <2>3. ConnInv' /\ (\A db \in Versions : Drawn(db))'
    BY <2>2 DEF IdentityInv, ConnInv, Versions, View, Drawn
  <2>4. Typed' BY <2>2 DEF IdentityInv, Typed, Drawing, At
  <2>5. (\A t \in Thread : JobOK(t))'
    BY <2>2 DEF IdentityInv, JobOK, CreateOK, RotateOK, Kept, Writers, At, Db, View
  <2>6. IssuedOK' BY <2>2 DEF IdentityInv, IssuedOK
  <2>7. Alone'
    BY <2>2 DEF IdentityInv, Alone, AloneConn, AloneDead, AloneJob, OneDaemon, At, Db, View
  <2>8. IdentityInv' BY <2>3, <2>4, <2>5, <2>6, <2>7 DEF IdentityInv
  <2> QED BY <2>1, <2>8 DEF Safe
<1> QED BY <1>1, <1>2, <1>3 DEF Next

\* The invariant of the machine identities.
LEMMA IdentityAlways == Spec => []IdentityInv
<1>1. IdentityInv /\ [Next]_vars => IdentityInv' BY IdentityStep DEF Safe
<1> QED BY <1>1, IdentityInit, PTL DEF Spec

\* Rows, snapshots, jobs, locks and keys always have the types of the schema, and no
\* handler that is going to draw an id or a secret is left without one (service.py:462
\* to 559).
THEOREM IdentityTypeCorrect == Spec => []TypeOK
<1>1. IdentityInv => TypeOK
  <2> SUFFICES ASSUME IdentityInv PROVE TypeOK
    OBVIOUS
  <2>1. minted \in 0 .. MaxMint
    <3>1. /\ Cardinality(Drawing) \in Nat /\ minted \in Nat
          /\ minted + Cardinality(Drawing) <= MaxMint
      BY FS_CardinalityType DEF IdentityInv, Typed
    <3> QED BY <3>1, IdentityAssumption
  <2>2. issued \subseteq KeyType BY DEF IdentityInv, IssuedOK
  <2> QED BY <2>1, <2>2 DEF IdentityInv, ConnInv, Typed, TypeOK
<1> QED BY <1>1, IdentityAlways, PTL

\* What create_agent or rotate_agent has answered is stored, or a later secret of that
\* agent: no kill of a daemon, no second daemon and no rollback of another thread's
\* review takes it back (service.py:483 to 524).
THEOREM IssuedKeyAlwaysStored == Spec => []IssuedKeyStored
<1>1. IdentityInv => IssuedKeyStored
  BY DEF IdentityInv, IssuedOK, Holds, Rows, IssuedKeyStored
<1> QED BY <1>1, IdentityAlways, PTL

\* No committed row goes, and no committed revocation is undone, by a rotation that
\* has read the row before it or in any other order of the handlers' statements
\* (service.py:507 to 534).
THEOREM RevocationIsFinal == Spec => RevokedStays
<1>1. IdentityInv /\ [Next]_vars =>
        \A i \in Id : disk.agents[i] # None =>
          /\ disk'.agents[i] # None
          /\ disk.agents[i].revoked => disk'.agents[i].revoked
  BY IdentityStep DEF Safe, Extends, Rows
<1> QED BY <1>1, IdentityAlways, PTL DEF Spec, RevokedStays

\* Once a revocation or rotation has been answered, the one daemon of the database
\* admits no call with a key that it ended (service.py:1236, 519, 528).
THEOREM DeadKeyAlwaysRefused == Spec => DeadKeyRefused
<1>1. ASSUME IdentityInv, [Next]_vars, NEW t \in Thread, OneDaemon,
             pc[t] = "idle", pc'[t] = "inside"
      PROVE  job'[t].key \notin dead
  <2>1. Typed BY <1>1 DEF IdentityInv
  <2>2. Authenticate(t)
    <3>1. ASSUME NEW u \in Thread, ThreadStep(u)
          PROVE  \/ Authenticate(u) \/ pc' = pc
                 \/ \E p \in Busy \cup {"idle"} : pc' = [pc EXCEPT ![u] = p]
      BY <3>1
      DEF ThreadStep, CreateLook, CreateWrite, CreateReply, RefLook, RotateWrite,
          RotateReply, RevokeWrite, RevokeReply, Ask, ReviewLook, ReviewWrite,
          ReviewReply, CommitStep, Locked, Served, Begin, Goto, Return, threads, Busy
    <3>2. PICK u \in Thread : ThreadStep(u) BY <1>1 DEF Next, Crash, vars
    <3>3. CASE Authenticate(u) BY <1>1, <2>1, <3>3 DEF Authenticate, Goto, Typed
    <3>4. CASE ~Authenticate(u)
      BY <1>1, <2>1, <3>1, <3>2, <3>4 DEF Typed, Busy
    <3> QED BY <3>3, <3>4
  <2>3. PICK k : /\ Valid(Db(t), k)
                 /\ Goto(t, "inside", [NoJob EXCEPT !.call = "use", !.key = k])
    BY <2>2 DEF Authenticate
  <2>4. job'[t].key = k BY <2>1, <2>3 DEF Typed, Goto, NoJob
  <2>5. ASSUME k \in dead PROVE FALSE
    <3>1. k \in KeyType /\ Ended(disk, k)
      BY <1>1, <2>1, <2>5 DEF IdentityInv, Alone, AloneDead, Typed
    <3>2. Extends(disk, Db(t)) /\ Db(t) \in DbType /\ disk \in DbType
      BY <1>1, Basics, ExtendsSelf
      DEF IdentityInv, Alone, AloneConn, ConnInv, Db, View, Typed
    <3>3. Ended(Db(t), k) BY <3>1, <3>2, EndedStays
    <3> QED BY <2>3, <3>1, <3>2, <3>3, RowTyped DEF Ended, Valid, KeyType, Id
  <2> QED BY <2>4, <2>5
<1>2. IdentityInv /\ [Next]_vars =>
        \A t \in Thread :
          OneDaemon /\ pc[t] = "idle" /\ pc'[t] = "inside" => job'[t].key \notin dead
  BY <1>1
<1> QED BY <1>2, IdentityAlways, PTL DEF Spec, DeadKeyRefused
=============================================================================
