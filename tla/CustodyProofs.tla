----------------------------- MODULE CustodyProofs -----------------------------
(***************************************************************************)
(* Theorems about vaults, items and imports, for every set of daemons,     *)
(* connections, calls and exports, and however often daemons are killed.   *)
(***************************************************************************)
EXTENDS ProtonImport, TLAPS, FiniteSetTheorems

-----------------------------------------------------------------------------
(* Versions of the database *)

\* A source has one row of a table at most.
UniqueSources(table) ==
  \A i, j \in Rows(table) :
    table[i].source = table[j].source /\ table[i].source # None => i = j

\* What is so in every version of the database, committed or not.
Good(db) ==
  /\ db \in DbType
  /\ UniqueSources(db.vaults) /\ UniqueSources(db.items)
  /\ \A i \in Rows(db.items) :
       db.items[i].under = db.items[i].vault /\ db.items[i].with = db.items[i].key

\* The rows of an earlier version are there in a later one, under their sources.
RowsStay(a, b) ==
  \A i \in Rows(a) : i \in Rows(b) /\ b[i].source = a[i].source
Extends(a, b) == RowsStay(a.vaults, b.vaults) /\ RowsStay(a.items, b.items)

\* A version of the database extends itself.
LEMMA ExtendsSelf == ASSUME NEW a PROVE Extends(a, a)
BY DEF Extends, RowsStay

\* Versions extend each other in a row.
LEMMA ExtendsTransitive ==
  ASSUME NEW a, NEW b, NEW c, Extends(a, b), Extends(b, c)
  PROVE  Extends(a, c)
BY DEF Extends, RowsStay

\* A row that is written takes the place of one with its source, or has a source that
\* no other row has.
LEMMA PutVault ==
  ASSUME NEW db, Good(db), NEW v \in Vault, NEW row \in VaultRow,
         \/ db.vaults[v] = None /\ ~Taken(db.vaults, row.source)
         \/ db.vaults[v] # None /\ db.vaults[v].source = row.source
  PROVE  /\ Good([db EXCEPT !.vaults[v] = row])
         /\ Extends(db, [db EXCEPT !.vaults[v] = row])
<1> DEFINE new == [db EXCEPT !.vaults[v] = row]
<1>1. db \in DbType /\ db.vaults \in [Vault -> VaultRow \cup {None}]
  BY DEF Good, DbType
<1>2. new.items = db.items /\ new.vaults = [db.vaults EXCEPT ![v] = row] /\ new \in DbType
  BY <1>1 DEF DbType
<1> HIDE DEF new
<1>3. row # None BY CustodyAssumption
<1>4. /\ Rows(new.vaults) = Rows(db.vaults) \cup {v} /\ new.vaults[v] = row
      /\ \A w \in Rows(db.vaults) : w # v => new.vaults[w] = db.vaults[w]
      /\ v \in Rows(db.vaults) <=> db.vaults[v] # None
  BY <1>1, <1>2, <1>3 DEF Rows
<1>5. row.source # None =>
        \A w \in Rows(db.vaults) : w # v => db.vaults[w].source # row.source
  <2>1. CASE db.vaults[v] = None BY <2>1 DEF Taken, From
  <2>2. CASE db.vaults[v] # None BY <1>4, <2>2 DEF Good, UniqueSources
  <2> QED BY <2>1, <2>2
<1>6. UniqueSources(new.vaults) BY <1>4, <1>5 DEF UniqueSources, Good
<1>7. Good(new) BY <1>2, <1>6 DEF Good
<1>8. Extends(db, new) BY <1>2, <1>4 DEF Extends, RowsStay
<1> QED BY <1>7, <1>8 DEF new

\* The same for items, whose key is wrapped for the vault and whose payload is sealed
\* under that key.
LEMMA PutItem ==
  ASSUME NEW db, Good(db), NEW i \in Item, NEW row \in ItemRow,
         row.under = row.vault, row.with = row.key,
         \/ db.items[i] = None /\ ~Taken(db.items, row.source)
         \/ db.items[i] # None /\ db.items[i].source = row.source
  PROVE  /\ Good([db EXCEPT !.items[i] = row])
         /\ Extends(db, [db EXCEPT !.items[i] = row])
<1> DEFINE new == [db EXCEPT !.items[i] = row]
<1>1. db \in DbType /\ db.items \in [Item -> ItemRow \cup {None}]
  BY DEF Good, DbType
<1>2. new.vaults = db.vaults /\ new.items = [db.items EXCEPT ![i] = row] /\ new \in DbType
  BY <1>1 DEF DbType
<1> HIDE DEF new
<1>3. row # None BY CustodyAssumption
<1>4. /\ Rows(new.items) = Rows(db.items) \cup {i} /\ new.items[i] = row
      /\ \A j \in Rows(db.items) : j # i => new.items[j] = db.items[j]
      /\ i \in Rows(db.items) <=> db.items[i] # None
  BY <1>1, <1>2, <1>3 DEF Rows
<1>5. row.source # None =>
        \A j \in Rows(db.items) : j # i => db.items[j].source # row.source
  <2>1. CASE db.items[i] = None BY <2>1 DEF Taken, From
  <2>2. CASE db.items[i] # None BY <1>4, <2>2 DEF Good, UniqueSources
  <2> QED BY <2>1, <2>2
<1>6. UniqueSources(new.items) BY <1>4, <1>5 DEF UniqueSources, Good
<1>7. Good(new) BY <1>2, <1>4, <1>6 DEF Good
<1>8. Extends(db, new) BY <1>2, <1>4 DEF Extends, RowsStay
<1> QED BY <1>7, <1>8 DEF new

-----------------------------------------------------------------------------
(* The connections *)

\* A snapshot is the committed version, or, outdated, an earlier one; a working
\* copy extends the committed version, and there is one at most.
ConnInv ==
  /\ conn \in [Daemon -> [mode: Mode, db: DbType \cup {None}]]
  /\ Good(disk)
  /\ \A d \in Daemon :
       /\ conn[d].mode = "read" => conn[d].db = disk
       /\ conn[d].mode = "stale" => Good(conn[d].db) /\ Extends(conn[d].db, disk)
       /\ conn[d].mode = "write" => Good(conn[d].db) /\ Extends(disk, conn[d].db)
  /\ \A d, e \in Daemon : conn[d].mode = "write" /\ conn[e].mode = "write" => d = e

Grow(D) == Extends(disk, disk') /\ \A d \in D : Extends(View(d), View(d)')

\* What the threads of a daemon see is a good version of the database.
LEMMA ViewGood ==
  ASSUME ConnInv, NEW d \in Daemon
  PROVE  Good(View(d))
BY DEF ConnInv, View, Mode

\* A SELECT changes what no thread sees.
LEMMA SelectKeeps ==
  ASSUME ConnInv, NEW d \in Daemon, Select(d)
  PROVE  ConnInv' /\ Grow(Daemon) /\ View(d)' = View(d)
<1>1. ConnInv' BY DEF ConnInv, Select, Mode, Good
<1>2. disk' = disk /\ \A e \in Daemon : View(e)' = View(e)
  BY DEF ConnInv, Select, View
<1> QED BY <1>1, <1>2, ExtendsSelf DEF Grow

\* An INSERT or UPDATE that is good for those who see it leaves all versions good.
LEMMA ExecuteKeeps ==
  ASSUME ConnInv, NEW d \in Daemon, NEW db, Good(db), Extends(View(d), db),
         Execute(d, db)
  PROVE  ConnInv' /\ Grow(Daemon) /\ View(d)' = db
<1>1. /\ conn[d].mode # "stale" /\ \A e \in Daemon \ {d} : conn[e].mode # "write"
      /\ conn' = [conn EXCEPT ![d] = [mode |-> "write", db |-> db]]
      /\ disk' = disk
  BY DEF Execute, CanWrite
<1>2. /\ conn'[d] = [mode |-> "write", db |-> db]
      /\ \A e \in Daemon \ {d} : conn'[e] = conn[e]
  BY <1>1 DEF ConnInv
<1>3. Extends(disk, db)
  <2>1. Extends(disk, View(d))
    BY <1>1, ExtendsSelf DEF ConnInv, View, Mode
  <2> QED BY <2>1, ExtendsTransitive
<1>4. ConnInv'
  <2>1. conn' \in [Daemon -> [mode: Mode, db: DbType \cup {None}]]
    BY <1>1 DEF ConnInv, Good, Mode
  <2> QED BY <1>1, <1>2, <1>3, <2>1 DEF ConnInv
<1>5. View(d)' = db BY <1>2 DEF View
<1>6. \A e \in Daemon \ {d} : View(e)' = View(e) BY <1>1, <1>2 DEF View
<1> QED BY <1>1, <1>4, <1>5, <1>6, ExtendsSelf DEF Grow

\* A statement that raises "database is locked" takes nothing away.
LEMMA ExecuteLockedKeeps ==
  ASSUME ConnInv, NEW d \in Daemon, ExecuteLocked(d)
  PROVE  ConnInv' /\ Grow(Daemon)
<1>1. ConnInv' BY DEF ConnInv, ExecuteLocked, Mode
<1>2. disk' = disk /\ \A e \in Daemon : View(e)' = View(e)
  BY DEF ConnInv, ExecuteLocked, View
<1> QED BY <1>1, <1>2, ExtendsSelf DEF Grow

\* A commit publishes what the threads of the daemon see, and takes nothing away.
LEMMA CommitKeeps ==
  ASSUME ConnInv, NEW d \in Daemon, Commit(d)
  PROVE  /\ ConnInv' /\ Grow(Daemon) /\ View(d)' = disk'
         /\ Extends(View(d), disk')
<1>1. CASE conn[d].mode = "write"
  <2>1. disk' = conn[d].db /\ conn' = Committed(d) BY <1>1 DEF Commit
  <2>2. Good(disk') /\ Extends(disk, disk') BY <1>1, <2>1 DEF ConnInv
  <2>3. conn'[d] = Closed BY <2>1 DEF Committed
  <2>4. ASSUME NEW e \in Daemon, e # d
        PROVE  /\ conn[e].mode # "write"
               /\ conn[e].mode = "read" =>
                    conn'[e].mode = "stale" /\ conn'[e].db = disk
               /\ conn[e].mode # "read" => conn'[e] = conn[e]
    BY <1>1, <2>1, <2>4 DEF ConnInv, Committed
  <2>5. ConnInv'
    <3>1. conn' \in [Daemon -> [mode: Mode, db: DbType \cup {None}]]
      <4>1. ASSUME NEW e \in Daemon
            PROVE  Committed(d)[e] \in [mode: Mode, db: DbType \cup {None}]
        BY DEF ConnInv, Committed, Closed, Mode
      <4> QED BY <2>1, <4>1 DEF Committed
    <3>2. ASSUME NEW e \in Daemon
          PROVE  /\ conn'[e].mode = "read" => conn'[e].db = disk'
                 /\ conn'[e].mode = "stale" =>
                      Good(conn'[e].db) /\ Extends(conn'[e].db, disk')
                 /\ conn'[e].mode # "write"
      <4>1. CASE e = d BY <2>3, <4>1 DEF Closed
      <4>2. CASE e # d
        BY <2>2, <2>4, <4>2, ExtendsTransitive, ExtendsSelf DEF ConnInv
      <4> QED BY <4>1, <4>2
    <3> QED BY <2>2, <3>1, <3>2 DEF ConnInv, Good
  <2>6. View(d)' = disk' /\ View(d) = disk' BY <1>1, <2>1, <2>3 DEF View, Closed
  <2>7. ASSUME NEW e \in Daemon, e # d PROVE Extends(View(e), View(e)')
    <3>1. CASE conn[e].mode \in {"auto", "begun"}
      BY <2>2, <2>4, <2>7, <3>1 DEF View
    <3>2. CASE conn[e].mode = "read"
      BY <2>4, <2>7, <3>2, ExtendsSelf DEF View, ConnInv
    <3>3. CASE conn[e].mode = "stale"
      BY <2>4, <2>7, <3>3, ExtendsSelf DEF View
    <3> QED BY <2>4, <2>7, <3>1, <3>2, <3>3 DEF ConnInv, Mode
  <2> QED BY <2>2, <2>5, <2>6, <2>7, ExtendsSelf DEF Grow
<1>2. CASE conn[d].mode # "write"
  <2>1. disk' = disk /\ conn' = [conn EXCEPT ![d] = Closed] BY <1>2 DEF Commit
  <2>2. ConnInv' BY <2>1 DEF ConnInv, Closed, Mode, Good
  <2>3. View(d)' = disk BY <2>1 DEF View, Closed, ConnInv
  <2>4. Extends(View(d), disk)
    BY <1>2, ExtendsSelf DEF ConnInv, View, Mode
  <2>5. \A e \in Daemon \ {d} : View(e)' = View(e) BY <2>1 DEF View
  <2> QED BY <2>1, <2>2, <2>3, <2>4, <2>5, ExtendsSelf DEF Grow
<1> QED BY <1>1, <1>2

\* A rollback, or a kill, takes rows away from the threads of one daemon only.
LEMMA RollbackKeeps ==
  ASSUME ConnInv, NEW d \in Daemon, Rollback(d)
  PROVE  ConnInv' /\ Grow(Daemon \ {d})
<1>1. ConnInv' BY DEF ConnInv, Rollback, Closed, Mode, Good
<1>2. disk' = disk /\ \A e \in Daemon \ {d} : View(e)' = View(e)
  BY DEF ConnInv, Rollback, View
<1> QED BY <1>1, <1>2, ExtendsSelf DEF Grow

-----------------------------------------------------------------------------
(* How the versions of the database move *)

Writers == {d \in Daemon : conn[d].mode = "write"}

\* No version is new; a writer that is one no more has committed, unless it is in D.
Moves(D) ==
  /\ Versions' \subseteq Versions
  /\ Writers' \subseteq Writers /\ \A d \in Writers' : conn'[d].db = conn[d].db
  /\ \A d \in Writers \ Writers' : d \in D \/ disk' = conn[d].db
  /\ disk' = disk \/ \E d \in Writers : disk' = conn[d].db

\* A SELECT makes no version of the database.
LEMMA SelectMoves ==
  ASSUME ConnInv, NEW d \in Daemon, Select(d)
  PROVE  Moves({})
BY DEF ConnInv, Select, Moves, Versions, Writers, View

\* Nor does a statement that raises "database is locked".
LEMMA LockedMoves ==
  ASSUME ConnInv, NEW d \in Daemon, ExecuteLocked(d)
  PROVE  Moves({})
BY DEF ConnInv, ExecuteLocked, Moves, Versions, Writers, View

\* A rollback or a kill makes none, and drops that of its daemon.
LEMMA RollbackMoves ==
  ASSUME ConnInv, NEW d \in Daemon, Rollback(d)
  PROVE  Moves({d})
BY DEF ConnInv, Rollback, Closed, Moves, Versions, Writers, View

\* A commit makes none, and the daemon has no working copy after it.
LEMMA CommitMoves ==
  ASSUME ConnInv, NEW d \in Daemon, Commit(d)
  PROVE  Moves({}) /\ d \notin Writers' /\ (d \notin Writers => disk' = disk)
<1>1. CASE conn[d].mode = "write"
  <2>1. disk' = conn[d].db /\ conn' = Committed(d) BY <1>1 DEF Commit
  <2>2. conn'[d] = Closed BY <2>1 DEF Committed
  <2>3. ASSUME NEW e \in Daemon, e # d
        PROVE  /\ conn[e].mode # "write" /\ conn'[e].mode # "write"
               /\ conn'[e] = conn[e] \/ (conn[e].mode = "read" /\ conn'[e].mode = "stale"
                                          /\ conn'[e].db = conn[e].db)
    BY <1>1, <2>1, <2>3 DEF ConnInv, Committed
  <2>4. d \in Writers /\ Writers' = {} BY <1>1, <2>2, <2>3 DEF Writers, Closed
  <2>5. View(d) = disk' /\ View(d)' = disk' BY <1>1, <2>1, <2>2 DEF View, Closed
  <2>6. \A e \in Daemon : e # d => View(e)' \in {disk', View(e)}
    BY <2>3 DEF View
  <2>7. Versions' \subseteq Versions BY <2>5, <2>6 DEF Versions
  <2>8. Writers = {d} BY <2>3, <2>4 DEF Writers
  <2> QED BY <2>1, <2>4, <2>7, <2>8 DEF Moves
<1>2. CASE conn[d].mode # "write"
  <2>1. disk' = disk /\ conn' = [conn EXCEPT ![d] = Closed] BY <1>2 DEF Commit
  <2> QED BY <1>2, <2>1 DEF ConnInv, Closed, Moves, Versions, Writers, View
<1> QED BY <1>1, <1>2

\* A statement that writes makes its connection the only writer, of what it made.
LEMMA ExecuteMoves ==
  ASSUME ConnInv, NEW d \in Daemon, NEW db, Execute(d, db)
  PROVE  /\ Versions' \subseteq Versions \cup {db}
         /\ Writers \subseteq {d} /\ Writers' = {d} /\ conn'[d].db = db /\ disk' = disk
         /\ View(d) = IF d \in Writers THEN conn[d].db ELSE disk
<1>1. /\ conn[d].mode # "stale" /\ \A e \in Daemon \ {d} : conn[e].mode # "write"
      /\ conn' = [conn EXCEPT ![d] = [mode |-> "write", db |-> db]] /\ disk' = disk
  BY DEF Execute, CanWrite
<1>2. conn'[d] = [mode |-> "write", db |-> db] /\ \A e \in Daemon \ {d} : conn'[e] = conn[e]
  BY <1>1 DEF ConnInv
<1>3. Writers \subseteq {d} /\ Writers' = {d} BY <1>1, <1>2 DEF Writers
<1>4. View(d)' = db /\ \A e \in Daemon \ {d} : View(e)' = View(e)
  BY <1>1, <1>2 DEF View
<1>5. View(d) = IF d \in Writers THEN conn[d].db ELSE disk
  BY <1>1 DEF View, Writers, ConnInv, Mode
<1> QED BY <1>1, <1>2, <1>3, <1>4, <1>5 DEF Versions

\* A step that does not touch the database makes no version.
LEMMA QuietMoves ==
  ASSUME UNCHANGED <<disk, conn>>
  PROVE  Moves({}) /\ Versions' = Versions
BY DEF Moves, Versions, Writers, View

\* All versions of the database are good.
LEMMA VersionsGood ==
  ASSUME ConnInv, NEW db \in Versions
  PROVE  Good(db)
BY ViewGood DEF Versions, ConnInv

\* A row that is in two of them has one source.
LEMMA VersionsAgree ==
  ASSUME ConnInv, NEW a \in Versions, NEW b \in Versions
  PROVE  /\ \A v \in Rows(a.vaults) \cap Rows(b.vaults) :
              a.vaults[v].source = b.vaults[v].source
         /\ \A i \in Rows(a.items) \cap Rows(b.items) :
              a.items[i].source = b.items[i].source
<1>1. ASSUME NEW db \in Versions
      PROVE  \/ Extends(db, disk)
             \/ Extends(disk, db) /\ \E d \in Writers : db = conn[d].db
  <2>1. CASE db = disk BY <2>1, ExtendsSelf
  <2>2. CASE \E d \in Daemon : db = View(d)
    BY <2>2, ExtendsSelf DEF ConnInv, View, Mode, Writers
  <2> QED BY <2>1, <2>2 DEF Versions
<1>2. \A d, e \in Writers : d = e BY DEF ConnInv, Writers
<1>3. CASE Extends(a, disk) /\ Extends(b, disk) BY <1>3 DEF Extends, RowsStay
<1>4. CASE Extends(a, disk) /\ Extends(disk, b) BY <1>4 DEF Extends, RowsStay
<1>5. CASE Extends(disk, a) /\ Extends(b, disk) BY <1>5 DEF Extends, RowsStay
<1> QED BY <1>1, <1>2, <1>3, <1>4, <1>5

\* In every version the vault v, or the item i, has the source s, or is not there.
VaultIs(v, s) == \A db \in Versions : v \in Rows(db.vaults) => db.vaults[v].source = s
ItemIs(i, s) == \A db \in Versions : i \in Rows(db.items) => db.items[i].source = s

\* What has a row in some version, what a handler is about to write or to return, and
\* what an importer puts under is an id in use.
LEMMA InUse ==
  /\ \A db \in Versions :
       Rows(db.vaults) \subseteq IdsInUse /\ Rows(db.items) \subseteq IdsInUse
  /\ \A t \in Thread : {job[t].old, job[t].vault, reply[t]} \subseteq IdsInUse
  /\ \A t \in Importer : into[t] \in IdsInUse
<1> DEFINE R == {Rows(db.vaults) \cup Rows(db.items) : db \in Versions}
           H == {{job[t].old, job[t].vault, reply[t]} : t \in Thread}
           I == {into[t] : t \in Importer}
<1>1. IdsInUse = (UNION R) \cup (UNION H) \cup I BY DEF IdsInUse
<1>2. \A db \in Versions : Rows(db.vaults) \cup Rows(db.items) \in R OBVIOUS
<1>3. \A t \in Thread : {job[t].old, job[t].vault, reply[t]} \in H OBVIOUS
<1>4. \A t \in Importer : into[t] \in I OBVIOUS
<1> HIDE DEF R, H, I
<1>5. \A S \in R \cup H : \A x \in S : x \in IdsInUse BY <1>1
<1>6. I \subseteq IdsInUse BY <1>1
<1> QED BY <1>2, <1>3, <1>4, <1>5, <1>6

\* No id in use is drawn again: whoever holds one finds the row that it was given
\* to, or none.
IdsStay ==
  \A db \in Versions' :
    /\ \A v \in Rows(db.vaults) \cap IdsInUse :
         \E a \in Versions : v \in Rows(a.vaults) /\ a.vaults[v].source = db.vaults[v].source
    /\ \A i \in Rows(db.items) \cap IdsInUse :
         \E a \in Versions : i \in Rows(a.items) /\ a.items[i].source = db.items[i].source

\* An id in use goes on to name what it named.
LEMMA SameRow ==
  ASSUME IdsStay, NEW v, v \in IdsInUse, NEW s
  PROVE  /\ VaultIs(v, s) => VaultIs(v, s)'
         /\ ItemIs(v, s) => ItemIs(v, s)'
BY DEF IdsStay, VaultIs, ItemIs

\* A step that makes no version draws no id.
LEMMA NoneDrawn ==
  ASSUME Versions' \subseteq Versions
  PROVE  IdsStay
BY DEF IdsStay

\* Nor does a statement that writes a row under an id not in use, or one that is
\* there, under its source.
LEMMA ExecuteDraws ==
  ASSUME ConnInv, NEW d \in Daemon, NEW db, Execute(d, db),
         \A v \in Rows(db.vaults) \cap IdsInUse :
           v \in Rows(View(d).vaults) /\ View(d).vaults[v].source = db.vaults[v].source,
         \A i \in Rows(db.items) \cap IdsInUse :
           i \in Rows(View(d).items) /\ View(d).items[i].source = db.items[i].source
  PROVE  IdsStay
<1>1. Versions' \subseteq Versions \cup {db} BY ExecuteMoves
<1>2. View(d) \in Versions BY DEF Versions
<1> QED BY <1>1, <1>2 DEF IdsStay


-----------------------------------------------------------------------------
(* The handlers *)

ReadType == [vault: Vault, key: Key, under: Vault]
JobType ==
  [name: Name \cup {None}, vault: Vault \cup {None}, source: Source \cup {None},
   body: Body \cup {None}, old: Vault \cup Item \cup {None}, row: ReadType \cup {None},
   req: Request \cup {None}]

\* A row that a handler has found and is going to write has the source it was looked
\* for by, while it is there, and what was read of it was sealed for its vault.
JobOK(t) ==
  LET j == job[t] IN
  /\ j \in JobType
  /\ pc[t] = "vault" =>
       /\ j.name \in Name
       /\ j.old # None => j.old \in Vault /\ VaultIs(j.old, j.source)
  /\ pc[t] = "item" =>
       /\ j.vault \in Vault /\ j.body \in Body
       /\ j.old # None => /\ j.old \in Item /\ ItemIs(j.old, j.source)
                          /\ j.row \in ReadType /\ j.row.under = j.row.vault

HandlerTyped ==
  /\ pc \in [Thread -> PC]
  /\ DOMAIN job = Thread
  /\ reply \in [Thread -> Vault \cup Item \cup {None, Error}]
  /\ undone \subseteq Importer

CustodyInv == ConnInv /\ HandlerTyped /\ \A t \in Thread : JobOK(t)

\* A handler keeps what it holds while others write, commit and roll back.
LEMMA JobKept ==
  ASSUME CustodyInv, NEW t \in Thread, pc'[t] = pc[t], job'[t] = job[t], IdsStay
  PROVE  JobOK(t)'
<1>1. PICK old, source : old = job[t].old /\ source = job[t].source OBVIOUS
<1>2. old \in IdsInUse BY <1>1, InUse
<1>3. /\ VaultIs(old, source) => VaultIs(old, source)'
      /\ ItemIs(old, source) => ItemIs(old, source)'
  BY <1>2, SameRow
<1>4. JobOK(t) BY DEF CustodyInv
<1>5. job'[t].old = old /\ job'[t].source = source BY <1>1
<1>6. /\ VaultIs(old, source)' => VaultIs(job[t].old, job[t].source)'
      /\ ItemIs(old, source)' => ItemIs(job[t].old, job[t].source)'
  BY <1>5 DEF VaultIs, ItemIs
<1> QED BY <1>1, <1>3, <1>4, <1>6 DEF JobOK

\* A step of one handler is safe for all when its own is.
LEMMA OthersKept ==
  ASSUME CustodyInv, NEW t \in Thread, NEW p \in PC, NEW j \in JobType, Goto(t, p, j),
         ConnInv', IdsStay, JobOK(t)', undone' \subseteq Importer,
         reply' \in [Thread -> Vault \cup Item \cup {None, Error}]
  PROVE  CustodyInv'
<1>1. HandlerTyped' BY DEF CustodyInv, HandlerTyped, Goto
<1>2. ASSUME NEW u \in Thread, u # t PROVE JobOK(u)'
  <2>1. pc'[u] = pc[u] /\ job'[u] = job[u]
    BY <1>2 DEF CustodyInv, HandlerTyped, Goto
  <2> QED BY <2>1, JobKept
<1> QED BY <1>1, <1>2 DEF CustodyInv

\* The local variables of a thread that serves no call are typed.
LEMMA NoJobTyped == NoJob \in JobType
BY DEF NoJob, JobType

\* So is a reply.
LEMMA AnswerKeeps ==
  ASSUME CustodyInv, NEW t \in Thread, NEW r \in Vault \cup Item \cup {None, Error},
         Answer(t, r), ConnInv', IdsStay, undone' \subseteq Importer
  PROVE  CustodyInv'
<1>1. Goto(t, "idle", NoJob) /\ "idle" \in PC BY DEF Answer, PC
<1>2. reply' \in [Thread -> Vault \cup Item \cup {None, Error}]
  BY DEF Answer, Reply, CustodyInv, HandlerTyped
<1>3. pc'[t] = "idle" /\ job'[t] = NoJob
  BY <1>1 DEF Goto, CustodyInv, HandlerTyped
<1>4. JobOK(t)' BY <1>3, NoJobTyped DEF JobOK
<1> QED BY <1>1, <1>2, <1>4, NoJobTyped, OthersKept

\* And a row that is executed, if the version it makes is good.
LEMMA ExecutedKeeps ==
  ASSUME CustodyInv, NEW t \in Thread, NEW db, NEW id \in Vault \cup Item,
         Good(db), Extends(Db(t), db), IdsStay, Executed(t, db, id)
  PROVE  CustodyInv' /\ Grow(Daemon)
<1> DEFINE j == [NoJob EXCEPT !.old = id]
<1>1. Home[t] \in Daemon BY CustodyAssumption
<1>2. ConnInv' /\ Grow(Daemon)
  BY <1>1, ExecuteKeeps DEF Executed, Db, CustodyInv
<1>3. /\ Goto(t, "written", j) /\ "written" \in PC
      /\ UNCHANGED reply /\ undone' \subseteq Importer
  BY DEF Executed, PC, CustodyInv, HandlerTyped
<1>4. j \in JobType BY DEF NoJob, JobType
<1> HIDE DEF j
<1>5. pc'[t] = "written" /\ job'[t] = j
  BY <1>3 DEF Goto, CustodyInv, HandlerTyped
<1>6. JobOK(t)' BY <1>4, <1>5 DEF JobOK
<1> QED BY <1>2, <1>3, <1>4, <1>6, OthersKept DEF CustodyInv, HandlerTyped

\* The one element that a handler picks of a set is in it.
LEMMA TheIn ==
  ASSUME NEW S
  PROVE  S # {} => The(S) \in S
BY DEF The

\* What a SELECT by source finds is a row with that source.
LEMMA FromRows ==
  ASSUME NEW table, NEW s, NEW i \in From(table, s)
  PROVE  i \in Rows(table) /\ table[i].source = s
BY DEF From

\* A SELECT leaves all versions, and the ids, as they are.
LEMMA LookKeeps ==
  ASSUME CustodyInv, NEW t \in Thread, Select(Home[t])
  PROVE  /\ ConnInv' /\ Grow(Daemon) /\ IdsStay /\ Db(t)' = Db(t) /\ Good(Db(t))
         /\ \A v, s : VaultIs(v, s) => VaultIs(v, s)'
         /\ \A i, s : ItemIs(i, s) => ItemIs(i, s)'
<1>1. Home[t] \in Daemon BY CustodyAssumption
<1>2. ConnInv' /\ Grow(Daemon) /\ Db(t)' = Db(t) /\ Good(Db(t))
  BY <1>1, SelectKeeps, ViewGood DEF CustodyInv, Db
<1>3. Versions' \subseteq Versions BY <1>1, SelectMoves DEF CustodyInv, Moves
<1> QED BY <1>2, <1>3, NoneDrawn DEF VaultIs, ItemIs

\* A row that a thread sees has its source in all versions.
LEMMA SeenIs ==
  ASSUME CustodyInv, NEW t \in Thread
  PROVE  /\ \A v \in Rows(Db(t).vaults) : VaultIs(v, Db(t).vaults[v].source)
         /\ \A i \in Rows(Db(t).items) : ItemIs(i, Db(t).items[i].source)
<1>1. Db(t) \in Versions /\ ConnInv
  BY CustodyAssumption DEF Db, Versions, CustodyInv
<1>2. ASSUME NEW db \in Versions
      PROVE  /\ \A v \in Rows(Db(t).vaults) \cap Rows(db.vaults) :
                  db.vaults[v].source = Db(t).vaults[v].source
             /\ \A i \in Rows(Db(t).items) \cap Rows(db.items) :
                  db.items[i].source = Db(t).items[i].source
  BY <1>1, VersionsAgree
<1> QED BY <1>2 DEF VaultIs, ItemIs

\* create_vault, the read by source or by name.
LEMMA VaultLookKeeps ==
  ASSUME CustodyInv, NEW t \in Thread, NEW n \in Name, NEW s \in Source \cup {None},
         VaultLook(t, n, s)
  PROVE  /\ CustodyInv' /\ Grow(Daemon) /\ IdsStay
         /\ pc'[t] = "vault" /\ job'[t].old # None =>
              job'[t].old \in Rows(Db(t)'.vaults)
<1> DEFINE found == IF s = None THEN Named(Db(t), n) ELSE From(Db(t).vaults, s)
           j == [NoJob EXCEPT !.name = n, !.source = s, !.old = The(found)]
<1>1. /\ ConnInv' /\ Grow(Daemon) /\ IdsStay /\ Db(t)' = Db(t) /\ Good(Db(t))
      /\ \A v, c : VaultIs(v, c) => VaultIs(v, c)'
      /\ undone' \subseteq Importer
  BY LookKeeps DEF VaultLook, CustodyInv, HandlerTyped
<1>2. found \subseteq Rows(Db(t).vaults) /\ found \subseteq Vault
  BY <1>1 DEF Named, From, Rows, Good, DbType
<1>3. CASE s = None /\ found # {}
  <2>1. PICK v \in found : Answer(t, v) BY <1>3 DEF VaultLook
  <2>2. CustodyInv' BY <1>1, <1>2, <2>1, AnswerKeeps
  <2>3. pc'[t] = "idle" BY <2>1 DEF Answer, Goto, CustodyInv, HandlerTyped
  <2> QED BY <1>1, <2>2, <2>3
<1>4. CASE ~(s = None /\ found # {})
  <2>1. Goto(t, "vault", j) /\ Reply(t, None) /\ "vault" \in PC
    BY <1>4 DEF VaultLook, PC
  <2>2. The(found) # None => The(found) \in found BY TheIn DEF The
  <2>3. /\ j \in JobType /\ j.name = n /\ j.source = s /\ j.old = The(found)
    BY <1>2, <2>2 DEF NoJob, JobType
  <2>4. The(found) # None =>
          /\ The(found) \in Rows(Db(t).vaults) /\ The(found) \in Vault
          /\ VaultIs(The(found), s)
    <3>1. SUFFICES ASSUME The(found) # None
                   PROVE  /\ The(found) \in Rows(Db(t).vaults) /\ The(found) \in Vault
                          /\ VaultIs(The(found), s)
      OBVIOUS
    <3>2. The(found) \in From(Db(t).vaults, s) BY <1>4, <2>2, <3>1
    <3>3. Db(t).vaults[The(found)].source = s BY <3>2, FromRows
    <3> QED BY <1>2, <2>2, <3>1, <3>3, SeenIs
  <2> HIDE DEF j, found
  <2>5. pc'[t] = "vault" /\ job'[t] = j
    BY <2>1 DEF Goto, CustodyInv, HandlerTyped
  <2>6. PICK old : old = The(found) OBVIOUS
  <2>7. job'[t].old # None => VaultIs(job[t].old, job[t].source)'
    <3>1. job'[t].old = old /\ job'[t].source = s BY <2>3, <2>5, <2>6
    <3>2. old # None => VaultIs(old, s)' BY <1>1, <2>4, <2>6
    <3> QED BY <3>1, <3>2 DEF VaultIs
  <2>8. JobOK(t)' BY <2>3, <2>4, <2>5, <2>6, <2>7 DEF JobOK
  <2>9. reply' \in [Thread -> Vault \cup Item \cup {None, Error}]
    BY <2>1 DEF Reply, CustodyInv, HandlerTyped
  <2>10. CustodyInv' BY <1>1, <2>1, <2>3, <2>8, <2>9, OthersKept
  <2> QED BY <1>1, <2>3, <2>4, <2>5, <2>10
<1> QED BY <1>3, <1>4

\* A statement of t after which its connection has the rows that it had.
Quiet(t) ==
  \E db : /\ db.vaults = Db(t).vaults /\ db.items = Db(t).items /\ db \in DbType
          /\ Execute(Home[t], db)

\* It is good and draws no id.
LEMMA QuietKeeps ==
  ASSUME CustodyInv, NEW t \in Thread, Quiet(t)
  PROVE  ConnInv' /\ Grow(Daemon) /\ IdsStay
<1>1. PICK db : /\ db.vaults = Db(t).vaults /\ db.items = Db(t).items /\ db \in DbType
                /\ Execute(Home[t], db)
  BY DEF Quiet
<1>2. /\ Home[t] \in Daemon /\ ConnInv /\ Db(t) = View(Home[t]) /\ Good(Db(t))
  BY ViewGood, CustodyAssumption DEF CustodyInv, Db
<1>3. Good(db) /\ Extends(Db(t), db) BY <1>1, <1>2 DEF Good, Extends, RowsStay
<1>4. ConnInv' /\ Grow(Daemon) BY <1>1, <1>2, <1>3, ExecuteKeeps
<1>5. IdsStay BY <1>1, <1>2, ExecuteDraws
<1> QED BY <1>4, <1>5

\* A statement that a constraint refuses changes no row.
LEMMA RefusedQuiet ==
  ASSUME CustodyInv, NEW t \in Thread, Refused(t)
  PROVE  Quiet(t)
<1>1. Good(Db(t)) BY ViewGood, CustodyAssumption DEF CustodyInv, Db
<1> QED BY <1>1 DEF Refused, Quiet, Good

\* It ends the call.
LEMMA RefusedKeeps ==
  ASSUME CustodyInv, NEW t \in Thread, Refused(t)
  PROVE  CustodyInv' /\ Grow(Daemon) /\ IdsStay
<1>1. ConnInv' /\ Grow(Daemon) /\ IdsStay BY RefusedQuiet, QuietKeeps
<1>2. Answer(t, Error) /\ undone' \subseteq Importer
  BY DEF Refused, CustodyInv, HandlerTyped
<1> QED BY <1>1, <1>2, AnswerKeeps

\* An UPDATE whose row another thread has rolled back changes none, and succeeds.
Missed(t) ==
  /\ job[t].old \in Vault \cup Item
  /\ pc[t] = "vault" => job[t].old \notin Rows(Db(t).vaults)
  /\ pc[t] = "item" => job[t].old \notin Rows(Db(t).items)
  /\ Executed(t, Db(t), job[t].old)

\* So it leaves the rows.
LEMMA MissedQuiet ==
  ASSUME CustodyInv, NEW t \in Thread, Missed(t)
  PROVE  Quiet(t)
<1>1. Good(Db(t)) BY ViewGood, CustodyAssumption DEF CustodyInv, Db
<1> QED BY <1>1 DEF Missed, Executed, Quiet, Good

\* The handler goes on to its commit.
LEMMA MissedKeeps ==
  ASSUME CustodyInv, NEW t \in Thread, Missed(t)
  PROVE  CustodyInv' /\ Grow(Daemon) /\ IdsStay
<1>1. IdsStay BY MissedQuiet, QuietKeeps
<1>2. Good(Db(t)) BY ViewGood, CustodyAssumption DEF CustodyInv, Db
<1> QED BY <1>1, <1>2, ExtendsSelf, ExecutedKeeps DEF Missed

\* create_vault writes one row, that of the source it was called with, or fails.
VaultWritten(t) ==
  \E v \in Vault, row \in VaultRow :
    /\ row.source = job[t].source
    /\ \/ Db(t).vaults[v] = None /\ v \notin IdsInUse /\ ~Taken(Db(t).vaults, row.source)
       \/ Db(t).vaults[v] # None /\ Db(t).vaults[v].source = row.source
    /\ Executed(t, [Db(t) EXCEPT !.vaults[v] = row], v)

\* A new id is one that nobody holds.
LEMMA NewIdIs ==
  ASSUME NEW table, NewId(table) # None
  PROVE  NewId(table) \in DOMAIN table /\ NewId(table) \notin IdsInUse
<1>1. NewId(table) \in DOMAIN table \ IdsInUse BY TheIn DEF NewId, The
<1> QED BY <1>1

\* create_vault writes a row that is unique, finds none to update, or raises.
LEMMA VaultWrites ==
  ASSUME CustodyInv, NEW t \in Thread, VaultUpdate(t) \/ VaultInsert(t)
  PROVE  Refused(t) \/ Missed(t) \/ VaultWritten(t)
<1> DEFINE j == job[t]
<1>1. Good(Db(t)) BY ViewGood, CustodyAssumption DEF CustodyInv, Db
<1>2. Db(t) \in DbType /\ Db(t).vaults \in [Vault -> VaultRow \cup {None}]
  BY <1>1 DEF Good, DbType
<1>3. pc[t] = "vault" BY DEF VaultUpdate, VaultInsert
<1>4. CASE VaultUpdate(t)
  <2> DEFINE row == [Db(t).vaults[j.old] EXCEPT !.name = j.name]
             db == [Db(t) EXCEPT !.vaults = Updated(@, j.old, row)]
  <2>1. j.old # None /\ Executed(t, db, j.old)
    BY <1>4 DEF VaultUpdate
  <2>2. j.old \in Vault /\ VaultIs(j.old, j.source) /\ j.name \in Name
    BY <1>3, <2>1 DEF CustodyInv, JobOK
  <2>3. CASE Db(t).vaults[j.old] = None
    <3>1. db = Db(t) BY <1>2, <2>3 DEF Updated, DbType
    <3>2. j.old \notin Rows(Db(t).vaults) BY <2>3 DEF Rows
    <3> QED BY <1>3, <2>1, <2>2, <3>1, <3>2 DEF Missed
  <2>4. CASE Db(t).vaults[j.old] # None
    <3>1. j.old \in Rows(Db(t).vaults) BY <1>2, <2>2, <2>4 DEF Rows
    <3>2. Db(t).vaults[j.old].source = j.source
      BY <2>2, <3>1, CustodyAssumption DEF VaultIs, Versions, Db
    <3>3. row \in VaultRow /\ row.source = j.source
      BY <1>2, <2>2, <2>4, <3>2 DEF VaultRow
    <3>4. db = [Db(t) EXCEPT !.vaults[j.old] = row]
      BY <2>4 DEF Updated
    <3> HIDE DEF row, db
    <3> QED BY <2>1, <2>2, <2>4, <3>2, <3>3, <3>4 DEF VaultWritten
  <2> QED BY <2>3, <2>4
<1>5. CASE VaultInsert(t) /\ ~Refused(t)
  <2> DEFINE new == NewId(Db(t).vaults)
             row == [source |-> j.source, name |-> j.name]
  <2>1. /\ ~Taken(Db(t).vaults, j.source)
        /\ new # None /\ Executed(t, [Db(t) EXCEPT !.vaults[new] = row], new)
    BY <1>5 DEF VaultInsert
  <2>2. new \in Vault /\ new \notin IdsInUse BY <1>2, <2>1, NewIdIs
  <2>3. Db(t).vaults[new] = None
    <3>1. Rows(Db(t).vaults) \subseteq IdsInUse
      BY InUse, CustodyAssumption DEF Versions, Db
    <3> QED BY <1>2, <2>2, <3>1 DEF Rows
  <2>4. row \in VaultRow /\ row.source = j.source
    BY <1>3 DEF CustodyInv, JobOK, JobType, VaultRow
  <2> HIDE DEF row, new
  <2> QED BY <2>1, <2>2, <2>3, <2>4 DEF VaultWritten
<1> QED BY <1>4, <1>5

\* Writing a vault's row leaves the other rows, and the items.
LEMMA RowsOfPutVault ==
  ASSUME NEW db, Good(db), NEW v \in Vault, NEW row \in VaultRow
  PROVE  LET new == [db EXCEPT !.vaults[v] = row] IN
         /\ new.items = db.items /\ new.vaults[v] = row
         /\ Rows(new.vaults) = Rows(db.vaults) \cup {v}
         /\ \A w \in Rows(db.vaults) : w # v => new.vaults[w] = db.vaults[w]
<1>1. db \in DbType /\ db.vaults \in [Vault -> VaultRow \cup {None}] BY DEF Good, DbType
<1> DEFINE new == [db EXCEPT !.vaults[v] = row]
<1>2. new.items = db.items /\ new.vaults = [db.vaults EXCEPT ![v] = row]
  BY <1>1 DEF DbType
<1>3. row # None BY CustodyAssumption
<1> HIDE DEF new
<1>4. new.vaults[v] = row /\ \A w \in Rows(db.vaults) : w # v => new.vaults[w] = db.vaults[w]
  BY <1>1, <1>2 DEF Rows
<1>5. Rows(new.vaults) = Rows(db.vaults) \cup {v} BY <1>1, <1>2, <1>3 DEF Rows
<1> QED BY <1>2, <1>4, <1>5 DEF new

\* Writing an item's row leaves the other rows, and the vaults.
LEMMA RowsOfPutItem ==
  ASSUME NEW db, Good(db), NEW i \in Item, NEW row \in ItemRow
  PROVE  LET new == [db EXCEPT !.items[i] = row] IN
         /\ new.vaults = db.vaults /\ new.items[i] = row
         /\ Rows(new.items) = Rows(db.items) \cup {i}
         /\ \A j \in Rows(db.items) : j # i => new.items[j] = db.items[j]
<1>1. db \in DbType /\ db.items \in [Item -> ItemRow \cup {None}] BY DEF Good, DbType
<1> DEFINE new == [db EXCEPT !.items[i] = row]
<1>2. new.vaults = db.vaults /\ new.items = [db.items EXCEPT ![i] = row]
  BY <1>1 DEF DbType
<1>3. row # None BY CustodyAssumption
<1> HIDE DEF new
<1>4. new.items[i] = row /\ \A j \in Rows(db.items) : j # i => new.items[j] = db.items[j]
  BY <1>1, <1>2 DEF Rows
<1>5. Rows(new.items) = Rows(db.items) \cup {i} BY <1>1, <1>2, <1>3 DEF Rows
<1> QED BY <1>2, <1>4, <1>5 DEF new

\* create_vault, the UPDATE or INSERT: its row has the source in all versions.
LEMMA VaultWrittenKeeps ==
  ASSUME CustodyInv, NEW t \in Thread, VaultWritten(t)
  PROVE  /\ CustodyInv' /\ Grow(Daemon) /\ IdsStay
         /\ \E v \in Vault, s \in Source \cup {None} :
              /\ s = job[t].source /\ pc'[t] = "written" /\ job'[t].old = v
              /\ v \in Rows(Db(t)'.vaults) /\ Db(t)'.vaults[v].source = s
              /\ VaultIs(v, s)'
<1>1. /\ Good(Db(t)) /\ Home[t] \in Daemon /\ ConnInv /\ Db(t) = View(Home[t])
  BY ViewGood, CustodyAssumption DEF CustodyInv, Db
<1>2. PICK v \in Vault, row \in VaultRow :
        /\ row.source = job[t].source
        /\ \/ /\ Db(t).vaults[v] = None /\ v \notin IdsInUse
              /\ ~Taken(Db(t).vaults, row.source)
           \/ Db(t).vaults[v] # None /\ Db(t).vaults[v].source = row.source
        /\ Executed(t, [Db(t) EXCEPT !.vaults[v] = row], v)
  BY DEF VaultWritten
<1> DEFINE db == [Db(t) EXCEPT !.vaults[v] = row]
<1>3. Good(db) /\ Extends(Db(t), db) BY <1>1, <1>2, PutVault
<1>4. /\ db.items = Db(t).items /\ db.vaults[v] = row
      /\ Rows(db.vaults) = Rows(Db(t).vaults) \cup {v}
      /\ \A w \in Rows(Db(t).vaults) : w # v => db.vaults[w] = Db(t).vaults[w]
  BY <1>1, RowsOfPutVault
<1>5. Db(t).vaults[v] # None => v \in Rows(Db(t).vaults)
  BY <1>1 DEF Good, DbType, Rows
<1>6. Executed(t, db, v) BY <1>2
<1> HIDE DEF db
<1>7. Execute(Home[t], db) BY <1>6 DEF Executed
<1>8. IdsStay BY <1>1, <1>2, <1>4, <1>5, <1>7, ExecuteDraws
<1>9. CustodyInv' /\ Grow(Daemon) BY <1>3, <1>6, <1>8, ExecutedKeeps
<1>10. /\ pc'[t] = "written" /\ job'[t] = [NoJob EXCEPT !.old = v]
       /\ [NoJob EXCEPT !.old = v].old = v
  BY <1>6 DEF Executed, Goto, CustodyInv, HandlerTyped, NoJob
<1>11. Db(t)' = db BY <1>1, <1>3, <1>7, ExecuteKeeps DEF Db
<1>12. PICK s \in Source \cup {None} : s = row.source BY DEF VaultRow
<1>13. VaultIs(v, s)'
  <2>1. Versions' \subseteq Versions \cup {db} BY <1>1, <1>7, ExecuteMoves
  <2>2. \A a \in Versions : v \in Rows(a.vaults) => a.vaults[v].source = s
    <3>1. CASE v \notin IdsInUse BY <3>1, InUse
    <3>2. CASE Db(t).vaults[v] # None /\ Db(t).vaults[v].source = row.source
      BY <1>5, <1>12, <3>2, SeenIs DEF VaultIs
    <3> QED BY <1>2, <3>1, <3>2
  <2> QED BY <1>4, <1>12, <2>1, <2>2 DEF VaultIs
<1> QED BY <1>2, <1>4, <1>8, <1>9, <1>10, <1>11, <1>12, <1>13

\* find_vault finds vaults that are there.
LEMMA FindVaultRows ==
  ASSUME NEW db, NEW ref
  PROVE  FindVault(db, ref) \subseteq Rows(db.vaults)
BY DEF FindVault, Named

\* put_item, the reads of the vault and of the item by source.
LEMMA ItemLookKeeps ==
  ASSUME CustodyInv, NEW t \in Thread, NEW ref, NEW s \in Source \cup {None},
         NEW b \in Body, ItemLook(t, ref, s, b)
  PROVE  /\ CustodyInv' /\ Grow(Daemon) /\ IdsStay
         /\ pc'[t] = "item" /\ job'[t].old # None => job'[t].old \in Rows(Db(t)'.items)
<1> DEFINE vs == FindVault(Db(t), ref)
           of == IF s = None THEN {} ELSE From(Db(t).items, s)
           old == The(of)
           read == IF old = None THEN None ELSE WasRead(Db(t).items[old])
           j == [name |-> None, vault |-> The(vs), source |-> s, body |-> b,
                 old |-> old, req |-> None, row |-> read]
<1>1. /\ ConnInv' /\ Grow(Daemon) /\ IdsStay /\ Db(t)' = Db(t) /\ Good(Db(t))
      /\ \A i, c : ItemIs(i, c) => ItemIs(i, c)'
      /\ undone' \subseteq Importer
  BY LookKeeps DEF ItemLook, CustodyInv, HandlerTyped
<1>2. CASE Cardinality(vs) # 1 /\ Answer(t, Error)
  <2>1. CustodyInv' BY <1>1, <1>2, AnswerKeeps
  <2>2. pc'[t] = "idle" BY <1>2 DEF Answer, Goto, CustodyInv, HandlerTyped
  <2> QED BY <1>1, <2>1, <2>2
<1>3. CASE Cardinality(vs) = 1 /\ Goto(t, "item", j) /\ Reply(t, None)
  <2>1. vs # {} BY <1>3, FS_EmptySet
  <2>2. The(vs) \in Vault
    BY <1>1, <2>1, TheIn, FindVaultRows DEF Good, DbType, Rows
  <2>3. old # None =>
          /\ old \in Rows(Db(t).items) /\ old \in Item /\ ItemIs(old, s)
          /\ read \in ReadType /\ read.under = read.vault
    <3>1. SUFFICES ASSUME old # None
                   PROVE  /\ old \in Rows(Db(t).items) /\ old \in Item /\ ItemIs(old, s)
                          /\ read \in ReadType /\ read.under = read.vault
      OBVIOUS
    <3>2. old \in From(Db(t).items, s) BY <3>1, TheIn DEF The
    <3>3. old \in Rows(Db(t).items) /\ Db(t).items[old].source = s BY <3>2, FromRows
    <3>4. old \in Item /\ Db(t).items[old] \in ItemRow BY <1>1, <3>3 DEF Good, DbType, Rows
    <3>5. Db(t).items[old].under = Db(t).items[old].vault BY <1>1, <3>3 DEF Good
    <3>6. read = WasRead(Db(t).items[old]) BY <3>1
    <3>7. ItemIs(old, s) BY <3>3, SeenIs
    <3> HIDE DEF of, old, read
    <3> QED BY <3>3, <3>4, <3>5, <3>6, <3>7 DEF WasRead, ReadType, ItemRow
  <2>4. old = None => read = None OBVIOUS
  <2> HIDE DEF vs, of, old, read
  <2>5. old \in Item \cup {None} /\ read \in ReadType \cup {None} BY <2>3, <2>4
  <2>6. j \in JobType BY <2>2, <2>5 DEF JobType
  <2>7. j.vault = The(vs) /\ j.source = s /\ j.body = b /\ j.old = old /\ j.row = read
    OBVIOUS
  <2> HIDE DEF j
  <2>8. pc'[t] = "item" /\ job'[t] = j
    BY <1>3 DEF Goto, CustodyInv, HandlerTyped
  <2>9. PICK o : o = old OBVIOUS
  <2>10. job'[t].old # None => ItemIs(job[t].old, job[t].source)'
    <3>1. job'[t].old = o /\ job'[t].source = s BY <2>7, <2>8, <2>9
    <3>2. o # None => ItemIs(o, s)' BY <1>1, <2>3, <2>9
    <3> QED BY <3>1, <3>2 DEF ItemIs
  <2>11. JobOK(t)' BY <2>2, <2>3, <2>6, <2>7, <2>8, <2>10 DEF JobOK
  <2>12. reply' \in [Thread -> Vault \cup Item \cup {None, Error}]
    BY <1>3 DEF Reply, CustodyInv, HandlerTyped
  <2>13. CustodyInv' BY <1>1, <1>3, <2>6, <2>11, <2>12, OthersKept DEF PC
  <2> QED BY <1>1, <2>3, <2>7, <2>8, <2>13
<1> QED BY <1>2, <1>3 DEF ItemLook

\* What put_item seals opens, with a key and a vault that belong together.
LEMMA SealedOpens ==
  ASSUME CustodyInv, NEW t \in Thread, pc[t] = "item", NEW k \in Key,
         NEW u \in Vault, u = job[t].vault
  PROVE  /\ Sealed(t, k, u) \in ItemRow
         /\ Sealed(t, k, u).under = Sealed(t, k, u).vault
         /\ Sealed(t, k, u).with = Sealed(t, k, u).key
         /\ Sealed(t, k, u).source = job[t].source
         /\ Sealed(t, k, u).vault = job[t].vault
         /\ Sealed(t, k, u).body = job[t].body
BY DEF CustodyInv, JobOK, JobType, Sealed, ItemRow

\* random_key draws a key.
LEMMA FreshKeyTyped == FreshKey # None => FreshKey \in Key
BY TheIn DEF FreshKey, The

\* put_item writes one row, of the vault and the payload it was called with, or fails.
ItemWritten(t) ==
  \E i \in Item, row \in ItemRow :
    /\ row.source = job[t].source /\ row.vault = job[t].vault /\ row.body = job[t].body
    /\ row.under = row.vault /\ row.with = row.key /\ row.vault \in Rows(Db(t).vaults)
    /\ \/ Db(t).items[i] = None /\ i \notin IdsInUse /\ ~Taken(Db(t).items, row.source)
       \/ Db(t).items[i] # None /\ Db(t).items[i].source = row.source
    /\ Executed(t, [Db(t) EXCEPT !.items[i] = row], i)

\* put_item writes a row that is unique and opens, finds none to update, or raises.
LEMMA ItemWrites ==
  ASSUME CustodyInv, NEW t \in Thread, ItemUpdate(t) \/ ItemInsert(t)
  PROVE  Refused(t) \/ Missed(t) \/ ItemWritten(t)
<1> DEFINE j == job[t]
<1>1. Good(Db(t)) BY ViewGood, CustodyAssumption DEF CustodyInv, Db
<1>2. Db(t) \in DbType /\ Db(t).items \in [Item -> ItemRow \cup {None}]
  BY <1>1 DEF Good, DbType
<1>3. pc[t] = "item" /\ j.vault \in Vault
  BY DEF ItemUpdate, ItemInsert, CustodyInv, JobOK
<1>4. CASE ItemUpdate(t) /\ ~Refused(t)
  <2> DEFINE row == Resealed(t)
             db == [Db(t) EXCEPT !.items = Updated(@, j.old, row)]
  <2>1. /\ j.old # None /\ row.key # None /\ ~(Found(t) /\ Dangling(t))
        /\ Executed(t, db, j.old)
    BY <1>4 DEF ItemUpdate
  <2>2. /\ j.old \in Item /\ ItemIs(j.old, j.source)
        /\ j.row \in ReadType /\ j.row.under = j.row.vault
    BY <1>3, <2>1 DEF CustodyInv, JobOK
  <2>3. CASE Db(t).items[j.old] = None
    <3>1. db = Db(t) BY <1>2, <2>3 DEF Updated, DbType
    <3>2. j.old \notin Rows(Db(t).items) BY <2>3 DEF Rows
    <3> QED BY <1>3, <2>1, <2>2, <3>1, <3>2 DEF Missed
  <2>4. CASE Db(t).items[j.old] # None
    <3>1. j.old \in Rows(Db(t).items) BY <1>2, <2>2, <2>4 DEF Rows
    <3>2. Db(t).items[j.old].source = j.source
      BY <2>2, <3>1, CustodyAssumption DEF ItemIs, Versions, Db
    <3>3. j.vault \in Rows(Db(t).vaults) BY <2>1, <3>1 DEF Found, Dangling
    <3>4. /\ row \in ItemRow /\ row.under = row.vault /\ row.with = row.key
          /\ row.source = j.source /\ row.vault = j.vault /\ row.body = j.body
      <4>1. CASE j.row.vault # j.vault
        <5>1. row = Sealed(t, FreshKey, j.vault) BY <4>1 DEF Resealed
        <5>2. Sealed(t, FreshKey, j.vault).key = FreshKey BY DEF Sealed
        <5> HIDE DEF row
        <5> QED BY <1>3, <2>1, <5>1, <5>2, FreshKeyTyped, SealedOpens
      <4>2. CASE j.row.vault = j.vault
        <5>1. row = Sealed(t, j.row.key, j.row.under) BY <4>2 DEF Resealed
        <5> HIDE DEF row
        <5> QED BY <1>3, <2>2, <4>2, <5>1, SealedOpens DEF ReadType
      <4> QED BY <4>1, <4>2
    <3>5. db = [Db(t) EXCEPT !.items[j.old] = row]
      BY <2>4 DEF Updated
    <3> HIDE DEF row, db
    <3> QED BY <2>1, <2>2, <2>4, <3>2, <3>3, <3>4, <3>5 DEF ItemWritten
  <2> QED BY <2>3, <2>4
<1>5. CASE ItemInsert(t) /\ ~Refused(t)
  <2> DEFINE new == NewId(Db(t).items)
             row == Sealed(t, FreshKey, j.vault)
  <2>1. /\ ~Taken(Db(t).items, j.source) /\ ~Dangling(t) /\ FreshKey # None
        /\ new # None /\ Executed(t, [Db(t) EXCEPT !.items[new] = row], new)
    BY <1>5 DEF ItemInsert
  <2>2. new \in Item /\ new \notin IdsInUse BY <1>2, <2>1, NewIdIs
  <2>3. Db(t).items[new] = None
    <3>1. Rows(Db(t).items) \subseteq IdsInUse
      BY InUse, CustodyAssumption DEF Versions, Db
    <3> QED BY <1>2, <2>2, <3>1 DEF Rows
  <2>4. /\ row \in ItemRow /\ row.under = row.vault /\ row.with = row.key
        /\ row.source = j.source /\ row.vault = j.vault /\ row.body = j.body
    BY <1>3, <2>1, FreshKeyTyped, SealedOpens
  <2>5. j.vault \in Rows(Db(t).vaults) BY <2>1 DEF Dangling
  <2> HIDE DEF row, new
  <2> QED BY <2>1, <2>2, <2>3, <2>4, <2>5 DEF ItemWritten
<1> QED BY <1>4, <1>5

\* put_item, the UPDATE or INSERT.
LEMMA ItemWrittenKeeps ==
  ASSUME CustodyInv, NEW t \in Thread, ItemWritten(t)
  PROVE  /\ CustodyInv' /\ Grow(Daemon) /\ IdsStay
         /\ \E i \in Item :
              /\ pc'[t] = "written" /\ job'[t].old = i
              /\ i \in Rows(Db(t)'.items) /\ Db(t)'.items[i].source = job[t].source
<1>1. /\ Good(Db(t)) /\ Home[t] \in Daemon /\ ConnInv /\ Db(t) = View(Home[t])
  BY ViewGood, CustodyAssumption DEF CustodyInv, Db
<1>2. PICK i \in Item, row \in ItemRow :
        /\ row.source = job[t].source /\ row.under = row.vault /\ row.with = row.key
        /\ \/ /\ Db(t).items[i] = None /\ i \notin IdsInUse
              /\ ~Taken(Db(t).items, row.source)
           \/ Db(t).items[i] # None /\ Db(t).items[i].source = row.source
        /\ Executed(t, [Db(t) EXCEPT !.items[i] = row], i)
  BY DEF ItemWritten
<1> DEFINE db == [Db(t) EXCEPT !.items[i] = row]
<1>3. Good(db) /\ Extends(Db(t), db) BY <1>1, <1>2, PutItem
<1>4. /\ db.vaults = Db(t).vaults /\ db.items[i] = row
      /\ Rows(db.items) = Rows(Db(t).items) \cup {i}
      /\ \A k \in Rows(Db(t).items) : k # i => db.items[k] = Db(t).items[k]
  BY <1>1, RowsOfPutItem
<1>5. Db(t).items[i] # None => i \in Rows(Db(t).items)
  BY <1>1 DEF Good, DbType, Rows
<1>6. Executed(t, db, i) BY <1>2
<1> HIDE DEF db
<1>7. Execute(Home[t], db) BY <1>6 DEF Executed
<1>8. IdsStay BY <1>1, <1>2, <1>4, <1>5, <1>7, ExecuteDraws
<1>9. CustodyInv' /\ Grow(Daemon) BY <1>3, <1>6, <1>8, ExecutedKeeps
<1>10. /\ pc'[t] = "written" /\ job'[t] = [NoJob EXCEPT !.old = i]
       /\ [NoJob EXCEPT !.old = i].old = i
  BY <1>6 DEF Executed, Goto, CustodyInv, HandlerTyped, NoJob
<1>11. Db(t)' = db BY <1>1, <1>3, <1>7, ExecuteKeeps DEF Db
<1> QED BY <1>2, <1>4, <1>8, <1>9, <1>10, <1>11

\* A review, the SELECT of its request.
LEMMA ReviewLookKeeps ==
  ASSUME CustodyInv, NEW t \in Thread, ReviewLook(t)
  PROVE  CustodyInv' /\ Grow(Daemon) /\ IdsStay
<1>1. /\ ConnInv' /\ Grow(Daemon) /\ IdsStay /\ Good(Db(t)) /\ undone' \subseteq Importer
  BY LookKeeps DEF ReviewLook, CustodyInv, HandlerTyped
<1>2. PICK r \in Db(t).pending : Goto(t, "review", [NoJob EXCEPT !.req = r])
  BY DEF ReviewLook
<1>3. r \in Request BY <1>1 DEF Good, DbType
<1> DEFINE j == [NoJob EXCEPT !.req = r]
<1>4. j \in JobType BY <1>3 DEF NoJob, JobType
<1>5. Goto(t, "review", j) BY <1>2
<1> HIDE DEF j
<1>6. pc'[t] = "review" /\ job'[t] = j
  BY <1>5 DEF Goto, CustodyInv, HandlerTyped
<1>7. JobOK(t)' BY <1>4, <1>6 DEF JobOK
<1>8. reply' = reply BY DEF ReviewLook
<1> QED BY <1>1, <1>4, <1>5, <1>7, <1>8, OthersKept DEF CustodyInv, HandlerTyped, PC

\* The UPDATE of a review leaves vaults and items.
LEMMA ReviewWriteQuiet ==
  ASSUME CustodyInv, NEW t \in Thread, ReviewWrite(t)
  PROVE  Quiet(t)
<1>1. Good(Db(t)) BY ViewGood, CustodyAssumption DEF CustodyInv, Db
<1> DEFINE db == [Db(t) EXCEPT !.pending = @ \ {job[t].req}]
<1>2. Db(t) \in DbType BY <1>1 DEF Good
<1>3. db.vaults = Db(t).vaults /\ db.items = Db(t).items /\ db \in DbType
  BY <1>2 DEF DbType
<1>4. Execute(Home[t], db) BY DEF ReviewWrite
<1> HIDE DEF db
<1> QED BY <1>3, <1>4 DEF Quiet

\* A review, the UPDATE.
LEMMA ReviewWriteKeeps ==
  ASSUME CustodyInv, NEW t \in Thread, ReviewWrite(t)
  PROVE  CustodyInv' /\ Grow(Daemon) /\ IdsStay
<1>1. ConnInv' /\ Grow(Daemon) /\ IdsStay BY ReviewWriteQuiet, QuietKeeps
<1>2. /\ Goto(t, "written", job[t]) /\ reply' = reply /\ undone' \subseteq Importer
      /\ job[t] \in JobType /\ "written" \in PC
  BY DEF ReviewWrite, CustodyInv, HandlerTyped, JobOK, PC
<1>3. pc'[t] = "written" /\ job'[t] = job[t]
  BY <1>2 DEF Goto, CustodyInv, HandlerTyped
<1>4. JobOK(t)' BY <1>2, <1>3 DEF JobOK
<1> QED BY <1>1, <1>2, <1>4, OthersKept DEF CustodyInv, HandlerTyped

\* The rollback of a review that lost: it takes away what its connection has
\* written, if it has.
LEMMA ReviewLostKeeps ==
  ASSUME CustodyInv, NEW t \in Thread, ReviewLost(t)
  PROVE  /\ CustodyInv' /\ IdsStay /\ Grow(Daemon \ {Home[t]}) /\ Extends(disk, disk')
         /\ conn[Home[t]].mode # "write" => Grow(Daemon)
<1>1. /\ Home[t] \in Daemon /\ ConnInv /\ CanWrite(Home[t]) /\ Rollback(Home[t])
  BY CustodyAssumption DEF ReviewLost, CustodyInv
<1>2. ConnInv' /\ Grow(Daemon \ {Home[t]}) BY <1>1, RollbackKeeps
<1>3. IdsStay BY <1>1, RollbackMoves, NoneDrawn DEF Moves
<1>4. Answer(t, Error) /\ undone' \subseteq Importer
  BY DEF ReviewLost, CustodyInv, HandlerTyped
<1>5. CustodyInv' BY <1>2, <1>3, <1>4, AnswerKeeps
<1>6. ASSUME conn[Home[t]].mode # "write" PROVE Grow(Daemon)
  <2>1. View(Home[t]) = disk BY <1>1, <1>6 DEF CanWrite, ConnInv, View, Mode
  <2>2. View(Home[t])' = disk /\ disk' = disk
    BY <1>1 DEF Rollback, View, Closed, ConnInv
  <2> QED BY <1>2, <2>1, <2>2, ExtendsSelf DEF Grow
<1> QED BY <1>2, <1>3, <1>5, <1>6 DEF Grow

\* The commit of any of them: what the handler has seen is committed.
LEMMA CommitStepKeeps ==
  ASSUME CustodyInv, NEW t \in Thread, CommitStep(t)
  PROVE  CustodyInv' /\ Grow(Daemon) /\ IdsStay /\ Extends(Db(t), disk')
<1>1. Home[t] \in Daemon BY CustodyAssumption
<1>2. ConnInv' /\ Grow(Daemon) /\ Extends(Db(t), disk')
  BY <1>1, CommitKeeps DEF CommitStep, CustodyInv, Db
<1>3. IdsStay BY <1>1, CommitMoves, NoneDrawn DEF CommitStep, CustodyInv, Moves
<1>4. Goto(t, "committed", job[t]) /\ "committed" \in PC /\ job[t] \in JobType
  BY DEF CommitStep, PC, CustodyInv, JobOK
<1>5. pc'[t] = "committed" /\ job'[t] = job[t]
  BY <1>4 DEF Goto, CustodyInv, HandlerTyped
<1>6. JobOK(t)' BY <1>4, <1>5 DEF JobOK
<1>7. reply' = reply /\ undone' = undone BY DEF CommitStep
<1> QED BY <1>2, <1>3, <1>4, <1>6, <1>7, OthersKept DEF CustodyInv, HandlerTyped

\* A step that leaves the database and the connections as they are.
LEMMA QuietConn ==
  ASSUME CustodyInv, UNCHANGED <<disk, conn>>
  PROVE  ConnInv' /\ Grow(Daemon) /\ IdsStay /\ \A d \in Daemon : View(d)' = View(d)
<1>1. \A d \in Daemon : View(d)' = View(d) BY DEF View
<1>2. IdsStay BY QuietMoves, NoneDrawn
<1> QED BY <1>1, <1>2, ExtendsSelf DEF CustodyInv, ConnInv, Good, Grow

\* The reply of any of them.
LEMMA ReplyStepKeeps ==
  ASSUME CustodyInv, NEW t \in Thread, ReplyStep(t)
  PROVE  CustodyInv' /\ Grow(Daemon) /\ IdsStay
<1>1. job[t].old \in Vault \cup Item \cup {None}
  BY DEF CustodyInv, JobOK, JobType
<1>2. Answer(t, job[t].old) /\ UNCHANGED <<disk, conn>> /\ undone' \subseteq Importer
  BY DEF ReplyStep, CustodyInv, HandlerTyped
<1> QED BY <1>1, <1>2, QuietConn, AnswerKeeps

\* An INSERT or UPDATE that raises "database is locked" ends the call.
LEMMA LockedKeeps ==
  ASSUME CustodyInv, NEW t \in Thread, Locked(t)
  PROVE  CustodyInv' /\ Grow(Daemon) /\ IdsStay
<1>1. ConnInv' /\ Grow(Daemon)
  BY ExecuteLockedKeeps, CustodyAssumption DEF Locked, CustodyInv
<1>2. IdsStay
  BY LockedMoves, NoneDrawn, CustodyAssumption DEF Locked, CustodyInv, Moves
<1>3. Answer(t, Error) /\ undone' \subseteq Importer
  BY DEF Locked, CustodyInv, HandlerTyped
<1> QED BY <1>1, <1>2, <1>3, AnswerKeeps

\* No step of a handler breaks the invariant; only a review that lost takes rows away.
LEMMA HandlerKeeps ==
  ASSUME CustodyInv, NEW t \in Thread, Handler(t)
  PROVE  /\ CustodyInv' /\ IdsStay /\ Extends(disk, disk')
         /\ Grow(Daemon) \/ ReviewLost(t)
<1>1. CASE AdminCall(t)
  <2>1. CASE \E c \in Creates[t] : VaultLook(t, c.name, c.source)
    <3>1. PICK c \in Creates[t] : VaultLook(t, c.name, c.source) BY <2>1
    <3>2. c.name \in Name /\ c.source \in Source \cup {None} BY CustodyAssumption
    <3> QED BY <3>1, <3>2, VaultLookKeeps DEF Grow
  <2>2. CASE \E p \in Puts[t] : ItemLook(t, p.ref, p.source, p.body)
    <3>1. PICK p \in Puts[t] : ItemLook(t, p.ref, p.source, p.body) BY <2>2
    <3>2. p.source \in Source \cup {None} /\ p.body \in Body BY CustodyAssumption
    <3> QED BY <3>1, <3>2, ItemLookKeeps DEF Grow
  <2> QED BY <1>1, <2>1, <2>2 DEF AdminCall
<1>2. CASE VaultUpdate(t) \/ VaultInsert(t)
  BY <1>2, VaultWrites, VaultWrittenKeeps, RefusedKeeps, MissedKeeps DEF Grow
<1>3. CASE ItemUpdate(t) \/ ItemInsert(t)
  BY <1>3, ItemWrites, ItemWrittenKeeps, RefusedKeeps, MissedKeeps DEF Grow
<1>4. CASE ReviewLook(t) \/ ReviewWrite(t)
  BY <1>4, ReviewLookKeeps, ReviewWriteKeeps DEF Grow
<1>5. CASE ReviewLost(t) BY <1>5, ReviewLostKeeps
<1>6. CASE CommitStep(t) \/ ReplyStep(t) \/ Locked(t)
  BY <1>6, CommitStepKeeps, ReplyStepKeeps, LockedKeeps DEF Grow
<1> QED BY <1>1, <1>2, <1>3, <1>4, <1>5, <1>6 DEF Handler

\* A kill takes the calls of its daemon with it, and what they had not committed.
LEMMA CrashKeeps ==
  ASSUME CustodyInv, NEW d \in Daemon, Crash(d)
  PROVE  CustodyInv' /\ IdsStay /\ Grow(Daemon \ {d})
<1>1. ConnInv' /\ Grow(Daemon \ {d})
  BY RollbackKeeps DEF Crash, CustodyInv
<1>2. IdsStay BY RollbackMoves, NoneDrawn DEF Crash, CustodyInv, Moves
<1>3. HandlerTyped' BY DEF Crash, CustodyInv, HandlerTyped, PC
<1>4. ASSUME NEW t \in Thread PROVE JobOK(t)'
  <2>1. CASE Home[t] = d /\ pc[t] # "idle"
    <3>1. pc'[t] = "idle" /\ job'[t] = NoJob BY <2>1 DEF Crash
    <3> QED BY <3>1, NoJobTyped DEF JobOK
  <2>2. CASE ~(Home[t] = d /\ pc[t] # "idle")
    <3>1. pc'[t] = pc[t] /\ job'[t] = job[t] BY <2>2 DEF Crash
    <3> QED BY <1>2, <3>1, JobKept
  <2> QED BY <2>1, <2>2
<1> QED BY <1>1, <1>2, <1>3, <1>4 DEF CustodyInv

\* No step of a daemon, a kill included, breaks the invariant.
LEMMA CustodyStep == CustodyInv /\ CustodyNext => CustodyInv' /\ IdsStay
BY HandlerKeeps, CrashKeeps DEF CustodyNext

\* The steps of a client between its calls touch no handler.
LEMMA ClientKeeps ==
  ASSUME CustodyInv, UNCHANGED <<disk, conn, pc, job>>, undone' \subseteq Importer,
         reply' \in [Thread -> Vault \cup Item \cup {None, Error}]
  PROVE  CustodyInv' /\ IdsStay
<1>1. ConnInv' /\ IdsStay BY QuietConn
<1>2. \A t \in Thread : JobOK(t)' BY <1>1, JobKept
<1> QED BY <1>1, <1>2 DEF CustodyInv, HandlerTyped

-----------------------------------------------------------------------------
(* The import *)

ImportTyped ==
  /\ at \in [Importer -> 1 .. Len(Export) + 1]
  /\ into \in [Importer -> Vault \cup {None}]
  /\ edition \in [Importer -> Edition] /\ once \in BOOLEAN

\* What an entry's call returns is, for a vault, the id of one with its source, if of any.
Names(id, e) == e.op = "vault" => id \in Vault /\ VaultIs(id, e.source)

\* The row of an entry is there, and it is the one with this id.
Stored(db, id, e) ==
  IF e.op = "vault" THEN id \in Rows(db.vaults) /\ db.vaults[id].source = e.source
  ELSE /\ id \in Rows(db.items) /\ e.live
       /\ e.source # None => db.items[id].source = e.source

Imported(db, e) ==
  /\ e.op = "vault" => \E v \in Rows(db.vaults) : db.vaults[v].source = e.source
  /\ e.op = "item" /\ e.live /\ e.source # None =>
       \E i \in Rows(db.items) : db.items[i].source = e.source

\* The row that the importer's call has found or written, and the ones of all entries
\* before, are there.
Present(t) ==
  LET e == Entry(t) IN
  /\ pc[t] = "vault" /\ job[t].old # None => job[t].old \in Rows(Db(t).vaults)
  /\ pc[t] = "item" /\ job[t].old # None => job[t].old \in Rows(Db(t).items)
  /\ pc[t] = "written" => Stored(Db(t), job[t].old, e)
  /\ pc[t] = "committed" => Stored(disk, job[t].old, e)
  /\ reply[t] \notin {None, Error} => Stored(disk, reply[t], e)
  /\ \A n \in 1 .. at[t] - 1 : Imported(disk, Export[n])

\* An importer's call is that of the entry it is at; what it has put is there, unless
\* a review has undone it.
Position(t) ==
  LET e == Entry(t) IN
  /\ pc[t] # "review"
  /\ pc[t] # "idle" \/ reply[t] \notin {None, Error} => at[t] <= Len(Export)
  /\ pc[t] # "idle" => reply[t] = None
  /\ pc[t] = "vault" => e.op = "vault" /\ job[t].source = e.source
  /\ pc[t] = "item" =>
       /\ e.op = "item" /\ e.live
       /\ job[t].source = e.source \/ (e.source = None /\ job[t].source \in Uuid)
  /\ pc[t] \in {"written", "committed"} => Names(job[t].old, e)
  /\ reply[t] \notin {None, Error} => Names(reply[t], e)
  /\ t \notin undone => Present(t)

Finished == once => \A n \in DOMAIN Export : Imported(disk, Export[n])

ImportInv ==
  CustodyInv /\ ImportTyped /\ Finished /\ \A t \in Importer : Position(t)

\* An entry that the importer is at is one of the export.
LEMMA EntryTyped ==
  ASSUME ImportInv, NEW t \in Importer, at[t] <= Len(Export)
  PROVE  /\ Entry(t) \in EntryType /\ Len(Export) \in Nat /\ at[t] \in 1 .. Len(Export)
         /\ Entry(t).op \in {"vault", "item"}
         /\ Entry(t).op = "vault" => /\ Entry(t).name \in Name
                                     /\ Entry(t).source \in Source
                                     /\ Entry(t).source # None
         /\ Entry(t).op = "item" => /\ Entry(t).source \in Source \cup {None}
                                    /\ Entry(t).live \in BOOLEAN
<1>1. Len(Export) \in Nat /\ at[t] \in 1 .. Len(Export)
  BY ImportAssumption DEF ImportInv, ImportTyped
<1>2. Entry(t) \in EntryType
  BY <1>1, ImportAssumption DEF Entry
<1>3. \/ Entry(t) \in [op: {"vault"}, name: Name, source: Source]
      \/ Entry(t) \in [op: {"item"}, source: Source \cup {None}, live: BOOLEAN]
  BY <1>2 DEF EntryType
<1> QED BY <1>1, <1>2, <1>3, CustodyAssumption

\* A row that stands for an entry of the export stands for it in later versions.
LEMMA StoredStays ==
  ASSUME NEW a, NEW b, NEW id, NEW e, Stored(a, id, e), Extends(a, b)
  PROVE  Stored(b, id, e)
BY DEF Stored, Extends, RowsStay

\* An entry that has been imported stays imported.
LEMMA ImportedStays ==
  ASSUME NEW a, NEW b, NEW e, Imported(a, e), Extends(a, b)
  PROVE  Imported(b, e)
BY DEF Imported, Extends, RowsStay

\* An entry whose row is stored has been imported.
LEMMA StoredImported ==
  ASSUME NEW db, NEW id, NEW e, e.op \in {"vault", "item"}, Stored(db, id, e)
  PROVE  Imported(db, e)
BY DEF Stored, Imported

\* An id that is in use goes on to name what it named.
LEMMA NamesKept ==
  ASSUME IdsStay, NEW id, id \in IdsInUse, NEW e, Names(id, e)
  PROVE  Names(id, e)'
<1>1. PICK s : s = e.source OBVIOUS
<1>2. VaultIs(id, s) => VaultIs(id, s)' BY SameRow
<1> QED BY <1>1, <1>2 DEF Names

\* While others move, an importer stays where it is, and so does what it has put.
LEMMA PositionKept ==
  ASSUME ImportInv, NEW t \in Importer, pc'[t] = pc[t], job'[t] = job[t],
         reply'[t] = reply[t], at'[t] = at[t], Extends(disk, disk'), IdsStay,
         t \notin undone' =>
           /\ t \notin undone
           /\ pc[t] \in {"vault", "item", "written"} => Extends(Db(t), Db(t)')
  PROVE  Position(t)'
<1>1. Entry(t)' = Entry(t) BY DEF Entry
<1>2. PICK e : e = Entry(t) OBVIOUS
<1>3. Position(t) BY DEF ImportInv
<1>4. PICK old : old = job[t].old OBVIOUS
<1>5. PICK r : r = reply[t] OBVIOUS
<1>6. old \in IdsInUse /\ r \in IdsInUse BY <1>4, <1>5, InUse, ImportAssumption
<1>7. pc[t] \in {"written", "committed"} => Names(old, e)'
  BY <1>2, <1>3, <1>4, <1>6, NamesKept DEF Position
<1>8. r \notin {None, Error} => Names(r, e)'
  BY <1>2, <1>3, <1>5, <1>6, NamesKept DEF Position
<1>9. ASSUME t \notin undone' PROVE Present(t)'
  <2>1. Present(t) BY <1>3, <1>9 DEF Position
  <2>2. \A n \in 1 .. at[t] - 1 : Imported(disk', Export[n])
    BY <2>1, ImportedStays DEF Present
  <2>3. pc[t] = "written" => Stored(Db(t)', old, e)
    BY <1>2, <1>4, <1>9, <2>1, StoredStays DEF Present
  <2>4. pc[t] = "committed" => Stored(disk', old, e)
    BY <1>2, <1>4, <2>1, StoredStays DEF Present
  <2>5. r \notin {None, Error} => Stored(disk', r, e)
    BY <1>2, <1>5, <2>1, StoredStays DEF Present
  <2>6. /\ pc[t] = "vault" /\ old # None => old \in Rows(Db(t)'.vaults)
        /\ pc[t] = "item" /\ old # None => old \in Rows(Db(t)'.items)
    BY <1>4, <1>9, <2>1 DEF Present, Extends, RowsStay
  <2> QED BY <1>1, <1>2, <1>4, <1>5, <2>2, <2>3, <2>4, <2>5, <2>6 DEF Present
<1>10. pc[t] \in {"written", "committed"} => Names(job[t].old, Entry(t))'
  BY <1>1, <1>2, <1>4, <1>7 DEF Names, VaultIs
<1>11. r \notin {None, Error} => Names(reply[t], Entry(t))'
  BY <1>1, <1>2, <1>5, <1>8 DEF Names, VaultIs
<1> QED BY <1>1, <1>3, <1>5, <1>9, <1>10, <1>11 DEF Position

\* What a finished import has brought in stays, as committed rows are not taken away.
LEMMA FinishedKept ==
  ASSUME ImportInv, once' = once, Extends(disk, disk')
  PROVE  Finished'
BY ImportedStays DEF ImportInv, Finished

\* A handler's step is one of its own thread alone.
LEMMA HandlerFrame ==
  ASSUME CustodyInv, NEW t \in Thread, Handler(t), NEW u \in Thread, u # t
  PROVE  pc'[u] = pc[u] /\ job'[u] = job[u] /\ reply'[u] = reply[u]
<1>1. ASSUME NEW p, NEW j, Goto(t, p, j) PROVE pc'[u] = pc[u] /\ job'[u] = job[u]
  BY <1>1 DEF Goto, CustodyInv, HandlerTyped
<1>2. ASSUME NEW r, Reply(t, r) PROVE reply'[u] = reply[u]
  BY <1>2 DEF Reply, CustodyInv, HandlerTyped
<1>3. ASSUME NEW r, Answer(t, r)
      PROVE  pc'[u] = pc[u] /\ job'[u] = job[u] /\ reply'[u] = reply[u]
  BY <1>1, <1>2, <1>3 DEF Answer
<1>4. ASSUME NEW db, NEW id, Executed(t, db, id)
      PROVE  pc'[u] = pc[u] /\ job'[u] = job[u] /\ reply'[u] = reply[u]
  BY <1>1, <1>4 DEF Executed
<1>5. CASE AdminCall(t)
  BY <1>1, <1>2, <1>3, <1>5 DEF AdminCall, VaultLook, ItemLook
<1>6. CASE VaultUpdate(t) \/ ItemUpdate(t)
  BY <1>3, <1>4, <1>6 DEF VaultUpdate, ItemUpdate, Refused
<1>7. CASE VaultInsert(t) \/ ItemInsert(t)
  BY <1>3, <1>4, <1>7 DEF VaultInsert, ItemInsert, Refused
<1>8. CASE CommitStep(t) \/ ReviewLook(t) \/ ReviewWrite(t)
  BY <1>1, <1>8 DEF CommitStep, ReviewLook, ReviewWrite
<1>9. CASE ReplyStep(t) \/ Locked(t) \/ ReviewLost(t)
  BY <1>3, <1>9 DEF ReplyStep, Locked, ReviewLost
<1> QED BY <1>5, <1>6, <1>7, <1>8, <1>9 DEF Handler

\* A review that lost is seen by the importers of its daemon whose writes, or what they
\* had read to write it, may have been rolled back; nobody else's handler is.
LEMMA HandlerUndoes ==
  ASSUME CustodyInv, NEW t \in Thread, Handler(t), NEW u \in Importer, u \notin undone'
  PROVE  /\ u \notin undone
         /\ \/ Grow(Daemon)
            \/ Home[u] # Home[t] /\ Grow(Daemon \ {Home[t]})
            \/ pc[u] \notin {"vault", "item", "written"}
<1>1. CASE ReviewLost(t)
  <2>1. /\ Grow(Daemon \ {Home[t]})
        /\ conn[Home[t]].mode # "write" => Grow(Daemon)
    BY <1>1, ReviewLostKeeps
  <2>2. /\ conn[Home[t]].mode # "write" => undone' = undone
        /\ conn[Home[t]].mode = "write" =>
             undone' = undone \cup {w \in Importer :
                         Home[w] = Home[t] /\ pc[w] \in {"vault", "item", "written"}}
    BY <1>1 DEF ReviewLost
  <2> QED BY <2>1, <2>2
<1>2. CASE ~ReviewLost(t)
  <2>1. Grow(Daemon) BY <1>2, HandlerKeeps
  <2>2. undone' = undone
    BY <1>2 DEF Handler, AdminCall, VaultLook, ItemLook, VaultUpdate, VaultInsert,
                ItemUpdate, ItemInsert, Executed, Refused, ReviewLook, ReviewWrite,
                CommitStep, ReplyStep, Locked
  <2> QED BY <2>1, <2>2
<1> QED BY <1>1, <1>2

\* What a thread's own steps leave behind.
LEMMA AnswerGives ==
  ASSUME CustodyInv, NEW t \in Importer, NEW r, Answer(t, r)
  PROVE  pc'[t] = "idle" /\ job'[t] = NoJob /\ reply'[t] = r
BY ImportAssumption DEF Answer, Goto, Reply, CustodyInv, HandlerTyped

\* A handler that has executed a statement knows what it is going to return.
LEMMA ExecutedGives ==
  ASSUME CustodyInv, NEW t \in Thread, NEW db, NEW id, Executed(t, db, id)
  PROVE  /\ pc'[t] = "written" /\ job'[t].old = id
         /\ reply' = reply /\ undone' = undone
<1>1. /\ pc'[t] = "written" /\ job'[t] = [NoJob EXCEPT !.old = id]
      /\ reply' = reply /\ undone' = undone
  BY DEF Executed, Goto, CustodyInv, HandlerTyped
<1>2. [NoJob EXCEPT !.old = id].old = id BY DEF NoJob
<1> QED BY <1>1, <1>2

\* An importer's thread makes no review, and calls what the import calls.
LEMMA ImporterCalls ==
  ASSUME ImportInv, NEW t \in Importer, Handler(t)
  PROVE  \/ VaultUpdate(t) \/ VaultInsert(t) \/ ItemUpdate(t) \/ ItemInsert(t)
         \/ CommitStep(t) \/ ReplyStep(t) \/ Locked(t)
<1>1. ~AdminCall(t) BY ImportAssumption DEF AdminCall
<1>2. ~ReviewLook(t) BY ImportAssumption DEF ReviewLook
<1>3. ~ReviewWrite(t) /\ ~ReviewLost(t)
  BY DEF ReviewWrite, ReviewLost, ImportInv, Position
<1> QED BY <1>1, <1>2, <1>3 DEF Handler

\* The importer's own calls keep its position.
LEMMA ImporterHandler ==
  ASSUME ImportInv, NEW t \in Importer, Handler(t), UNCHANGED <<at, edition, once>>
  PROVE  Position(t)'
<1>1. t \in Thread /\ CustodyInv /\ Position(t)
  BY ImportAssumption DEF ImportInv
<1>2. IdsStay /\ Extends(disk, disk') BY <1>1, HandlerKeeps
<1>3. PICK e : e = Entry(t) OBVIOUS
<1>4. Entry(t)' = e /\ at'[t] = at[t] BY <1>3 DEF Entry
<1>5. /\ t \notin undone' => t \notin undone /\ Present(t)
      /\ t \notin undone' => \A n \in 1 .. at[t] - 1 : Imported(disk', Export[n])
  <2>1. t \notin undone' => t \notin undone /\ Present(t)
    BY <1>1, HandlerUndoes DEF Position
  <2> QED BY <1>2, <2>1, ImportedStays DEF Present
<1>6. ASSUME Answer(t, Error) PROVE Position(t)'
  <2>1. pc'[t] = "idle" /\ reply'[t] = Error BY <1>1, <1>6, AnswerGives
  <2>2. t \notin undone' => Present(t)' BY <1>4, <1>5, <2>1 DEF Present
  <2> QED BY <1>4, <2>1, <2>2 DEF Position
<1>7. ASSUME NEW id, pc'[t] = "written", job'[t].old = id, reply' = reply,
             pc[t] # "idle", Names(id, e)',
             t \notin undone' => Stored(Db(t)', id, e)
      PROVE  Position(t)'
  <2>1. at[t] <= Len(Export) /\ reply[t] = None BY <1>1, <1>7 DEF Position
  <2>2. Names(job[t].old, Entry(t))' BY <1>4, <1>7 DEF Names, VaultIs
  <2>3. t \notin undone' => Present(t)' BY <1>4, <1>5, <1>7, <2>1 DEF Present
  <2> QED BY <1>4, <1>7, <2>1, <2>2, <2>3 DEF Position
<1>8. ASSUME Missed(t), pc[t] \in {"vault", "item"} PROVE Position(t)'
  <2>1. PICK id : id = job[t].old OBVIOUS
  <2>2. pc'[t] = "written" /\ job'[t].old = id /\ reply' = reply
    BY <1>1, <1>8, <2>1, ExecutedGives DEF Missed
  <2>3. id # None BY <1>8, <2>1, CustodyAssumption DEF Missed
  <2>4. t \in undone'
    BY <1>5, <1>8, <2>1, <2>3 DEF Missed, Present
  <2>5. Names(id, e)'
    <3>1. CASE pc[t] = "vault"
      <4>1. PICK s : s = e.source OBVIOUS
      <4>2. id \in Vault /\ VaultIs(id, s)
        BY <1>1, <1>3, <2>1, <2>3, <3>1, <4>1 DEF CustodyInv, JobOK, Position
      <4>3. id \in IdsInUse BY <1>1, <2>1, InUse
      <4>4. VaultIs(id, s)' BY <1>2, <4>2, <4>3, SameRow
      <4> QED BY <4>1, <4>2, <4>4 DEF Names
    <3>2. CASE pc[t] = "item"
      BY <1>1, <1>3, <3>2 DEF Position, Names
    <3> QED BY <1>8, <3>1, <3>2
  <2> QED BY <1>7, <1>8, <2>2, <2>4, <2>5
<1>9. CASE VaultUpdate(t) \/ VaultInsert(t)
  <2>1. pc[t] = "vault" BY <1>9 DEF VaultUpdate, VaultInsert
  <2>2. CASE VaultWritten(t)
    <3>1. reply' = reply BY <2>2 DEF VaultWritten, Executed
    <3>2. PICK v \in Vault, s \in Source \cup {None} :
            /\ s = job[t].source /\ pc'[t] = "written" /\ job'[t].old = v
            /\ v \in Rows(Db(t)'.vaults) /\ Db(t)'.vaults[v].source = s
            /\ VaultIs(v, s)'
      BY <1>1, <2>2, VaultWrittenKeeps
    <3>3. e.op = "vault" /\ e.source = s BY <1>1, <1>3, <2>1, <3>2 DEF Position
    <3>4. Names(v, e)' BY <3>2, <3>3 DEF Names
    <3>5. Stored(Db(t)', v, e) BY <3>2, <3>3 DEF Stored
    <3> QED BY <1>7, <2>1, <3>1, <3>2, <3>4, <3>5
  <2> QED BY <1>1, <1>6, <1>8, <1>9, <2>1, <2>2, VaultWrites DEF Refused
<1>10. CASE ItemUpdate(t) \/ ItemInsert(t)
  <2>1. pc[t] = "item" BY <1>10 DEF ItemUpdate, ItemInsert
  <2>2. CASE ItemWritten(t)
    <3>1. reply' = reply BY <2>2 DEF ItemWritten, Executed
    <3>2. PICK i \in Item :
            /\ pc'[t] = "written" /\ job'[t].old = i
            /\ i \in Rows(Db(t)'.items) /\ Db(t)'.items[i].source = job[t].source
      BY <1>1, <2>2, ItemWrittenKeeps
    <3>3. /\ e.op = "item" /\ e.live
          /\ e.source # None => e.source = job[t].source
      BY <1>1, <1>3, <2>1 DEF Position
    <3>4. Names(i, e)' BY <3>3 DEF Names
    <3>5. Stored(Db(t)', i, e) BY <3>2, <3>3 DEF Stored
    <3> QED BY <1>7, <2>1, <3>1, <3>2, <3>4, <3>5
  <2> QED BY <1>1, <1>6, <1>8, <1>10, <2>1, <2>2, ItemWrites DEF Refused
<1>11. CASE CommitStep(t) \/ ReplyStep(t)
  <2>1. PICK id : id = job[t].old OBVIOUS
  <2>2. pc[t] \in {"written", "committed"} BY <1>11 DEF CommitStep, ReplyStep
  <2>3. id \in IdsInUse /\ Names(id, e)
    BY <1>1, <1>3, <2>1, <2>2, InUse DEF Position
  <2>4. Names(id, e)' BY <1>2, <2>3, NamesKept
  <2>5. at[t] <= Len(Export) /\ reply[t] = None BY <1>1, <2>2 DEF Position
  <2>6. CASE CommitStep(t)
    <3>1. pc[t] = "written" /\ pc'[t] = "committed" /\ job'[t].old = id /\ reply' = reply
      BY <1>1, <2>1, <2>6 DEF CommitStep, Goto, CustodyInv, HandlerTyped
    <3>2. Extends(Db(t), disk') BY <1>1, <2>6, CommitStepKeeps
    <3>3. t \notin undone' => Stored(disk', id, e)
      BY <1>3, <1>5, <2>1, <3>1, <3>2, StoredStays DEF Present
    <3>4. t \notin undone' => Present(t)' BY <1>4, <1>5, <2>5, <3>1, <3>3 DEF Present
    <3>5. Names(job[t].old, Entry(t))' BY <1>4, <2>4, <3>1 DEF Names, VaultIs
    <3> QED BY <1>4, <2>5, <3>1, <3>4, <3>5 DEF Position
  <2>7. CASE ReplyStep(t)
    <3>1. pc[t] = "committed" /\ Answer(t, id) /\ disk' = disk
      BY <2>1, <2>7 DEF ReplyStep
    <3>2. pc'[t] = "idle" /\ reply'[t] = id BY <1>1, <3>1, AnswerGives
    <3>3. t \notin undone' => Stored(disk', id, e)
      BY <1>3, <1>5, <2>1, <3>1 DEF Present
    <3>4. t \notin undone' => Present(t)' BY <1>4, <1>5, <3>2, <3>3 DEF Present
    <3>5. Names(reply[t], Entry(t))' BY <1>4, <2>4, <3>2 DEF Names, VaultIs
    <3> QED BY <1>4, <2>5, <3>2, <3>4, <3>5 DEF Position
  <2> QED BY <1>11, <2>6, <2>7
<1>12. CASE Locked(t) BY <1>6, <1>12 DEF Locked
<1> QED BY <1>9, <1>10, <1>11, <1>12, ImporterCalls

\* A client's step is one of its own.
LEMMA ClientOthers ==
  ASSUME ImportInv, NEW t \in Importer, UNCHANGED <<disk, conn, pc, job>>,
         NEW r, Reply(t, r), NEW u \in Importer, u # t, at'[u] = at[u],
         u \notin undone' => u \notin undone
  PROVE  Position(u)'
<1>1. reply'[u] = reply[u] BY DEF Reply, ImportInv, CustodyInv, HandlerTyped
<1>2. Extends(Db(u), Db(u)') /\ Extends(disk, disk')
  <2>1. Db(u)' = Db(u) BY DEF Db, View
  <2> QED BY <2>1, ExtendsSelf
<1>3. IdsStay BY QuietMoves, NoneDrawn
<1> QED BY <1>1, <1>2, <1>3, PositionKept

\* The position moves on from an entry that is there, or not any more.
LEMMA AdvanceKeeps ==
  ASSUME ImportInv, NEW t \in Importer, Advance(t), at[t] <= Len(Export), disk' = disk,
         pc' = pc, pc[t] = "idle", reply'[t] = None, undone' = undone,
         t \notin undone => Imported(disk, Entry(t))
  PROVE  /\ at' \in [Importer -> 1 .. Len(Export) + 1] /\ once' \in BOOLEAN
         /\ \A u \in Importer : u # t => at'[u] = at[u]
         /\ Position(t)' /\ Finished'
<1>1. Len(Export) \in Nat /\ at[t] \in 1 .. Len(Export) BY EntryTyped
<1>2. at'[t] = at[t] + 1 /\ \A u \in Importer : u # t => at'[u] = at[u]
  BY DEF Advance, ImportInv, ImportTyped
<1>3. at' \in [Importer -> 1 .. Len(Export) + 1]
  BY <1>1 DEF Advance, ImportInv, ImportTyped
<1>4. t \notin undone => \A n \in 1 .. at[t] : Imported(disk, Export[n])
  BY <1>1 DEF ImportInv, Position, Present, Entry
<1>5. t \notin undone' => Present(t)' BY <1>1, <1>2, <1>4 DEF Present
<1>6. Position(t)' BY <1>5 DEF Position
<1>7. once' \in BOOLEAN BY Zenon DEF Advance, ImportInv, ImportTyped
<1>8. Finished'
  <2>1. CASE at[t] = Len(Export) /\ t \notin undone
    <3>1. DOMAIN Export = 1 .. Len(Export) BY ImportAssumption
    <3> QED BY <1>4, <2>1, <3>1 DEF Finished
  <2>2. CASE ~(at[t] = Len(Export) /\ t \notin undone)
    <3>1. once' => once BY <2>2 DEF Advance
    <3> QED BY <3>1 DEF Finished, ImportInv
  <2> QED BY <2>1, <2>2
<1> QED BY <1>2, <1>3, <1>6, <1>7, <1>8

\* import_export passes over an item in the trash.
LEMMA SkipTrashedKeeps ==
  ASSUME ImportInv, NEW t \in Importer, SkipTrashed(t)
  PROVE  ImportInv'
<1>1. /\ at[t] <= Len(Export) /\ pc[t] = "idle" /\ reply[t] = None /\ Advance(t)
      /\ Entry(t).op = "item" /\ ~Entry(t).live
      /\ UNCHANGED <<disk, conn, pc, job, reply, into, undone, edition>>
  BY ImportAssumption DEF SkipTrashed, Ended, custody, ImportInv, ImportTyped
<1>2. CustodyInv' /\ IdsStay BY <1>1, ClientKeeps DEF ImportInv, CustodyInv, HandlerTyped
<1>3. Imported(disk, Entry(t)) BY <1>1 DEF Imported
<1>4. /\ at' \in [Importer -> 1 .. Len(Export) + 1] /\ once' \in BOOLEAN
      /\ \A u \in Importer : u # t => at'[u] = at[u]
      /\ Position(t)' /\ Finished'
  BY <1>1, <1>3, AdvanceKeeps
<1>5. ASSUME NEW u \in Importer, u # t PROVE Position(u)'
  <2>1. Db(u)' = Db(u) BY <1>1 DEF Db, View
  <2> QED BY <1>1, <1>2, <1>4, <1>5, <2>1, ExtendsSelf, PositionKept
<1> QED BY <1>1, <1>2, <1>4, <1>5 DEF ImportInv, ImportTyped

\* import_export makes its next call.
LEMMA CallNextKeeps ==
  ASSUME ImportInv, NEW t \in Importer, CallNext(t)
  PROVE  ImportInv'
<1> DEFINE e == Entry(t)
<1>1. /\ at[t] <= Len(Export) /\ pc[t] = "idle" /\ reply[t] = None
      /\ UNCHANGED <<at, into, edition, once>> /\ t \in Thread /\ CustodyInv
      /\ undone' = undone
  <2>1. undone' = undone BY DEF CallNext, VaultLook, ItemLook
  <2> QED BY <2>1, ImportAssumption DEF CallNext, Ended, ImportInv, ImportTyped
<1>2. /\ e.op = "vault" => e.name \in Name /\ e.source \in Source /\ e.source # None
      /\ e.op = "item" => e.source \in Source \cup {None}
  BY <1>1, EntryTyped
<1>3. Entry(t)' = e BY <1>1 DEF Entry
<1>4. ASSUME CustodyInv', Grow(Daemon), IdsStay,
             \A u \in Thread : u # t =>
               pc'[u] = pc[u] /\ job'[u] = job[u] /\ reply'[u] = reply[u],
             \/ pc'[t] = "idle" /\ reply'[t] = Error
             \/ /\ pc'[t] = "vault" /\ reply'[t] = None
                /\ e.op = "vault" /\ job'[t].source = e.source
                /\ job'[t].old # None => job'[t].old \in Rows(Db(t)'.vaults)
             \/ /\ pc'[t] = "item" /\ reply'[t] = None /\ e.op = "item" /\ e.live
                /\ job'[t].source = e.source \/ (e.source = None /\ job'[t].source \in Uuid)
                /\ job'[t].old # None => job'[t].old \in Rows(Db(t)'.items)
      PROVE  ImportInv'
  <2>1. Extends(disk, disk') BY <1>4 DEF Grow
  <2>2. t \notin undone => \A n \in 1 .. at[t] - 1 : Imported(disk', Export[n])
    BY <2>1, ImportedStays DEF ImportInv, Position, Present
  <2>3. t \notin undone' => Present(t)' BY <1>1, <1>3, <1>4, <2>2 DEF Present
  <2>4. Position(t)' BY <1>1, <1>3, <1>4, <2>3 DEF Position
  <2>5. ASSUME NEW u \in Importer, u # t PROVE Position(u)'
    <3>1. u \in Thread /\ Extends(Db(u), Db(u)')
      BY <1>4, ImportAssumption, CustodyAssumption DEF Grow, Db
    <3> QED BY <1>1, <1>4, <2>1, <2>5, <3>1, PositionKept
  <2>6. Finished' BY <1>1, <2>1, FinishedKept
  <2> QED BY <1>1, <1>4, <2>4, <2>5, <2>6 DEF ImportInv, ImportTyped
<1>5. ASSUME NEW p, NEW j, Goto(t, p, j), NEW r, Reply(t, r)
      PROVE  /\ pc'[t] = p /\ job'[t] = j /\ reply'[t] = r
             /\ \A u \in Thread : u # t =>
                  pc'[u] = pc[u] /\ job'[u] = job[u] /\ reply'[u] = reply[u]
  BY <1>1, <1>5 DEF Goto, Reply, CustodyInv, HandlerTyped
<1>6. CASE e.op = "vault" /\ VaultLook(t, e.name, e.source)
  <2> DEFINE j == [NoJob EXCEPT !.name = e.name, !.source = e.source,
                                !.old = The(From(Db(t).vaults, e.source))]
  <2>1. Goto(t, "vault", j) /\ Reply(t, None) BY <1>2, <1>6 DEF VaultLook
  <2>2. j.source = e.source BY DEF NoJob
  <2> HIDE DEF j
  <2>3. /\ CustodyInv' /\ Grow(Daemon) /\ IdsStay
        /\ pc'[t] = "vault" /\ job'[t].old # None => job'[t].old \in Rows(Db(t)'.vaults)
    BY <1>1, <1>2, <1>6, VaultLookKeeps
  <2> QED BY <1>4, <1>5, <1>6, <2>1, <2>2, <2>3
<1>7. CASE e.op = "item" /\ e.live
             /\ \E s \in SourceOf(e) : ItemLook(t, into[t], s, edition[t])
  <2>1. PICK s \in SourceOf(e) : ItemLook(t, into[t], s, edition[t]) BY <1>7
  <2>2. s = e.source \/ (e.source = None /\ s \in Uuid) BY DEF SourceOf
  <2>3. s \in Source \cup {None} /\ edition[t] \in Body
    BY <1>2, <1>7, <2>2, ImportAssumption DEF ImportInv, ImportTyped
  <2>4. /\ CustodyInv' /\ Grow(Daemon) /\ IdsStay
        /\ pc'[t] = "item" /\ job'[t].old # None => job'[t].old \in Rows(Db(t)'.items)
    BY <1>1, <2>1, <2>3, ItemLookKeeps
  <2>5. CASE Answer(t, Error)
    BY <1>4, <1>5, <2>4, <2>5 DEF Answer
  <2>6. CASE \E v, o, w :
               /\ Goto(t, "item", [name |-> None, vault |-> v, source |-> s,
                                   body |-> edition[t], old |-> o, req |-> None, row |-> w])
               /\ Reply(t, None)
    <3>1. PICK v, o, w :
               /\ Goto(t, "item", [name |-> None, vault |-> v, source |-> s,
                                   body |-> edition[t], old |-> o, req |-> None, row |-> w])
               /\ Reply(t, None)
      BY <2>6
    <3> DEFINE j == [name |-> None, vault |-> v, source |-> s,
                     body |-> edition[t], old |-> o, req |-> None, row |-> w]
    <3>2. j.source = s OBVIOUS
    <3>3. Goto(t, "item", j) /\ Reply(t, None) BY <3>1
    <3> HIDE DEF j
    <3> QED BY <1>4, <1>5, <1>7, <2>2, <2>4, <3>2, <3>3
  <2> QED BY <2>1, <2>5, <2>6 DEF ItemLook
<1> QED BY <1>6, <1>7 DEF CallNext

\* import_export takes an answer and goes on.
LEMMA ReceiveKeeps ==
  ASSUME ImportInv, NEW t \in Importer, Receive(t)
  PROVE  ImportInv'
<1> DEFINE e == Entry(t)
<1>1. /\ reply[t] \notin {None, Error} /\ Reply(t, None) /\ Advance(t)
      /\ into' = IF e.op = "vault" THEN [into EXCEPT ![t] = reply[t]] ELSE into
      /\ UNCHANGED <<disk, conn, pc, job, undone, crashes, edition>>
  BY DEF Receive
<1>2. /\ at[t] <= Len(Export) /\ Names(reply[t], e)
      /\ t \notin undone => Stored(disk, reply[t], e)
      /\ pc[t] = "idle" \/ reply[t] = None
  BY <1>1 DEF ImportInv, Position, Present
<1>3. reply' \in [Thread -> Vault \cup Item \cup {None, Error}] /\ reply'[t] = None
  BY <1>1, ImportAssumption DEF Reply, ImportInv, CustodyInv, HandlerTyped
<1>4. CustodyInv' BY <1>1, <1>3, ClientKeeps DEF ImportInv, CustodyInv, HandlerTyped
<1>5. e.op \in {"vault", "item"} BY <1>2, EntryTyped
<1>6. t \notin undone => Imported(disk, e) BY <1>2, <1>5, StoredImported
<1>7. /\ at' \in [Importer -> 1 .. Len(Export) + 1] /\ once' \in BOOLEAN
      /\ \A u \in Importer : u # t => at'[u] = at[u]
      /\ Position(t)' /\ Finished'
  BY <1>1, <1>2, <1>3, <1>6, AdvanceKeeps
<1>8. ASSUME NEW u \in Importer, u # t PROVE Position(u)'
  BY <1>1, <1>7, <1>8, ClientOthers
<1>9. into' \in [Importer -> Vault \cup {None}]
  <2>1. e.op = "vault" => reply[t] \in Vault BY <1>2 DEF Names
  <2> QED BY <1>1, <2>1 DEF ImportInv, ImportTyped
<1> QED BY <1>1, <1>4, <1>7, <1>8, <1>9 DEF ImportInv, ImportTyped

\* An import that failed or ended is run again.
LEMMA AgainKeeps ==
  ASSUME ImportInv, NEW t \in Importer, Again(t)
  PROVE  ImportInv'
<1>1. /\ pc[t] = "idle" /\ Reply(t, None)
      /\ at' = [at EXCEPT ![t] = 1] /\ into' = [into EXCEPT ![t] = None]
      /\ UNCHANGED <<disk, conn, pc, job, once>> /\ undone' = undone \ {t}
      /\ \E ed \in Edition : edition' = [edition EXCEPT ![t] = ed]
  BY DEF Again
<1>2. reply' \in [Thread -> Vault \cup Item \cup {None, Error}] /\ reply'[t] = None
  BY <1>1, ImportAssumption DEF Reply, ImportInv, CustodyInv, HandlerTyped
<1>3. CustodyInv' BY <1>1, <1>2, ClientKeeps DEF ImportInv, CustodyInv, HandlerTyped
<1>4. at'[t] = 1 /\ \A u \in Importer : u # t => at'[u] = at[u]
  BY <1>1 DEF ImportInv, ImportTyped
<1>5. Position(t)'
  <2>1. Present(t)' BY <1>1, <1>2, <1>4 DEF Present
  <2> QED BY <1>1, <1>2, <1>4, <2>1 DEF Position
<1>6. ASSUME NEW u \in Importer, u # t PROVE Position(u)'
  BY <1>1, <1>4, <1>6, ClientOthers
<1>7. ImportTyped'
  <2>1. 1 \in 1 .. Len(Export) + 1 BY ImportAssumption
  <2> QED BY <1>1, <2>1 DEF ImportInv, ImportTyped
<1>8. Finished' BY <1>1 DEF ImportInv, Finished
<1> QED BY <1>3, <1>5, <1>6, <1>7, <1>8 DEF ImportInv

\* What the daemons do for anybody leaves the importers right.
LEMMA ServerKeeps ==
  ASSUME ImportInv, CustodyNext, UNCHANGED <<at, edition, once>>
  PROVE  ImportInv'
<1>1. CustodyInv /\ CustodyInv' /\ IdsStay BY CustodyStep DEF ImportInv
<1>2. CASE \E t \in Thread : Handler(t)
  <2>1. PICK t \in Thread : Handler(t) BY <1>2
  <2>2. Extends(disk, disk') BY <1>1, <2>1, HandlerKeeps
  <2>3. into' = into BY <2>1 DEF Handler
  <2>4. ASSUME NEW u \in Importer PROVE Position(u)'
    <3>1. CASE u = t BY <2>1, <2>4, <3>1, ImporterHandler
    <3>2. CASE u # t
      <4>1. u \in Thread BY ImportAssumption
      <4>2. pc'[u] = pc[u] /\ job'[u] = job[u] /\ reply'[u] = reply[u]
        BY <1>1, <2>1, <3>2, <4>1, HandlerFrame
      <4>3. u \notin undone' =>
              /\ u \notin undone
              /\ pc[u] \in {"vault", "item", "written"} => Extends(Db(u), Db(u)')
        BY <1>1, <2>1, <4>1, HandlerUndoes, CustodyAssumption DEF Grow, Db
      <4> QED BY <1>1, <2>2, <4>2, <4>3, PositionKept
    <3> QED BY <3>1, <3>2
  <2>5. Finished' BY <2>2, FinishedKept
  <2> QED BY <1>1, <2>3, <2>4, <2>5 DEF ImportInv, ImportTyped
<1>3. CASE \E d \in Daemon : Crash(d)
  <2>1. PICK d \in Daemon : Crash(d) BY <1>3
  <2>2. Grow(Daemon \ {d}) /\ Extends(disk, disk')
    BY <1>1, <2>1, CrashKeeps DEF Grow
  <2>3. into' = into /\ undone' = undone BY <2>1 DEF Crash
  <2>4. ASSUME NEW u \in Importer PROVE Position(u)'
    <3>1. u \in Thread BY ImportAssumption
    <3>2. CASE Home[u] = d /\ pc[u] # "idle"
      <4>1. pc'[u] = "idle" /\ reply'[u] = Error
        BY <2>1, <3>1, <3>2 DEF Crash
      <4>2. u \notin undone => \A n \in 1 .. at[u] - 1 : Imported(disk', Export[n])
        BY <2>2, ImportedStays DEF ImportInv, Position, Present
      <4>3. u \notin undone' => Present(u)' BY <2>3, <4>1, <4>2 DEF Present
      <4> QED BY <4>1, <4>3 DEF Position
    <3>3. CASE ~(Home[u] = d /\ pc[u] # "idle")
      <4>1. pc'[u] = pc[u] /\ job'[u] = job[u] /\ reply'[u] = reply[u]
        BY <2>1, <3>1, <3>3 DEF Crash
      <4>2. pc[u] # "idle" => Extends(Db(u), Db(u)')
        BY <2>2, <3>1, <3>3, CustodyAssumption DEF Grow, Db
      <4> QED BY <1>1, <2>2, <2>3, <4>1, <4>2, PositionKept
    <3> QED BY <3>2, <3>3
  <2>5. Finished' BY <2>2, FinishedKept
  <2> QED BY <1>1, <2>3, <2>4, <2>5 DEF ImportInv, ImportTyped
<1> QED BY <1>2, <1>3 DEF CustodyNext

\* No step of the import or of the daemons breaks the invariant.
LEMMA ImportStep == ImportInv /\ [Next]_vars => ImportInv'
<1> SUFFICES ASSUME ImportInv, [Next]_vars PROVE ImportInv'
  OBVIOUS
<1>1. CASE UNCHANGED vars
  <2>1. UNCHANGED <<disk, conn, pc, job, reply, into, undone, at, edition, once>>
    BY <1>1 DEF vars, custody
  <2>2. CustodyInv' /\ IdsStay
    BY <2>1, ClientKeeps DEF ImportInv, CustodyInv, HandlerTyped
  <2>3. ASSUME NEW u \in Importer PROVE Position(u)'
    <3>1. Db(u)' = Db(u) BY <2>1 DEF Db, View
    <3> QED BY <2>1, <2>2, <3>1, ExtendsSelf, PositionKept
  <2> QED BY <2>1, <2>2, <2>3 DEF ImportInv, ImportTyped, Finished
<1>2. CASE Next
  BY <1>2, SkipTrashedKeeps, CallNextKeeps, ReceiveKeeps, AgainKeeps, ServerKeeps
  DEF Next
<1> QED BY <1>1, <1>2

\* The invariant holds at first.
LEMMA ImportInit == Init => ImportInv
<1> SUFFICES ASSUME Init PROVE ImportInv
  OBVIOUS
<1> DEFINE empty == [vaults |-> [v \in Vault |-> None], items |-> [i \in Item |-> None],
                     pending |-> Request]
<1>1. disk = empty /\ conn = [d \in Daemon |-> Closed]
  BY DEF Init, CustodyInit, ConnInit
<1>2. empty \in DbType /\ Rows(empty.vaults) = {} /\ Rows(empty.items) = {}
  BY DEF DbType, Rows
<1> HIDE DEF empty
<1>3. ConnInv
  <2>1. Good(disk) BY <1>1, <1>2 DEF Good, UniqueSources
  <2> QED BY <1>1, <2>1 DEF ConnInv, Closed, Mode
<1>4. /\ pc = [t \in Thread |-> "idle"] /\ job = [t \in Thread |-> NoJob]
      /\ reply = [t \in Thread |-> None] /\ undone = {}
  BY DEF Init, CustodyInit
<1>5. CustodyInv
  BY <1>3, <1>4, NoJobTyped DEF CustodyInv, HandlerTyped, JobOK, PC
<1>6. ImportTyped
  <2>1. 1 \in 1 .. Len(Export) + 1 BY ImportAssumption
  <2> QED BY <2>1 DEF Init, CustodyInit, ImportTyped
<1>7. Finished BY DEF Init, Finished
<1>8. ASSUME NEW t \in Importer PROVE Position(t)
  BY <1>4, ImportAssumption DEF Init, Position, Present
<1> QED BY <1>5, <1>6, <1>7, <1>8 DEF ImportInv

\* The invariant of daemons, handlers and importers.
LEMMA ImportAlways == Spec => []ImportInv
BY ImportInit, ImportStep, PTL DEF Spec

\* Unique sources are rows that can be counted: none or one.
LEMMA AtMostOne ==
  ASSUME NEW table, UniqueSources(table), NEW s \in Source
  PROVE  Cardinality(From(table, s)) = IF From(table, s) = {} THEN 0 ELSE 1
<1>1. CASE From(table, s) = {} BY <1>1, FS_EmptySet
<1>2. CASE From(table, s) # {}
  <2>1. PICK i \in From(table, s) : TRUE BY <1>2
  <2>2. From(table, s) = {i} BY <2>1, CustodyAssumption DEF UniqueSources, From
  <2> QED BY <1>2, <2>2, FS_Singleton
<1> QED BY <1>1, <1>2

-----------------------------------------------------------------------------
(* The theorems *)

\* What the daemons, the handlers and the importers keep is typed; in particular
\* the id that an importer puts items under is that of a vault.
THEOREM ImportTypeCorrect == Spec => []TypeOK
<1>1. ImportInv => TypeOK
  BY DEF ImportInv, ImportTyped, CustodyInv, ConnInv, HandlerTyped, Good, TypeOK,
         CustodyTypeOK
<1> QED BY <1>1, ImportAlways, PTL

\* put_item: every committed item opens.  Its key is wrapped for the vault it is
\* in and its payload sealed under that key, however many threads and daemons put
\* the same item, with what they read of it outdated by the time they write.
THEOREM AlwaysOpens == Spec => []Opens
<1>1. ImportInv => Opens
  BY DEF ImportInv, CustodyInv, ConnInv, Good, Opens
<1> QED BY <1>1, ImportAlways, PTL

\* create_vault and put_item: no source ever has two vaults, or two items.
THEOREM AlwaysOneRowPerSource == Spec => []OneRowPerSource
<1>1. ImportInv => OneRowPerSource
  BY AtMostOne DEF ImportInv, CustodyInv, ConnInv, Good, OneRowPerSource
<1> QED BY <1>1, ImportAlways, PTL
=============================================================================
