----------------------------- MODULE ImportProofs -----------------------------
(***************************************************************************)
(* What a finished import has left: theorems about what the rows contain,  *)
(* on the invariant of CustodyProofs.                                      *)
(***************************************************************************)
EXTENDS CustodyProofs

-----------------------------------------------------------------------------
(* What the theorems suppose of the clients *)

\* An item with an id that only imports write.
OwnItem(n) ==
  /\ n \in DOMAIN Export /\ Export[n].op = "item" /\ Export[n].live
  /\ Export[n].source # None /\ Export[n].source \notin Meddled

\* Nobody imports another edition meanwhile.
OneImporter == \A t, u \in Importer : t = u
\* No two items of the export have one id, no uuid4() is the id of one, and no
\* vault has the name that is the id of another.
IdsApart ==
  /\ \A m, n \in DOMAIN Export :
       OwnItem(n) /\ Export[m].op = "item" /\ Export[m].live
         /\ Export[m].source = Export[n].source => m = n
  /\ \A n \in DOMAIN Export : OwnItem(n) => Export[n].source \notin Uuid
  /\ Vault \cap Name = {} /\ None \notin Name

-----------------------------------------------------------------------------
(* What a step makes of the versions of the database *)

\* A handler's step moves the versions, writes one row or none; a review that lost
\* drops the working copy of its daemon.
LEMMA HandlerMoves ==
  ASSUME CustodyInv, NEW t \in Thread, Handler(t)
  PROVE  \/ Moves({})
         \/ ReviewLost(t) /\ conn[Home[t]].mode = "write" /\ Moves({Home[t]})
         \/ Quiet(t)
         \/ pc[t] = "vault" /\ VaultWritten(t)
         \/ pc[t] = "item" /\ ItemWritten(t)
<1>1. Home[t] \in Daemon /\ ConnInv BY CustodyAssumption DEF CustodyInv
<1>2. CASE AdminCall(t) \/ ReviewLook(t)
  BY <1>1, <1>2, SelectMoves DEF AdminCall, VaultLook, ItemLook, ReviewLook
<1>3. CASE VaultUpdate(t) \/ VaultInsert(t)
  <2>1. pc[t] = "vault" BY <1>3 DEF VaultUpdate, VaultInsert
  <2> QED BY <1>3, <2>1, VaultWrites, RefusedQuiet, MissedQuiet
<1>4. CASE ItemUpdate(t) \/ ItemInsert(t)
  <2>1. pc[t] = "item" BY <1>4 DEF ItemUpdate, ItemInsert
  <2> QED BY <1>4, <2>1, ItemWrites, RefusedQuiet, MissedQuiet
<1>5. CASE ReviewWrite(t) BY <1>5, ReviewWriteQuiet
<1>6. CASE ReviewLost(t)
  <2>1. Rollback(Home[t]) BY <1>6 DEF ReviewLost
  <2>2. Moves({Home[t]}) BY <1>1, <2>1, RollbackMoves
  <2>3. conn[Home[t]].mode # "write" => Moves({}) BY <2>2 DEF Moves, Writers
  <2> QED BY <1>6, <2>2, <2>3
<1>7. CASE CommitStep(t) BY <1>1, <1>7, CommitMoves DEF CommitStep
<1>8. CASE ReplyStep(t) BY <1>8, QuietMoves DEF ReplyStep
<1>9. CASE Locked(t) BY <1>1, <1>9, LockedMoves DEF Locked
<1> QED BY <1>2, <1>3, <1>4, <1>5, <1>6, <1>7, <1>8, <1>9 DEF Handler

-----------------------------------------------------------------------------
(* What the rows of an item that only imports write contain *)

\* The m-th entry is the vault that the n-th stands under.
IsVaultOf(m, n) ==
  /\ m \in 1 .. n - 1 /\ Export[m].op = "vault"
  /\ \A l \in m + 1 .. n - 1 : Export[l].op # "vault"

\* The rows of an own item are in its vault, in every version of the database.
Placed(db) ==
  \A n \in DOMAIN Export, i \in Rows(db.items) :
    OwnItem(n) /\ db.items[i].source = Export[n].source =>
      /\ db.items[i].vault \in Rows(db.vaults)
      /\ db.vaults[db.items[i].vault].source = VaultOf(n).source

\* They have the content b.
Current(db, n, b) ==
  \A i \in Rows(db.items) : db.items[i].source = Export[n].source => db.items[i].body = b

\* Also once a transaction that is open is committed.
Settled(n, b) == Current(disk, n, b) /\ \A d \in Writers : Current(conn[d].db, n, b)
\* Once the transaction that t has written in is committed.
Pending(t, n, b) ==
  /\ \A d \in Writers : Current(conn[d].db, n, b)
  /\ Home[t] \notin Writers => Current(disk, n, b)

\* The calls of the others are those they are said to make.
Foreign(u) ==
  /\ pc[u] = "vault" => \E c \in Creates[u] : job[u].source = c.source
  /\ pc[u] = "item" => \E p \in Puts[u] : job[u].source = p.source

\* The id that the importer puts under is that of the vault its entry is in, if of any.
Target(t) ==
  /\ into[t] # None =>
       \E m \in 1 .. Len(Export) :
         IsVaultOf(m, at[t]) /\ VaultIs(into[t], Export[m].source)
  /\ pc[t] = "item" =>
       /\ job[t].body = edition[t]
       /\ \E m \in 1 .. Len(Export) :
            IsVaultOf(m, at[t]) /\ VaultIs(job[t].vault, Export[m].source)

\* The importer has put the n-th entry; it is about to commit it.
Put(t, n) ==
  n < at[t] \/ (n = at[t] /\ (pc[t] = "committed" \/ reply[t] \notin {None, Error}))
Putting(t, n) == n = at[t] /\ pc[t] = "written"

Contents(t) ==
  t \notin undone => \A n \in DOMAIN Export : OwnItem(n) =>
    /\ Put(t, n) => Settled(n, edition[t])
    /\ Putting(t, n) => Pending(t, n, edition[t])

ContentInv ==
  /\ ImportInv
  /\ \A db \in Versions : Placed(db)
  /\ \A u \in Thread \ Importer : Foreign(u)
  /\ \A t \in Importer : Target(t) /\ Contents(t)

\* The vault of an entry is the last one before it in the export.
LEMMA VaultOfIs ==
  ASSUME NEW n \in Nat, NEW m, IsVaultOf(m, n)
  PROVE  VaultOf(n) = Export[m]
<1> DEFINE P(k) == /\ Export[k].op = "vault"
                   /\ \A l \in k + 1 .. n - 1 : Export[l].op # "vault"
<1>1. m \in 1 .. n - 1 /\ P(m) BY DEF IsVaultOf
<1>2. \A k \in 1 .. n - 1 : P(k) => k = m BY <1>1
<1>3. (CHOOSE k \in 1 .. n - 1 : P(k)) = m BY <1>1, <1>2
<1> QED BY <1>3 DEF VaultOf

\* Going on by one entry keeps the vault, or takes the one just passed.
LEMMA NextVault ==
  ASSUME NEW n \in Nat, n > 0
  PROVE  /\ Export[n].op = "vault" => IsVaultOf(n, n + 1)
         /\ \A m : IsVaultOf(m, n) /\ Export[n].op # "vault" => IsVaultOf(m, n + 1)
<1>1. n \in 1 .. n + 1 - 1 /\ n + 1 .. n + 1 - 1 = {} OBVIOUS
<1>2. Export[n].op = "vault" => IsVaultOf(n, n + 1) BY <1>1 DEF IsVaultOf
<1>3. ASSUME NEW m, IsVaultOf(m, n), Export[n].op # "vault" PROVE IsVaultOf(m, n + 1)
  BY <1>3 DEF IsVaultOf
<1> QED BY <1>2, <1>3

-----------------------------------------------------------------------------
(* What writing a row does to them *)

\* Whoever writes a row of an own item is the importer, at its entry, with its
\* content and into its vault.
LEMMA OwnWriter ==
  ASSUME ContentInv, IdsApart, NEW t \in Thread, pc[t] = "item", NEW n \in DOMAIN Export,
         OwnItem(n), job[t].source = Export[n].source
  PROVE  /\ t \in Importer /\ at[t] = n /\ job[t].body = edition[t]
         /\ VaultIs(job[t].vault, VaultOf(n).source)
<1>1. t \in Importer
  <2>1. t \notin Importer => job[t].source \in Meddled BY DEF ContentInv, Foreign, Meddled
  <2> QED BY <2>1 DEF OwnItem
<1>2. Position(t) /\ Target(t) BY <1>1 DEF ContentInv, ImportInv
<1>3. at[t] \in 1 .. Len(Export) /\ DOMAIN Export = 1 .. Len(Export)
  BY <1>1, <1>2, EntryTyped, ImportAssumption DEF Position, ContentInv
<1>4. Entry(t).op = "item" /\ Entry(t).live /\ Entry(t).source = Export[n].source
  BY <1>2 DEF Position, IdsApart
<1>5. at[t] = n BY <1>3, <1>4 DEF IdsApart, Entry
<1>6. PICK m \in 1 .. Len(Export) :
        IsVaultOf(m, n) /\ VaultIs(job[t].vault, Export[m].source)
  BY <1>2, <1>5 DEF Target
<1>7. VaultOf(n) = Export[m] BY <1>3, <1>6, VaultOfIs
<1> QED BY <1>1, <1>2, <1>5, <1>6, <1>7 DEF Target

\* create_vault moves no item to another vault.
LEMMA PlacedVaultWritten ==
  ASSUME ContentInv, NEW t \in Thread, NEW v \in Vault, NEW row \in VaultRow,
         row.source = job[t].source,
         \/ Db(t).vaults[v] = None /\ ~Taken(Db(t).vaults, row.source)
         \/ Db(t).vaults[v] # None /\ Db(t).vaults[v].source = row.source
  PROVE  Placed([Db(t) EXCEPT !.vaults[v] = row])
<1> DEFINE new == [Db(t) EXCEPT !.vaults[v] = row]
<1>1. Good(Db(t)) /\ Db(t) \in Versions
  BY ViewGood, CustodyAssumption
  DEF ContentInv, ImportInv, CustodyInv, Db, Versions
<1>2. Extends(Db(t), new) BY <1>1, PutVault
<1>3. new.items = Db(t).items BY <1>1, RowsOfPutVault
<1>4. Placed(Db(t)) BY <1>1 DEF ContentInv
<1> HIDE DEF new
<1>5. Placed(new) BY <1>2, <1>3, <1>4 DEF Placed, Extends, RowsStay
<1> QED BY <1>5 DEF new

\* put_item puts an item of the export into the vault that the importer meant.
LEMMA PlacedItemWritten ==
  ASSUME ContentInv, IdsApart, NEW t \in Thread, pc[t] = "item",
         NEW i \in Item, NEW row \in ItemRow,
         row.source = job[t].source, row.vault = job[t].vault,
         row.vault \in Rows(Db(t).vaults)
  PROVE  Placed([Db(t) EXCEPT !.items[i] = row])
<1> DEFINE new == [Db(t) EXCEPT !.items[i] = row]
<1>1. Good(Db(t)) /\ Db(t) \in Versions
  BY ViewGood, CustodyAssumption
  DEF ContentInv, ImportInv, CustodyInv, Db, Versions
<1>2. Placed(Db(t)) BY <1>1 DEF ContentInv
<1>3. /\ new.vaults = Db(t).vaults /\ new.items[i] = row
      /\ Rows(new.items) = Rows(Db(t).items) \cup {i}
      /\ \A j \in Rows(Db(t).items) : j # i => new.items[j] = Db(t).items[j]
  BY <1>1, RowsOfPutItem
<1> HIDE DEF new
<1>4. ASSUME NEW n \in DOMAIN Export, NEW j \in Rows(new.items), OwnItem(n),
             new.items[j].source = Export[n].source
      PROVE  /\ new.items[j].vault \in Rows(new.vaults)
             /\ new.vaults[new.items[j].vault].source = VaultOf(n).source
  <2>1. CASE j = i
    <3>1. VaultIs(row.vault, VaultOf(n).source) BY <1>3, <1>4, <2>1, OwnWriter
    <3>2. Db(t).vaults[row.vault].source = VaultOf(n).source BY <1>1, <3>1 DEF VaultIs
    <3> QED BY <1>3, <2>1, <3>2
  <2>2. CASE j # i BY <1>2, <1>3, <1>4, <2>2 DEF Placed
  <2> QED BY <2>1, <2>2
<1>5. Placed(new) BY <1>4 DEF Placed
<1> QED BY <1>5 DEF new

\* A statement that leaves the rows leaves them in place.
LEMMA PlacedQuiet ==
  ASSUME ContentInv, NEW t \in Thread, Quiet(t)
  PROVE  \A db \in Versions' : Placed(db)
<1>1. PICK new : /\ new.vaults = Db(t).vaults /\ new.items = Db(t).items
                 /\ Execute(Home[t], new)
  BY DEF Quiet
<1>2. ConnInv /\ Home[t] \in Daemon /\ Db(t) \in Versions
  BY CustodyAssumption DEF ContentInv, ImportInv, CustodyInv, Db, Versions
<1>3. Versions' \subseteq Versions \cup {new} BY <1>1, <1>2, ExecuteMoves
<1>4. Placed(new) BY <1>1, <1>2 DEF ContentInv, Placed
<1> QED BY <1>3, <1>4 DEF ContentInv

\* Every version of the database that a handler makes has the own items in place.
LEMMA PlacedHandler ==
  ASSUME ContentInv, IdsApart, NEW t \in Thread, Handler(t)
  PROVE  \A db \in Versions' : Placed(db)
<1>1. CustodyInv /\ ConnInv /\ Home[t] \in Daemon
  BY CustodyAssumption DEF ContentInv, ImportInv, CustodyInv
<1>2. CASE Moves({}) \/ Moves({Home[t]}) BY <1>2 DEF Moves, ContentInv
<1>3. CASE Quiet(t) BY <1>3, PlacedQuiet
<1>4. CASE pc[t] = "vault" /\ VaultWritten(t)
  <2>1. PICK v \in Vault, row \in VaultRow :
          /\ row.source = job[t].source
          /\ \/ Db(t).vaults[v] = None /\ ~Taken(Db(t).vaults, row.source)
             \/ Db(t).vaults[v] # None /\ Db(t).vaults[v].source = row.source
          /\ Executed(t, [Db(t) EXCEPT !.vaults[v] = row], v)
    BY <1>4 DEF VaultWritten
  <2> DEFINE new == [Db(t) EXCEPT !.vaults[v] = row]
  <2>2. Placed(new) BY <2>1, PlacedVaultWritten
  <2>3. Execute(Home[t], new) BY <2>1 DEF Executed
  <2> HIDE DEF new
  <2>4. Versions' \subseteq Versions \cup {new} BY <1>1, <2>3, ExecuteMoves
  <2> QED BY <2>2, <2>4 DEF ContentInv
<1>5. CASE pc[t] = "item" /\ ItemWritten(t)
  <2>1. PICK i \in Item, row \in ItemRow :
          /\ row.source = job[t].source /\ row.vault = job[t].vault
          /\ row.vault \in Rows(Db(t).vaults)
          /\ Executed(t, [Db(t) EXCEPT !.items[i] = row], i)
    BY <1>5 DEF ItemWritten
  <2> DEFINE new == [Db(t) EXCEPT !.items[i] = row]
  <2>2. Placed(new) BY <1>5, <2>1, PlacedItemWritten
  <2>3. Execute(Home[t], new) BY <2>1 DEF Executed
  <2> HIDE DEF new
  <2>4. Versions' \subseteq Versions \cup {new} BY <1>1, <2>3, ExecuteMoves
  <2> QED BY <2>2, <2>4 DEF ContentInv
<1> QED BY <1>1, <1>2, <1>3, <1>4, <1>5, HandlerMoves

-----------------------------------------------------------------------------
(* What is put stays as it was put *)

\* What is settled in all versions stays settled when none is made.
LEMMA SettledMoves ==
  ASSUME NEW D, Moves(D), NEW n, NEW b, Settled(n, b)
  PROVE  Settled(n, b)'
BY DEF Settled, Moves

\* What an importer's daemon is about to commit stays so unless it is killed.
LEMMA PendingMoves ==
  ASSUME NEW D, Moves(D), NEW t \in Thread, Home[t] \in Daemon, Home[t] \notin D,
         NEW n, NEW b, Pending(t, n, b)
  PROVE  Pending(t, n, b)'
<1>1. \A d \in Writers' : Current(conn'[d].db, n, b) BY DEF Pending, Moves
<1>2. Home[t] \notin Writers' => Current(disk', n, b)
  <2>1. CASE Home[t] \in Writers /\ Home[t] \notin Writers'
    BY <2>1 DEF Pending, Moves
  <2>2. CASE Home[t] \notin Writers BY <2>2 DEF Pending, Moves
  <2> QED BY <2>1, <2>2
<1> QED BY <1>1, <1>2 DEF Pending

\* So does a statement, if the version it makes has the content when the one that it
\* was executed on had it.
LEMMA ExecuteSettled ==
  ASSUME ConnInv, NEW d \in Daemon, NEW db, Execute(d, db), NEW n, NEW b,
         Current(View(d), n, b) => Current(db, n, b)
  PROVE  /\ Settled(n, b) => Settled(n, b)'
         /\ \A t \in Thread : Pending(t, n, b) => Pending(t, n, b)'
<1>1. /\ Writers \subseteq {d} /\ Writers' = {d} /\ conn'[d].db = db /\ disk' = disk
      /\ View(d) = IF d \in Writers THEN conn[d].db ELSE disk
  BY ExecuteMoves
<1>2. Settled(n, b) => Settled(n, b)'
  BY <1>1 DEF Settled
<1>3. ASSUME NEW t \in Thread, Pending(t, n, b) PROVE Pending(t, n, b)'
  <2>1. Current(View(d), n, b)
    BY <1>1, <1>3 DEF Pending
  <2>2. Home[t] # d => Current(disk', n, b) BY <1>1, <1>3 DEF Pending
  <2> QED BY <1>1, <2>1, <2>2 DEF Pending
<1> QED BY <1>2, <1>3

\* A write to a vault leaves the content of the items.
LEMMA CurrentVaultWritten ==
  ASSUME NEW db, Good(db), NEW v \in Vault, NEW row \in VaultRow, NEW n, NEW b,
         Current(db, n, b)
  PROVE  Current([db EXCEPT !.vaults[v] = row], n, b)
<1>1. [db EXCEPT !.vaults[v] = row].items = db.items BY RowsOfPutVault
<1> QED BY <1>1 DEF Current

\* A write to an item leaves the content of the others.
LEMMA CurrentOtherWritten ==
  ASSUME NEW db, Good(db), NEW i \in Item, NEW row \in ItemRow, NEW n, NEW b,
         Current(db, n, b), row.source # Export[n].source
  PROVE  Current([db EXCEPT !.items[i] = row], n, b)
<1> DEFINE new == [db EXCEPT !.items[i] = row]
<1>1. /\ new.items[i] = row /\ Rows(new.items) = Rows(db.items) \cup {i}
      /\ \A j \in Rows(db.items) : j # i => new.items[j] = db.items[j]
  BY RowsOfPutItem
<1> HIDE DEF new
<1>2. Current(new, n, b) BY <1>1 DEF Current
<1> QED BY <1>2 DEF new

\* A write by source replaces the content of that item.
LEMMA CurrentOwnWritten ==
  ASSUME NEW db, Good(db), NEW i \in Item, NEW row \in ItemRow, NEW n, OwnItem(n),
         row.source = Export[n].source,
         row.under = row.vault, row.with = row.key,
         \/ db.items[i] = None /\ ~Taken(db.items, row.source)
         \/ db.items[i] # None /\ db.items[i].source = row.source
  PROVE  Current([db EXCEPT !.items[i] = row], n, row.body)
<1> DEFINE new == [db EXCEPT !.items[i] = row]
<1>1. Good(new) BY PutItem
<1>2. new.items[i] = row /\ i \in Rows(new.items) BY RowsOfPutItem
<1> HIDE DEF new
<1>3. Current(new, n, row.body) BY <1>1, <1>2 DEF Current, Good, UniqueSources, OwnItem
<1> QED BY <1>3 DEF new

\* A handler that is not writing the own item keeps what has been put of it.
LEMMA HandlerSettled ==
  ASSUME ContentInv, NEW t \in Thread, Handler(t), NEW n \in DOMAIN Export, NEW b,
         pc[t] = "item" => job[t].source # Export[n].source
  PROVE  /\ Settled(n, b) => Settled(n, b)'
         /\ \A u \in Importer \ undone' :
              pc[u] = "written" /\ Pending(u, n, b) => Pending(u, n, b)'
<1>1. CustodyInv /\ ConnInv /\ Home[t] \in Daemon /\ Good(Db(t)) /\ Db(t) = View(Home[t])
  BY ViewGood, CustodyAssumption DEF ContentInv, ImportInv, CustodyInv, Db
<1>2. CASE Moves({})
  BY <1>2, SettledMoves, PendingMoves, CustodyAssumption, ImportAssumption
<1>3. CASE ReviewLost(t) /\ conn[Home[t]].mode = "write" /\ Moves({Home[t]})
  <2>1. \A u \in Importer \ undone' : pc[u] = "written" => Home[u] # Home[t]
    BY <1>3 DEF ReviewLost
  <2> QED
    BY <1>3, <2>1, SettledMoves, PendingMoves, CustodyAssumption, ImportAssumption
<1>4. CASE Quiet(t)
  <2>1. PICK new : /\ new.vaults = Db(t).vaults /\ new.items = Db(t).items
                   /\ Execute(Home[t], new)
    BY <1>4 DEF Quiet
  <2>2. Current(Db(t), n, b) => Current(new, n, b) BY <2>1 DEF Current
  <2> QED BY <1>1, <2>1, <2>2, ExecuteSettled, ImportAssumption
<1>5. CASE VaultWritten(t)
  <2>1. PICK v \in Vault, row \in VaultRow :
          Executed(t, [Db(t) EXCEPT !.vaults[v] = row], v)
    BY <1>5 DEF VaultWritten
  <2> DEFINE new == [Db(t) EXCEPT !.vaults[v] = row]
  <2>2. Current(Db(t), n, b) => Current(new, n, b) BY <1>1, CurrentVaultWritten
  <2>3. Execute(Home[t], new) BY <2>1 DEF Executed
  <2> HIDE DEF new
  <2> QED BY <1>1, <2>2, <2>3, ExecuteSettled, ImportAssumption
<1>6. CASE pc[t] = "item" /\ ItemWritten(t)
  <2>1. PICK i \in Item, row \in ItemRow :
          /\ row.source = job[t].source
          /\ Executed(t, [Db(t) EXCEPT !.items[i] = row], i)
    BY <1>6 DEF ItemWritten
  <2> DEFINE new == [Db(t) EXCEPT !.items[i] = row]
  <2>2. Current(Db(t), n, b) => Current(new, n, b) BY <1>1, <1>6, <2>1, CurrentOtherWritten
  <2>3. Execute(Home[t], new) BY <2>1 DEF Executed
  <2> HIDE DEF new
  <2> QED BY <1>1, <2>2, <2>3, ExecuteSettled, ImportAssumption
<1> QED BY <1>1, <1>2, <1>3, <1>4, <1>5, <1>6, HandlerMoves

-----------------------------------------------------------------------------
(* The handlers keep the contents *)

\* Where an importer's own handler goes.
LEMMA ImporterMoves ==
  ASSUME ImportInv, NEW t \in Importer, Handler(t)
  PROVE  /\ undone' = undone
         /\ \/ pc'[t] = "idle" /\ reply'[t] = Error
            \/ pc'[t] = "written" /\ t \in undone
            \/ /\ pc[t] = "vault" /\ VaultWritten(t)
               /\ pc'[t] = "written" /\ reply'[t] = reply[t]
            \/ /\ pc[t] = "item" /\ ItemWritten(t)
               /\ pc'[t] = "written" /\ reply'[t] = reply[t]
            \/ /\ pc[t] = "written" /\ CommitStep(t)
               /\ pc'[t] = "committed" /\ reply'[t] = reply[t]
            \/ pc[t] = "committed" /\ UNCHANGED <<disk, conn>> /\ pc'[t] = "idle"
<1>1. t \in Thread /\ CustodyInv /\ Position(t) BY ImportAssumption DEF ImportInv
<1>2. ASSUME Refused(t)
      PROVE  pc'[t] = "idle" /\ reply'[t] = Error /\ undone' = undone
  BY <1>1, <1>2, AnswerGives DEF Refused
<1>3. ASSUME Missed(t), pc[t] \in {"vault", "item"}
      PROVE  pc'[t] = "written" /\ t \in undone /\ undone' = undone
  <2>1. pc'[t] = "written" /\ undone' = undone BY <1>1, <1>3, ExecutedGives DEF Missed
  <2>2. job[t].old # None BY <1>3, CustodyAssumption DEF Missed
  <2>3. ~Present(t) BY <1>3, <2>2 DEF Missed, Present
  <2> QED BY <1>1, <2>1, <2>3 DEF Position
<1>4. CASE VaultUpdate(t) \/ VaultInsert(t)
  <2>1. pc[t] = "vault" BY <1>4 DEF VaultUpdate, VaultInsert
  <2>2. VaultWritten(t) => pc'[t] = "written" /\ reply' = reply /\ undone' = undone
    BY <1>1, ExecutedGives DEF VaultWritten
  <2> QED BY <1>1, <1>2, <1>3, <1>4, <2>1, <2>2, VaultWrites
<1>5. CASE ItemUpdate(t) \/ ItemInsert(t)
  <2>1. pc[t] = "item" BY <1>5 DEF ItemUpdate, ItemInsert
  <2>2. ItemWritten(t) => pc'[t] = "written" /\ reply' = reply /\ undone' = undone
    BY <1>1, ExecutedGives DEF ItemWritten
  <2> QED BY <1>1, <1>2, <1>3, <1>5, <2>1, <2>2, ItemWrites
<1>6. CASE CommitStep(t)
  BY <1>1, <1>6 DEF CommitStep, Goto, CustodyInv, HandlerTyped
<1>7. CASE ReplyStep(t)
  <2>1. /\ pc[t] = "committed" /\ Answer(t, job[t].old) /\ UNCHANGED <<disk, conn>>
        /\ undone' = undone
    BY <1>7 DEF ReplyStep
  <2> QED BY <1>1, <2>1, AnswerGives
<1>8. CASE Locked(t) BY <1>1, <1>8, AnswerGives DEF Locked
<1> QED BY <1>4, <1>5, <1>6, <1>7, <1>8, ImporterCalls

\* While an importer's thread stays where it is, it has put what it had put.
LEMMA ContentsKept ==
  ASSUME ContentInv, NEW u \in Importer, UNCHANGED <<at, edition>>,
         pc'[u] = pc[u] /\ reply'[u] = reply[u],
         u \notin undone' =>
           /\ u \notin undone
           /\ \A n \in DOMAIN Export : OwnItem(n) =>
                /\ Settled(n, edition[u]) => Settled(n, edition[u])'
                /\ pc[u] = "written" /\ Pending(u, n, edition[u]) =>
                     Pending(u, n, edition[u])'
  PROVE  Contents(u)'
BY DEF ContentInv, Contents, Put, Putting

\* A handler's step leaves the items of an import as this edition has them.
LEMMA ContentsHandler ==
  ASSUME ContentInv, IdsApart, OneImporter, NEW t \in Thread, Handler(t),
         UNCHANGED <<at, edition>>, NEW u \in Importer
  PROVE  Contents(u)'
<1>1. /\ ImportInv /\ CustodyInv /\ ConnInv /\ Home[t] \in Daemon /\ u \in Thread
      /\ Position(u)
  BY CustodyAssumption, ImportAssumption DEF ContentInv, ImportInv, CustodyInv
<1>2. CASE t # u
  <2>1. t \notin Importer BY <1>2 DEF OneImporter
  <2>2. \A n \in DOMAIN Export : OwnItem(n) =>
          (pc[t] = "item" => job[t].source # Export[n].source)
    BY <2>1, OwnWriter
  <2>3. pc'[u] = pc[u] /\ reply'[u] = reply[u] BY <1>1, <1>2, HandlerFrame
  <2>4. PICK b : b = edition[u] OBVIOUS
  <2>5. \A n \in DOMAIN Export : OwnItem(n) =>
          /\ Settled(n, b) => Settled(n, b)'
          /\ u \notin undone' /\ pc[u] = "written" /\ Pending(u, n, b) => Pending(u, n, b)'
    BY <1>1, <2>2, HandlerSettled
  <2>6. u \notin undone' => u \notin undone BY <1>1, HandlerUndoes
  <2>7. edition'[u] = b BY <2>4
  <2> QED BY <2>3, <2>4, <2>5, <2>6, <2>7, ContentsKept DEF Settled, Pending
<1>3. CASE t = u
  <2> SUFFICES ASSUME t \notin undone', NEW n \in DOMAIN Export, OwnItem(n)
               PROVE  /\ Put(t, n)' => Settled(n, edition[t])'
                      /\ Putting(t, n)' => Pending(t, n, edition[t])'
    BY <1>3 DEF Contents
  <2>1. n < at[t] \/ at[t] = n \/ n > at[t]
    BY <1>3, ImportAssumption DEF ContentInv, ImportInv, ImportTyped
  <2>2. t \notin undone BY <1>1, <1>3, ImporterMoves
  <2>3. CASE n < at[t]
    <3>1. Settled(n, edition[t]) BY <1>3, <2>2, <2>3 DEF ContentInv, Contents, Put
    <3>2. at[t] # n BY <1>3, <2>3, ImportAssumption DEF ContentInv, ImportInv, ImportTyped
    <3>3. pc[t] = "item" => job[t].source # Export[n].source BY <3>2, OwnWriter
    <3>4. PICK b : b = edition[t] OBVIOUS
    <3>5. Settled(n, b)' BY <3>1, <3>3, <3>4, HandlerSettled
    <3>6. Settled(n, edition[t])' BY <3>4, <3>5 DEF Settled
    <3> QED BY <3>2, <3>6 DEF Putting
  <2>4. CASE n > at[t]
    <3>1. ~(n < at[t]) /\ n # at[t]
      BY <1>3, <2>4, ImportAssumption DEF ContentInv, ImportInv, ImportTyped
    <3> QED BY <3>1 DEF Put, Putting
  <2>5. CASE at[t] = n
    <3>1. Entry(t) = Export[n] /\ ~(n < at[t]) BY <1>3, <2>5, ImportAssumption DEF Entry
    <3>2. pc[t] # "vault" /\ (pc[t] = "item" => job[t].source = Export[n].source)
      BY <1>1, <1>3, <3>1 DEF Position, OwnItem
    <3>3. pc[t] # "idle" => reply[t] = None BY <1>1, <1>3 DEF Position
    <3>4. CASE pc'[t] = "idle" /\ reply'[t] = Error
      BY <3>1, <3>4 DEF Put, Putting
    <3>5. CASE /\ pc[t] = "item" /\ ItemWritten(t) /\ pc'[t] = "written"
               /\ reply'[t] = reply[t]
      <4>1. PICK i \in Item, row \in ItemRow :
              /\ row.source = job[t].source /\ row.body = job[t].body
              /\ row.under = row.vault /\ row.with = row.key
              /\ \/ Db(t).items[i] = None /\ ~Taken(Db(t).items, row.source)
                 \/ Db(t).items[i] # None /\ Db(t).items[i].source = row.source
              /\ Executed(t, [Db(t) EXCEPT !.items[i] = row], i)
        BY <3>5 DEF ItemWritten
      <4> DEFINE new == [Db(t) EXCEPT !.items[i] = row]
      <4>2. Good(Db(t)) BY <1>1, <1>3, ViewGood DEF Db
      <4>3. row.source = Export[n].source /\ row.body = edition[t]
        BY <3>2, <3>5, <4>1, OwnWriter
      <4>4. Current(new, n, edition[t]) BY <4>1, <4>2, <4>3, CurrentOwnWritten
      <4>5. Execute(Home[t], new) BY <4>1 DEF Executed
      <4> HIDE DEF new
      <4>6. Writers' = {Home[t]} /\ conn'[Home[t]].db = new
        BY <1>1, <1>3, <4>5, ExecuteMoves
      <4>7. Pending(t, n, edition[t])' BY <4>4, <4>6 DEF Pending
      <4>8. ~Put(t, n)' BY <3>1, <3>3, <3>5 DEF Put
      <4> QED BY <4>7, <4>8
    <3>6. CASE /\ pc[t] = "written" /\ CommitStep(t)
               /\ pc'[t] = "committed" /\ reply'[t] = reply[t]
      <4>1. Pending(t, n, edition[t])
        BY <1>3, <2>2, <2>5, <3>6 DEF ContentInv, Contents, Putting
      <4>2. /\ Moves({}) /\ Home[t] \notin Writers'
            /\ Home[t] \notin Writers => disk' = disk
        BY <1>1, <1>3, <3>6, CommitMoves DEF CommitStep
      <4>3. Settled(n, edition[t])'
        BY <1>1, <1>3, <4>1, <4>2 DEF Moves, Pending, Settled
      <4> QED BY <3>6, <4>3 DEF Putting
    <3>7. CASE pc[t] = "committed" /\ UNCHANGED <<disk, conn>> /\ pc'[t] = "idle"
      <4>1. PICK b : b = edition[t] OBVIOUS
      <4>2. Settled(n, b)
        BY <1>3, <2>2, <2>5, <3>7, <4>1 DEF ContentInv, Contents, Put
      <4>3. Settled(n, b)' BY <3>7, <4>2, QuietMoves, SettledMoves
      <4>4. Settled(n, edition[t])' BY <4>1, <4>3 DEF Settled
      <4> QED BY <3>7, <4>4 DEF Putting
    <3> QED BY <1>1, <1>3, <2>2, <3>2, <3>4, <3>5, <3>6, <3>7, ImporterMoves
  <2> QED BY <2>1, <2>3, <2>4, <2>5
<1> QED BY <1>2, <1>3

\* The importer's target stays, as no id in use is drawn again.
LEMMA TargetKept ==
  ASSUME ContentInv, NEW u \in Importer, UNCHANGED <<at, into, edition>>, IdsStay,
         pc'[u] = "item" => pc[u] = "item" /\ job'[u] = job[u]
  PROVE  Target(u)'
<1>1. PICK i, v : i = into[u] /\ v = job[u].vault OBVIOUS
<1>2. i \in IdsInUse /\ v \in IdsInUse BY <1>1, InUse, ImportAssumption
<1>3. \A s : (VaultIs(i, s) => VaultIs(i, s)') /\ (VaultIs(v, s) => VaultIs(v, s)')
  BY <1>2, SameRow
<1>4. /\ i # None =>
           \E m \in 1 .. Len(Export) : IsVaultOf(m, at[u]) /\ VaultIs(i, Export[m].source)
      /\ pc[u] = "item" =>
           /\ job[u].body = edition[u]
           /\ \E m \in 1 .. Len(Export) : IsVaultOf(m, at[u]) /\ VaultIs(v, Export[m].source)
  BY <1>1 DEF ContentInv, Target
<1>5. /\ into'[u] = i /\ at'[u] = at[u] /\ edition'[u] = edition[u]
      /\ pc'[u] = "item" => pc[u] = "item" /\ job'[u].vault = v /\ job'[u] = job[u]
  BY <1>1
<1>6. \A s : VaultIs(i, s)' => VaultIs(into[u], s)' BY <1>5 DEF VaultIs
<1>7. \A s : pc'[u] = "item" /\ VaultIs(v, s)' => VaultIs(job[u].vault, s)'
  BY <1>5 DEF VaultIs
<1> QED BY <1>3, <1>4, <1>5, <1>6, <1>7 DEF Target

\* A handler's step leaves the vault that an importer puts items into.
LEMMA TargetHandler ==
  ASSUME ContentInv, NEW t \in Thread, Handler(t), UNCHANGED <<at, edition>>,
         NEW u \in Importer
  PROVE  Target(u)'
<1>1. ImportInv /\ CustodyInv /\ u \in Thread
  BY ImportAssumption DEF ContentInv, ImportInv
<1>2. IdsStay /\ into' = into BY <1>1, HandlerKeeps DEF Handler
<1>3. CASE t = u
  <2>1. pc'[u] # "item" BY <1>1, <1>3, ImporterMoves
  <2> QED BY <1>2, <2>1, TargetKept
<1>4. CASE t # u
  <2>1. pc'[u] = pc[u] /\ job'[u] = job[u] BY <1>1, <1>4, HandlerFrame
  <2> QED BY <1>2, <2>1, TargetKept
<1> QED BY <1>3, <1>4

\* A handler of another client works on a source that this client has asked for.
LEMMA ForeignHandler ==
  ASSUME ImportInv, NEW t \in Thread, Handler(t), NEW u \in Thread \ Importer, Foreign(u)
  PROVE  Foreign(u)'
<1>1. CustodyInv BY DEF ImportInv
<1>2. CASE t # u
  <2>1. pc'[u] = pc[u] /\ job'[u] = job[u] BY <1>1, <1>2, HandlerFrame
  <2> QED BY <2>1 DEF Foreign
<1>3. CASE t = u
  <2>1. ASSUME NEW p, NEW j, Goto(t, p, j) PROVE pc'[t] = p /\ job'[t] = j
    BY <1>1, <2>1 DEF Goto, CustodyInv, HandlerTyped
  <2>2. ASSUME NEW r, Answer(t, r) PROVE pc'[t] = "idle"
    BY <2>1, <2>2 DEF Answer
  <2>3. ASSUME NEW db, NEW id, Executed(t, db, id) PROVE pc'[t] = "written"
    BY <1>1, <2>3, ExecutedGives
  <2>4. CASE \E c \in Creates[t] : VaultLook(t, c.name, c.source)
    <3>1. PICK c \in Creates[t] : VaultLook(t, c.name, c.source) BY <2>4
    <3>2. CASE \E v : Answer(t, v) BY <1>3, <2>2, <3>2 DEF Foreign
    <3>3. CASE \E o : Goto(t, "vault", [NoJob EXCEPT !.name = c.name,
                                        !.source = c.source, !.old = o])
      <4>1. PICK o : Goto(t, "vault", [NoJob EXCEPT !.name = c.name,
                                       !.source = c.source, !.old = o])
        BY <3>3
      <4>2. [NoJob EXCEPT !.name = c.name, !.source = c.source, !.old = o].source = c.source
        BY DEF NoJob
      <4>3. pc'[t] = "vault" /\ job'[t].source = c.source BY <2>1, <4>1, <4>2
      <4> QED BY <1>3, <4>3 DEF Foreign
    <3> QED BY <3>1, <3>2, <3>3 DEF VaultLook
  <2>5. CASE \E p \in Puts[t] : ItemLook(t, p.ref, p.source, p.body)
    <3>1. PICK p \in Puts[t] : ItemLook(t, p.ref, p.source, p.body) BY <2>5
    <3>2. CASE Answer(t, Error) BY <1>3, <2>2, <3>2 DEF Foreign
    <3>3. CASE \E v, o, w :
                 Goto(t, "item", [name |-> None, vault |-> v, source |-> p.source,
                                  body |-> p.body, old |-> o, req |-> None, row |-> w])
      <4>1. pc'[t] = "item" /\ job'[t].source = p.source BY <2>1, <3>3
      <4> QED BY <1>3, <4>1 DEF Foreign
    <3> QED BY <3>1, <3>2, <3>3 DEF ItemLook
  <2>6. ASSUME Refused(t) \/ Missed(t) PROVE Foreign(t)'
    BY <2>2, <2>3, <2>6 DEF Refused, Missed, Foreign
  <2>7. CASE VaultUpdate(t) \/ VaultInsert(t)
    BY <1>1, <1>3, <2>3, <2>6, <2>7, VaultWrites DEF VaultWritten, Foreign
  <2>8. CASE ItemUpdate(t) \/ ItemInsert(t)
    BY <1>1, <1>3, <2>3, <2>6, <2>8, ItemWrites DEF ItemWritten, Foreign
  <2>9. CASE CommitStep(t) \/ ReviewLook(t) \/ ReviewWrite(t)
    <3>1. pc'[t] \in {"committed", "review", "written"}
      BY <2>1, <2>9 DEF CommitStep, ReviewLook, ReviewWrite
    <3> QED BY <1>3, <3>1 DEF Foreign
  <2>10. CASE ReplyStep(t) \/ Locked(t) \/ ReviewLost(t)
    BY <1>3, <2>2, <2>10 DEF ReplyStep, Locked, ReviewLost, Foreign
  <2> QED BY <2>4, <2>5, <2>7, <2>8, <2>9, <2>10 DEF Handler, AdminCall
<1> QED BY <1>2, <1>3

\* A kill leaves what was committed.
LEMMA ContentCrash ==
  ASSUME ContentInv, NEW d \in Daemon, Crash(d), UNCHANGED <<at, edition, once>>
  PROVE  ContentInv'
<1>1. ImportInv /\ CustodyInv /\ ConnInv BY DEF ContentInv, ImportInv, CustodyInv
<1>2. ImportInv' BY <1>1, ServerKeeps DEF CustodyNext
<1>3. Moves({d}) BY <1>1, RollbackMoves DEF Crash
<1>4. \A db \in Versions' : Placed(db) BY <1>3 DEF Moves, ContentInv
<1>5. ASSUME NEW u \in Thread
      PROVE  \/ pc'[u] = "idle" /\ (u \in Importer => reply'[u] = Error)
             \/ /\ pc'[u] = pc[u] /\ job'[u] = job[u] /\ reply'[u] = reply[u]
                /\ Home[u] # d \/ pc[u] = "idle"
  BY DEF Crash
<1>6. ASSUME NEW u \in Thread \ Importer PROVE Foreign(u)'
  BY <1>5 DEF ContentInv, Foreign
<1>7. ASSUME NEW u \in Importer PROVE Target(u)'
  <2>1. IdsStay /\ into' = into BY <1>1, CrashKeeps DEF Crash
  <2>2. u \in Thread BY ImportAssumption
  <2>3. pc'[u] = "item" => pc[u] = "item" /\ job'[u] = job[u] BY <1>5, <2>2
  <2> QED BY <2>1, <2>3, TargetKept
<1>8. ASSUME NEW u \in Importer PROVE Contents(u)'
  <2>1. u \in Thread /\ Home[u] \in Daemon BY ImportAssumption, CustodyAssumption
  <2> SUFFICES ASSUME u \notin undone', NEW n \in DOMAIN Export, OwnItem(n)
               PROVE  /\ Put(u, n)' => Settled(n, edition[u])'
                      /\ Putting(u, n)' => Pending(u, n, edition[u])'
    BY DEF Contents
  <2> u \notin undone BY DEF Crash
  <2>2. Put(u, n)' => Put(u, n) BY <1>5, <2>1 DEF Put
  <2>3. Put(u, n)' => Settled(n, edition[u])'
    BY <1>3, <2>2, SettledMoves DEF ContentInv, Contents
  <2>4. Putting(u, n)' => Putting(u, n) /\ Home[u] # d BY <1>5, <2>1 DEF Putting
  <2>5. Putting(u, n)' => Pending(u, n, edition[u])'
    BY <1>3, <2>1, <2>4, PendingMoves DEF ContentInv, Contents
  <2> QED BY <2>3, <2>5
<1> QED BY <1>2, <1>4, <1>6, <1>7, <1>8 DEF ContentInv

-----------------------------------------------------------------------------
(* The clients keep the contents *)

\* A client's step that touches no handler is safe when its own target and contents are.
LEMMA ClientContent ==
  ASSUME ContentInv, NEW t \in Importer, OneImporter, ImportInv',
         UNCHANGED <<disk, conn, pc, job>>, Target(t)', Contents(t)'
  PROVE  ContentInv'
<1>1. Versions' = Versions BY QuietMoves
<1>2. \A u \in Importer : u = t BY DEF OneImporter
<1> QED BY <1>1, <1>2 DEF ContentInv, Foreign

\* import_export passes over an item in the trash.
LEMMA ContentSkipTrashed ==
  ASSUME ContentInv, OneImporter, NEW t \in Importer, SkipTrashed(t)
  PROVE  ContentInv'
<1>1. /\ at[t] <= Len(Export) /\ pc[t] = "idle" /\ reply[t] = None /\ Advance(t)
      /\ Entry(t).op = "item" /\ ~Entry(t).live
      /\ UNCHANGED <<disk, conn, pc, job, reply, into, undone, edition>> /\ ImportInv
  BY ImportAssumption
  DEF SkipTrashed, Ended, custody, ContentInv, ImportInv, ImportTyped
<1>2. ImportInv' BY <1>1, SkipTrashedKeeps
<1>3. at[t] \in Nat /\ at[t] > 0 /\ at'[t] = at[t] + 1
  BY <1>1, EntryTyped DEF Advance, ImportInv, ImportTyped
<1>4. Target(t)'
  <2>1. \A m : IsVaultOf(m, at[t]) => IsVaultOf(m, at'[t])
    BY <1>1, <1>3, NextVault DEF Entry
  <2>2. Versions' = Versions BY <1>1, QuietMoves
  <2> QED BY <1>1, <2>1, <2>2 DEF ContentInv, Target, VaultIs
<1>5. Contents(t)'
  <2>1. \A n \in DOMAIN Export : OwnItem(n) => n # at[t]
    BY <1>1 DEF OwnItem, Entry
  <2>2. \A n \in DOMAIN Export : OwnItem(n) => (Put(t, n)' => Put(t, n)) /\ ~Putting(t, n)'
    BY <1>1, <1>3, <2>1, ImportAssumption DEF Put, Putting
  <2>3. \A n : Settled(n, edition[t])' = Settled(n, edition[t])
    BY <1>1 DEF Settled, Writers
  <2> QED BY <1>1, <2>2, <2>3 DEF ContentInv, Contents
<1> QED BY <1>1, <1>2, <1>4, <1>5, ClientContent

\* import_export takes an answer and goes on.
LEMMA ContentReceive ==
  ASSUME ContentInv, OneImporter, NEW t \in Importer, Receive(t)
  PROVE  ContentInv'
<1> DEFINE e == Entry(t)
<1>1. /\ reply[t] \notin {None, Error} /\ Reply(t, None) /\ Advance(t)
      /\ into' = IF e.op = "vault" THEN [into EXCEPT ![t] = reply[t]] ELSE into
      /\ UNCHANGED <<disk, conn, pc, job, undone, edition>> /\ ImportInv
  BY DEF Receive, ContentInv
<1>2. ImportInv' BY <1>1, ReceiveKeeps
<1>3. at[t] <= Len(Export) /\ Names(reply[t], e) /\ pc[t] = "idle"
  BY <1>1 DEF ImportInv, Position
<1>4. /\ at[t] \in Nat /\ at[t] > 0 /\ at'[t] = at[t] + 1 /\ at[t] \in 1 .. Len(Export)
      /\ e.op \in {"vault", "item"}
  BY <1>1, <1>3, EntryTyped DEF Advance, ImportInv, ImportTyped
<1>5. Target(t)'
  <2>0. Versions' = Versions BY <1>1, QuietMoves
  <2>1. CASE e.op = "vault"
    <3>1. into'[t] = reply[t] BY <1>1, <2>1 DEF ImportInv, ImportTyped
    <3>2. IsVaultOf(at[t], at'[t]) BY <1>4, <2>1, NextVault DEF Entry
    <3>3. PICK m : m = at[t] OBVIOUS
    <3>4. VaultIs(reply[t], Export[m].source) BY <1>3, <2>1, <3>3 DEF Names, Entry
    <3>5. VaultIs(into[t], Export[m].source)'
      BY <1>1, <2>0, <3>1, <3>4 DEF VaultIs
    <3> QED BY <1>1, <1>3, <1>4, <3>2, <3>3, <3>5 DEF Target
  <2>2. CASE e.op # "vault"
    <3>1. \A m : IsVaultOf(m, at[t]) => IsVaultOf(m, at'[t])
      BY <1>4, <2>2, NextVault DEF Entry
    <3>2. into'[t] = into[t] BY <1>1, <2>2
    <3> QED BY <1>1, <1>3, <2>0, <3>1, <3>2 DEF ContentInv, Target, VaultIs
  <2> QED BY <2>1, <2>2
<1>6. Contents(t)'
  <2>1. reply'[t] = None
    BY <1>1, ImportAssumption DEF Reply, ImportInv, CustodyInv, HandlerTyped
  <2>2. \A n \in DOMAIN Export : (Put(t, n)' => Put(t, n)) /\ ~Putting(t, n)'
    BY <1>1, <1>3, <1>4, <2>1, ImportAssumption DEF Put, Putting
  <2>3. \A n : Settled(n, edition[t])' = Settled(n, edition[t])
    BY <1>1 DEF Settled, Writers
  <2> QED BY <1>1, <2>2, <2>3 DEF ContentInv, Contents
<1> QED BY <1>1, <1>2, <1>5, <1>6, ClientContent

\* An import that failed or ended is run again, with a new edition.
LEMMA ContentAgain ==
  ASSUME ContentInv, OneImporter, NEW t \in Importer, Again(t)
  PROVE  ContentInv'
<1>1. /\ pc[t] = "idle" /\ Reply(t, None) /\ ImportInv
      /\ at' = [at EXCEPT ![t] = 1] /\ into' = [into EXCEPT ![t] = None]
      /\ UNCHANGED <<disk, conn, pc, job>>
  BY DEF Again, ContentInv
<1>2. ImportInv' BY <1>1, AgainKeeps
<1>3. reply'[t] = None /\ at'[t] = 1 /\ into'[t] = None
  BY <1>1, ImportAssumption DEF Reply, ImportInv, ImportTyped, CustodyInv, HandlerTyped
<1>4. Target(t)' BY <1>1, <1>3 DEF Target
<1>5. Contents(t)'
  <2>1. \A n \in DOMAIN Export : ~Put(t, n)' /\ ~Putting(t, n)'
    BY <1>1, <1>3, ImportAssumption DEF Put, Putting
  <2> QED BY <2>1 DEF Contents
<1> QED BY <1>1, <1>2, <1>4, <1>5, ClientContent

\* A vault that the importer names is found by its id, or not at all.
LEMMA IntoFound ==
  ASSUME ContentInv, IdsApart, NEW t \in Importer,
         Cardinality(FindVault(Db(t), into[t])) = 1
  PROVE  into[t] # None /\ The(FindVault(Db(t), into[t])) = into[t]
<1>1. /\ ConnInv /\ Home[t] \in Daemon /\ into[t] \in Vault \cup {None}
  BY ImportAssumption, CustodyAssumption
  DEF ContentInv, ImportInv, ImportTyped, CustodyInv
<1>2. Good(Db(t)) BY <1>1, ViewGood DEF Db
<1>3. Named(Db(t), into[t]) = {}
  <2>1. \A v \in Rows(Db(t).vaults) : Db(t).vaults[v].name \in Name
    BY <1>2 DEF Good, DbType, Rows, VaultRow
  <2>2. into[t] \notin Name BY <1>1 DEF IdsApart
  <2> QED BY <2>1, <2>2 DEF Named
<1>4. into[t] \in Rows(Db(t).vaults)
  <2>1. FindVault(Db(t), into[t]) # {} BY FS_EmptySet
  <2> QED BY <1>3, <2>1 DEF FindVault
<1>5. into[t] # None BY <1>2, <1>4, CustodyAssumption DEF Good, DbType, Rows
<1>6. FindVault(Db(t), into[t]) = {into[t]} BY <1>4 DEF FindVault
<1> QED BY <1>5, <1>6, TheIn

\* import_export makes its next call.
LEMMA ContentCallNext ==
  ASSUME ContentInv, IdsApart, OneImporter, NEW t \in Importer, CallNext(t)
  PROVE  ContentInv'
<1> DEFINE e == Entry(t)
<1>1. /\ pc[t] = "idle" /\ reply[t] = None /\ t \in Thread /\ Home[t] \in Daemon
      /\ UNCHANGED <<at, into, edition>> /\ ImportInv /\ CustodyInv /\ ConnInv
  BY ImportAssumption, CustodyAssumption DEF CallNext, ContentInv, ImportInv, CustodyInv
<1>2. ImportInv' BY <1>1, CallNextKeeps
<1>3. Select(Home[t]) BY DEF CallNext, VaultLook, ItemLook
<1>4. Moves({}) BY <1>1, <1>3, SelectMoves
<1>5. undone' = undone BY DEF CallNext, VaultLook, ItemLook
<1>6. at[t] <= Len(Export) /\ at[t] \in Nat
  BY ImportAssumption DEF CallNext, Ended, ContentInv, ImportInv, ImportTyped
<1>7. ASSUME NEW p, NEW j, Goto(t, p, j)
      PROVE  /\ pc'[t] = p /\ job'[t] = j
             /\ \A u \in Thread : u # t => pc'[u] = pc[u] /\ job'[u] = job[u]
  BY <1>1, <1>7 DEF Goto, CustodyInv, HandlerTyped
<1>8. ASSUME NEW r, Reply(t, r) PROVE reply'[t] = r
  BY <1>1, <1>8 DEF Reply, CustodyInv, HandlerTyped
<1>9. /\ pc'[t] \in {"idle", "vault", "item"} /\ reply'[t] \in {None, Error}
      /\ \A u \in Thread : u # t => pc'[u] = pc[u] /\ job'[u] = job[u]
      /\ pc'[t] = "item" =>
           /\ job'[t].body = edition[t] /\ job'[t].vault = The(FindVault(Db(t), into[t]))
           /\ Cardinality(FindVault(Db(t), into[t])) = 1
  <2>1. CASE e.op = "vault" /\ VaultLook(t, e.name, e.source)
    <3>1. e.source # None BY <1>1, <1>6, <2>1, EntryTyped
    <3>2. PICK j : Goto(t, "vault", j) /\ Reply(t, None)
      BY <2>1, <3>1 DEF VaultLook
    <3> QED BY <1>7, <1>8, <3>2
  <2>2. CASE \E s : ItemLook(t, into[t], s, edition[t])
    <3>1. PICK s : ItemLook(t, into[t], s, edition[t]) BY <2>2
    <3>2. CASE Answer(t, Error) BY <1>7, <1>8, <3>2 DEF Answer
    <3>3. CASE /\ Cardinality(FindVault(Db(t), into[t])) = 1
               /\ \E o, w :
                    Goto(t, "item", [name |-> None, vault |-> The(FindVault(Db(t), into[t])),
                                     source |-> s, body |-> edition[t],
                                     old |-> o, req |-> None, row |-> w])
               /\ Reply(t, None)
      <4>1. PICK o, w :
                    Goto(t, "item", [name |-> None, vault |-> The(FindVault(Db(t), into[t])),
                                     source |-> s, body |-> edition[t],
                                     old |-> o, req |-> None, row |-> w])
        BY <3>3
      <4>2. /\ pc'[t] = "item" /\ job'[t].body = edition[t]
            /\ job'[t].vault = The(FindVault(Db(t), into[t]))
            /\ \A u \in Thread : u # t => pc'[u] = pc[u] /\ job'[u] = job[u]
        BY <1>7, <4>1
      <4> QED BY <1>8, <3>3, <4>2
    <3> QED BY <3>1, <3>2, <3>3 DEF ItemLook
  <2> QED BY <2>1, <2>2 DEF CallNext
<1>10. Target(t)'
  <2>1. pc'[t] = "item" => into[t] # None /\ job'[t].vault = into[t]
    BY <1>9, IntoFound
  <2>2. Versions' \subseteq Versions BY <1>4 DEF Moves
  <2> QED BY <1>1, <1>9, <2>1, <2>2 DEF ContentInv, Target, VaultIs
<1>11. Contents(t)'
  <2>1. \A n \in DOMAIN Export : (Put(t, n)' => Put(t, n)) /\ ~Putting(t, n)'
    BY <1>1, <1>9 DEF Put, Putting
  <2>2. \A n : Settled(n, edition[t]) => Settled(n, edition[t])'
    BY <1>1, <1>4, SettledMoves
  <2> QED BY <1>1, <1>5, <2>1, <2>2 DEF ContentInv, Contents
<1>12. \A db \in Versions' : Placed(db) BY <1>4 DEF Moves, ContentInv
<1>13. \A u \in Importer : u = t BY DEF OneImporter
<1>14. ASSUME NEW u \in Thread \ Importer PROVE Foreign(u)'
  BY <1>9 DEF ContentInv, Foreign
<1> QED BY <1>2, <1>10, <1>11, <1>12, <1>13, <1>14 DEF ContentInv

-----------------------------------------------------------------------------
(* The import is complete *)

\* The invariant holds at first.
LEMMA ContentInit ==
  ASSUME Init, IdsApart
  PROVE  ContentInv
<1>1. ImportInv BY ImportInit
<1>2. /\ pc = [t \in Thread |-> "idle"] /\ reply = [t \in Thread |-> None]
      /\ at = [t \in Importer |-> 1] /\ into = [t \in Importer |-> None]
  BY DEF Init, CustodyInit
<1>3. \A db \in Versions : Rows(db.items) = {}
  BY DEF Init, CustodyInit, ConnInit, Versions, View, Closed, Rows
<1>4. \A db \in Versions : Placed(db) BY <1>3 DEF Placed
<1>5. \A u \in Thread \ Importer : Foreign(u) BY <1>2 DEF Foreign
<1>6. ASSUME NEW t \in Importer PROVE Target(t) /\ Contents(t)
  <2>1. t \in Thread /\ pc[t] = "idle" /\ reply[t] = None /\ at[t] = 1 /\ into[t] = None
    BY <1>2, ImportAssumption
  <2>2. \A n \in DOMAIN Export : ~Put(t, n) /\ ~Putting(t, n)
    BY <2>1, ImportAssumption DEF Put, Putting
  <2> QED BY <2>1, <2>2 DEF Target, Contents
<1> QED BY <1>1, <1>4, <1>5, <1>6 DEF ContentInv

\* No step breaks the invariant.
LEMMA ContentStep ==
  ASSUME ContentInv, IdsApart, OneImporter, [Next]_vars
  PROVE  ContentInv'
<1>1. ImportInv' BY ImportStep DEF ContentInv
<1>2. CASE UNCHANGED vars
  <2>1. UNCHANGED <<disk, conn, pc, job, reply, at, into, undone, edition>>
    BY <1>2 DEF vars, custody
  <2>2. Versions' = Versions BY <2>1, QuietMoves
  <2>3. \A t \in Importer : Target(t)'
    BY <2>1, <2>2 DEF ContentInv, Target, VaultIs
  <2>4. \A t \in Importer : Contents(t)'
    BY <2>1 DEF ContentInv, Contents, Put, Putting, Settled, Pending, Writers
  <2> QED BY <1>1, <2>1, <2>2, <2>3, <2>4 DEF ContentInv, Foreign
<1>3. CASE \E t \in Importer : SkipTrashed(t) \/ CallNext(t) \/ Receive(t) \/ Again(t)
  BY <1>3, ContentSkipTrashed, ContentCallNext, ContentReceive, ContentAgain
<1>4. CASE (\E t \in Thread : Handler(t)) /\ UNCHANGED <<at, edition, once>>
  BY <1>1, <1>4, PlacedHandler, ForeignHandler, TargetHandler, ContentsHandler
  DEF ContentInv
<1>5. CASE (\E d \in Daemon : Crash(d)) /\ UNCHANGED <<at, edition, once>>
  BY <1>5, ContentCrash
<1> QED BY <1>2, <1>3, <1>4, <1>5 DEF Next, CustodyNext

\* The invariant behind the content of an import.
LEMMA ContentAlways ==
  ASSUME OneImporter, IdsApart
  PROVE  Spec => []ContentInv
<1>1. Init => ContentInv BY ContentInit
<1>2. ContentInv /\ [Next]_vars => ContentInv' BY ContentStep
<1> QED BY <1>1, <1>2, PTL DEF Spec

\* import_export: an import that reports its end has put every live item of the
\* export once, whatever failed before, unless the rollback of a review that lost to
\* another daemon has undone a write of it; an item that nobody else puts is then in
\* the vault of its source, with the content of this export.
THEOREM ImportAlwaysComplete ==
  ASSUME OneImporter, IdsApart
  PROVE  Spec => []ImportComplete
<1>1. ASSUME ContentInv, NEW t \in Importer, Ended(t), t \notin undone,
             NEW n \in DOMAIN Export, Export[n].op = "item", Export[n].live, Export[n].source # None
      PROVE  \E i \in Item :
               /\ From(disk.items, Export[n].source) = {i}
               /\ \/ Export[n].source \in Meddled
                  \/ /\ disk.items[i].body = edition[t]
                     /\ disk.vaults[disk.items[i].vault].source = VaultOf(n).source
  <2>1. n \in 1 .. at[t] - 1 BY <1>1, ImportAssumption DEF Ended
  <2>2. Imported(disk, Export[n]) /\ Good(disk)
    BY <1>1, <2>1 DEF ContentInv, ImportInv, Position, Present, CustodyInv, ConnInv
  <2>3. PICK i \in Rows(disk.items) : disk.items[i].source = Export[n].source
    BY <1>1, <2>2 DEF Imported
  <2>4. i \in Item BY <2>2 DEF Good, DbType, Rows
  <2>5. From(disk.items, Export[n].source) = {i}
    BY <1>1, <2>2, <2>3 DEF Good, UniqueSources, From
  <2>6. ASSUME Export[n].source \notin Meddled
        PROVE  /\ disk.items[i].body = edition[t]
               /\ disk.vaults[disk.items[i].vault].source = VaultOf(n).source
    <3>1. OwnItem(n) BY <1>1, <2>6 DEF OwnItem
    <3>2. Put(t, n)
      BY <1>1, <2>1, ImportAssumption DEF Put, ContentInv, ImportInv, ImportTyped
    <3>3. Current(disk, n, edition[t])
      BY <1>1, <3>1, <3>2 DEF ContentInv, Contents, Settled
    <3>4. Placed(disk) BY <1>1 DEF ContentInv, Versions
    <3> QED BY <2>3, <3>1, <3>3, <3>4 DEF Current, Placed
  <2> QED BY <2>4, <2>5, <2>6
<1>2. ContentInv => ImportComplete BY <1>1 DEF ImportComplete
<1> QED BY <1>2, ContentAlways, PTL

-----------------------------------------------------------------------------
(* Importing again adds nothing *)

VaultSources == {Export[n].source : n \in {m \in DOMAIN Export : Export[m].op = "vault"}}
ItemSources ==
  {Export[n].source : n \in {m \in DOMAIN Export : Export[m].op = "item" /\ Export[m].live}}

\* Every item has an id, and nobody brings in a source that is not the export's.
OnlyTheExport ==
  /\ None \notin ItemSources
  /\ \A t \in Thread : \A c \in Creates[t] : c.source \in VaultSources \cup {None}
  /\ \A t \in Thread : \A p \in Puts[t] : p.source \in ItemSources \cup {None}

Known(db) ==
  /\ \A v \in Rows(db.vaults) : db.vaults[v].source \in VaultSources \cup {None}
  /\ \A i \in Rows(db.items) : db.items[i].source \in ItemSources \cup {None}

KnownInv ==
  /\ ImportInv
  /\ \A db \in Versions : Known(db)
  /\ \A u \in Thread \ Importer : Foreign(u)

\* Whatever is being put has a source of the export, or none.
LEMMA JobKnown ==
  ASSUME KnownInv, OnlyTheExport, NEW t \in Thread
  PROVE  /\ pc[t] = "vault" => job[t].source \in VaultSources \cup {None}
         /\ pc[t] = "item" => job[t].source \in ItemSources \cup {None}
<1>1. CASE t \notin Importer
  <2>1. pc[t] = "vault" => \E c \in Creates[t] : job[t].source = c.source
    BY <1>1 DEF KnownInv, Foreign
  <2>2. pc[t] = "item" => \E p \in Puts[t] : job[t].source = p.source
    BY <1>1 DEF KnownInv, Foreign
  <2> QED BY <2>1, <2>2 DEF OnlyTheExport
<1>2. CASE t \in Importer
  <2>1. Position(t) BY <1>2 DEF KnownInv, ImportInv
  <2>2. SUFFICES ASSUME pc[t] \in {"vault", "item"}
                 PROVE  /\ pc[t] = "vault" => job[t].source \in VaultSources
                        /\ pc[t] = "item" => job[t].source \in ItemSources
    OBVIOUS
  <2>3. at[t] \in DOMAIN Export
    BY <1>2, <2>1, <2>2, EntryTyped, ImportAssumption DEF Position, KnownInv
  <2>4. Entry(t).op = "vault" => Entry(t).source \in VaultSources
    BY <2>3 DEF Entry, VaultSources
  <2>5. Entry(t).op = "item" /\ Entry(t).live => Entry(t).source \in ItemSources
    BY <2>3 DEF Entry, ItemSources
  <2> QED BY <2>1, <2>4, <2>5 DEF Position, OnlyTheExport
<1> QED BY <1>1, <1>2

\* A handler stores no other source.
LEMMA KnownHandler ==
  ASSUME KnownInv, OnlyTheExport, NEW t \in Thread, Handler(t)
  PROVE  \A db \in Versions' : Known(db)
<1>1. /\ CustodyInv /\ ConnInv /\ Home[t] \in Daemon /\ Good(Db(t)) /\ Known(Db(t))
      /\ Db(t) \in Versions
  <2>1. CustodyInv /\ ConnInv /\ Home[t] \in Daemon
    BY CustodyAssumption DEF KnownInv, ImportInv, CustodyInv
  <2> QED BY <2>1, ViewGood DEF Db, Versions, KnownInv
<1>2. CASE Moves({}) \/ Moves({Home[t]}) BY <1>2 DEF Moves, KnownInv
<1>3. CASE Quiet(t)
  <2>1. PICK new : /\ new.vaults = Db(t).vaults /\ new.items = Db(t).items
                   /\ Execute(Home[t], new)
    BY <1>3 DEF Quiet
  <2>2. Versions' \subseteq Versions \cup {new} BY <1>1, <2>1, ExecuteMoves
  <2>3. Known(new) BY <1>1, <2>1 DEF Known
  <2> QED BY <2>2, <2>3 DEF KnownInv
<1>4. CASE pc[t] = "vault" /\ VaultWritten(t)
  <2>1. PICK v \in Vault, row \in VaultRow :
          /\ row.source = job[t].source
          /\ Executed(t, [Db(t) EXCEPT !.vaults[v] = row], v)
    BY <1>4 DEF VaultWritten
  <2> DEFINE new == [Db(t) EXCEPT !.vaults[v] = row]
  <2>2. row.source \in VaultSources \cup {None} BY <1>4, <2>1, JobKnown
  <2>3. /\ new.items = Db(t).items /\ new.vaults[v] = row
        /\ Rows(new.vaults) = Rows(Db(t).vaults) \cup {v}
        /\ \A w \in Rows(Db(t).vaults) : w # v => new.vaults[w] = Db(t).vaults[w]
    BY <1>1, RowsOfPutVault
  <2>4. Execute(Home[t], new) BY <2>1 DEF Executed
  <2> HIDE DEF new
  <2>5. Known(new) BY <1>1, <2>2, <2>3 DEF Known
  <2>6. Versions' \subseteq Versions \cup {new} BY <1>1, <2>4, ExecuteMoves
  <2> QED BY <2>5, <2>6 DEF KnownInv
<1>5. CASE pc[t] = "item" /\ ItemWritten(t)
  <2>1. PICK i \in Item, row \in ItemRow :
          /\ row.source = job[t].source
          /\ Executed(t, [Db(t) EXCEPT !.items[i] = row], i)
    BY <1>5 DEF ItemWritten
  <2> DEFINE new == [Db(t) EXCEPT !.items[i] = row]
  <2>2. row.source \in ItemSources \cup {None} BY <1>5, <2>1, JobKnown
  <2>3. /\ new.vaults = Db(t).vaults /\ new.items[i] = row
        /\ Rows(new.items) = Rows(Db(t).items) \cup {i}
        /\ \A j \in Rows(Db(t).items) : j # i => new.items[j] = Db(t).items[j]
    BY <1>1, RowsOfPutItem
  <2>4. Execute(Home[t], new) BY <2>1 DEF Executed
  <2> HIDE DEF new
  <2>5. Known(new) BY <1>1, <2>2, <2>3 DEF Known
  <2>6. Versions' \subseteq Versions \cup {new} BY <1>1, <2>4, ExecuteMoves
  <2> QED BY <2>5, <2>6 DEF KnownInv
<1> QED BY <1>1, <1>2, <1>3, <1>4, <1>5, HandlerMoves

\* The invariant holds at first.
LEMMA KnownInit ==
  ASSUME Init
  PROVE  KnownInv
<1>1. \A db \in Versions : Rows(db.items) = {} /\ Rows(db.vaults) = {}
  BY DEF Init, CustodyInit, ConnInit, Versions, View, Closed, Rows
<1>2. \A u \in Thread \ Importer : Foreign(u) BY DEF Init, CustodyInit, Foreign
<1> QED BY <1>1, <1>2, ImportInit DEF KnownInv, Known

\* No step breaks the invariant.
LEMMA KnownStep ==
  ASSUME KnownInv, OnlyTheExport, [Next]_vars
  PROVE  KnownInv'
<1>1. ImportInv /\ ImportInv' /\ CustodyInv /\ ConnInv
  BY ImportStep DEF KnownInv, ImportInv, CustodyInv
<1>2. ASSUME UNCHANGED <<disk, conn, pc, job>> PROVE KnownInv'
  <2>1. Versions' = Versions BY <1>2, QuietMoves
  <2> QED BY <1>1, <1>2, <2>1 DEF KnownInv, Foreign
<1>3. CASE UNCHANGED vars BY <1>2, <1>3 DEF vars, custody
<1>4. CASE \E t \in Importer : SkipTrashed(t) \/ Receive(t) \/ Again(t)
  BY <1>2, <1>4 DEF SkipTrashed, Receive, Again, custody
<1>5. CASE \E t \in Importer : CallNext(t)
  <2>1. PICK t \in Importer : CallNext(t) BY <1>5
  <2>2. t \in Thread /\ Select(Home[t]) /\ Home[t] \in Daemon
    BY <2>1, ImportAssumption, CustodyAssumption DEF CallNext, VaultLook, ItemLook
  <2>3. Versions' \subseteq Versions BY <1>1, <2>2, SelectMoves DEF Moves
  <2>4. \E p, j : Goto(t, p, j)
    BY <2>1 DEF CallNext, VaultLook, ItemLook, Answer
  <2>5. \A u \in Thread \ Importer : pc'[u] = pc[u] /\ job'[u] = job[u]
    BY <1>1, <2>4 DEF Goto, CustodyInv, HandlerTyped
  <2> QED BY <1>1, <2>3, <2>5 DEF KnownInv, Foreign
<1>6. CASE \E t \in Thread : Handler(t)
  BY <1>1, <1>6, KnownHandler, ForeignHandler DEF KnownInv
<1>7. CASE \E d \in Daemon : Crash(d)
  <2>1. PICK d \in Daemon : Crash(d) BY <1>7
  <2>2. Versions' \subseteq Versions BY <1>1, <2>1, RollbackMoves DEF Crash, Moves
  <2>3. ASSUME NEW u \in Thread \ Importer PROVE Foreign(u)'
    <3>1. pc'[u] = "idle" \/ (pc'[u] = pc[u] /\ job'[u] = job[u]) BY <2>1 DEF Crash
    <3> QED BY <3>1 DEF KnownInv, Foreign
  <2> QED BY <1>1, <2>2, <2>3 DEF KnownInv
<1> QED BY <1>3, <1>4, <1>5, <1>6, <1>7 DEF Next, CustodyNext

\* After a finished import, each source has its one row already.
LEMMA NothingAdded ==
  ASSUME KnownInv, KnownInv', once, NEW s \in Source
  PROVE  /\ Cardinality(From(disk'.vaults, s)) <= Cardinality(From(disk.vaults, s))
         /\ Cardinality(From(disk'.items, s)) <= Cardinality(From(disk.items, s))
<1>1. /\ UniqueSources(disk.vaults) /\ UniqueSources(disk.items)
      /\ UniqueSources(disk'.vaults) /\ UniqueSources(disk'.items)
      /\ Known(disk')
  BY DEF KnownInv, Versions, ImportInv, CustodyInv, ConnInv, Good
<1>2. \A n \in DOMAIN Export : Imported(disk, Export[n])
  BY DEF KnownInv, ImportInv, Finished
<1>3. s # None BY CustodyAssumption
<1>4. From(disk'.vaults, s) # {} => From(disk.vaults, s) # {}
  <2>1. SUFFICES ASSUME From(disk'.vaults, s) # {} PROVE From(disk.vaults, s) # {}
    OBVIOUS
  <2>2. s \in VaultSources BY <1>1, <1>3, <2>1 DEF Known, From
  <2>3. PICK n \in DOMAIN Export : Export[n].op = "vault" /\ Export[n].source = s
    BY <2>2 DEF VaultSources
  <2> QED BY <1>2, <2>3 DEF Imported, From
<1>5. From(disk'.items, s) # {} => From(disk.items, s) # {}
  <2>1. SUFFICES ASSUME From(disk'.items, s) # {} PROVE From(disk.items, s) # {}
    OBVIOUS
  <2>2. s \in ItemSources BY <1>1, <1>3, <2>1 DEF Known, From
  <2>3. PICK n \in DOMAIN Export :
          Export[n].op = "item" /\ Export[n].live /\ Export[n].source = s
    BY <2>2 DEF ItemSources
  <2> QED BY <1>2, <1>3, <2>3 DEF Imported, From
<1> QED BY <1>1, <1>4, <1>5, AtMostOne

\* import_export: when an import has ended, and no rollback of a review that lost to
\* another daemon has undone a write of it, no later one adds a vault or an item, also
\* not the one that was killed half-way, as long as the vaults and items have ids and
\* nobody else brings in new ones.
THEOREM RepeatNeverAdds ==
  ASSUME OnlyTheExport
  PROVE  Spec => RepeatAddsNothing
<1>1. Init => KnownInv BY KnownInit
<1>2. KnownInv /\ [Next]_vars => KnownInv' BY KnownStep
<1>3. KnownInv /\ KnownInv' =>
        [once /\ disk' # disk => \A s \in Source :
           /\ Cardinality(From(disk'.vaults, s)) <= Cardinality(From(disk.vaults, s))
           /\ Cardinality(From(disk'.items, s)) <= Cardinality(From(disk.items, s))]_vars
  BY NothingAdded
<1> QED BY <1>1, <1>2, <1>3, PTL DEF Spec, RepeatAddsNothing
=============================================================================
