-------------------------------- MODULE Custody --------------------------------
(***************************************************************************)
(* The vaults and items of passd: create_vault and put_item, statement by  *)
(* statement.  Neither takes the lock; what they read, also the wrapped    *)
(* key, may be overwritten before they write.  What they have executed may *)
(* be rolled back before they commit it: by a review on their connection   *)
(* that loses to another daemon.  Who calls, and with what, is left to the *)
(* constants, and for an import to ProtonImport.                           *)
(***************************************************************************)
EXTENDS Connection, Integers, FiniteSets

CONSTANTS
  Thread,    \* the connections, each served by a thread of its own
  Home,      \* [Thread -> Daemon]
  Name,      \* names of vaults
  Source,    \* what UNIQUE(source_kind, source_id) tells apart
  Body,      \* payloads of items
  Vault, Item, Key,  \* bounds: ids and item keys, drawn from those not in use
  Request,   \* the requests for access that wait to be decided
  Importer,  \* the threads whose client goes on from the reply
  Reviewer,  \* the threads that approve, deny and revoke
  Creates,   \* [Thread -> SUBSET [name, source]]: the calls of vault.create
  Puts,      \* [Thread -> SUBSET [ref, source, body]]: the calls of item.put
  MaxUnsourced,  \* bound: from how many items without a source on none is put
  MaxCrash   \* bound: how often daemons are killed

VARIABLES
  pc, job,   \* where a thread is, and the handler's local variables
  reply,     \* what the last call of an importer returned: an id, or Error
  into,      \* the vault that each importer puts items into: local_vault["id"]
  undone,    \* the importers of whose calls a review may have undone a write
  crashes

custody == <<disk, conn, pc, job, reply, into, undone, crashes>>

\* A vault key is drawn with the vault and never changes: it is the vault here.
\* key is the content of wrapped_key, sealed under the vault key "under"; body
\* is the content of payload, sealed under "with".
VaultRow == [source: Source \cup {None}, name: Name]
ItemRow == [vault: Vault, source: Source \cup {None}, key: Key, under: Vault,
            body: Body, with: Key]
DbType == [vaults: [Vault -> VaultRow \cup {None}], items: [Item -> ItemRow \cup {None}],
           pending: SUBSET Request]

ASSUME CustodyAssumption ==
  /\ Home \in [Thread -> Daemon]
  /\ Creates \in [Thread -> SUBSET [name: Name, source: Source \cup {None}]]
  /\ Puts \in [Thread -> SUBSET [ref: Vault \cup Name, source: Source \cup {None},
                                body: Body]]
  /\ Reviewer \subseteq Thread
  /\ None \notin Vault \cup Item \cup Key \cup Source \cup Request
  /\ None \notin VaultRow \cup ItemRow

Error == "error"
PC == {"idle", "vault", "item", "review", "written", "committed"}
NoJob == [name |-> None, vault |-> None, source |-> None, body |-> None,
          old |-> None, row |-> None, req |-> None]

CustodyInit ==
  /\ ConnInit([vaults |-> [v \in Vault |-> None], items |-> [i \in Item |-> None],
               pending |-> Request])
  /\ pc = [t \in Thread |-> "idle"]
  /\ job = [t \in Thread |-> NoJob]
  /\ reply = [t \in Thread |-> None]
  /\ into = [t \in Importer |-> None] /\ undone = {} /\ crashes = 0

-----------------------------------------------------------------------------
Db(t) == View(Home[t])
Goto(t, p, j) ==
  pc' = [pc EXCEPT ![t] = p] /\ job' = [job EXCEPT ![t] = j]
Reply(t, r) ==
  reply' = IF t \in Importer THEN [reply EXCEPT ![t] = r] ELSE reply
Answer(t, r) == Goto(t, "idle", NoJob) /\ Reply(t, r)
\* The row is executed; id is what the reply is going to name.
Executed(t, db, id) ==
  /\ Execute(Home[t], db)
  /\ Goto(t, "written", [NoJob EXCEPT !.old = id])
  /\ UNCHANGED <<reply, undone>>
\* The INSERT or UPDATE that violates UNIQUE or REFERENCES raises IntegrityError.
\* The transaction that was begun for it stays open and keeps the write lock.
Refused(t) ==
  Execute(Home[t], Db(t)) /\ Answer(t, Error) /\ UNCHANGED undone

Rows(table) == {i \in DOMAIN table : table[i] # None}
From(table, s) == {i \in Rows(table) : table[i].source = s}
Taken_Never(table, s) == FALSE  \* Mutant: the column is not UNIQUE.
Taken(table, s) == s # None /\ From(table, s) # {}
\* UPDATE ... WHERE id=?, which changes nothing when the row is gone.
Updated(table, i, row) ==
  IF table[i] = None THEN table ELSE [table EXCEPT ![i] = row]
Versions == {disk} \cup {View(d) : d \in Daemon}
\* A uuid4() or a key is never drawn twice; one that is nowhere any more is as good
\* as new.
IdsInUse ==
  (UNION {Rows(db.vaults) \cup Rows(db.items) : db \in Versions})
    \cup (UNION {{job[t].old, job[t].vault, reply[t]} : t \in Thread})
    \cup {into[t] : t \in Importer}
KeysInUse ==
  (UNION {{db.items[i].key : i \in Rows(db.items)} : db \in Versions})
    \cup {job[t].row.key : t \in {u \in Thread : job[u].row # None}}
The(S) == IF S = {} THEN None ELSE CHOOSE x \in S : TRUE
\* None once all keys are used up, or ids: then the model draws no more of them.
FreshKey == The(Key \ KeysInUse)
NewId(table) == The(DOMAIN table \ IdsInUse)

(* create_vault *)

Named(db, n) == {v \in Rows(db.vaults) : db.vaults[v].name = n}

\* By source, a vault that is there is going to be updated; by name, it is
\* returned as it is.
VaultLook(t, n, s) ==
  LET found == IF s = None THEN Named(Db(t), n) ELSE From(Db(t).vaults, s) IN
  /\ pc[t] = "idle"
  /\ Select(Home[t])
  /\ IF s = None /\ found # {}
     THEN \E v \in found : Answer(t, v)
     ELSE /\ Goto(t, "vault",
               [NoJob EXCEPT !.name = n, !.source = s, !.old = The(found)])
          /\ Reply(t, None)
  /\ UNCHANGED undone

VaultUpdate(t) ==
  LET j == job[t]
      row == [Db(t).vaults[j.old] EXCEPT !.name = j.name] IN
  /\ pc[t] = "vault" /\ j.old # None
  /\ Executed(t, [Db(t) EXCEPT !.vaults = Updated(@, j.old, row)], j.old)

VaultInsert(t) ==
  LET j == job[t]
      new == NewId(Db(t).vaults) IN
  /\ pc[t] = "vault" /\ j.old = None
  /\ IF Taken(Db(t).vaults, j.source) THEN Refused(t)
     ELSE /\ new # None
          /\ Executed(t, [Db(t) EXCEPT !.vaults[new] =
                            [source |-> j.source, name |-> j.name]], new)

(* put_item *)

\* find_vault: by id, else by name.
FindVault(db, ref) ==
  IF ref \in Rows(db.vaults) THEN {ref} ELSE Named(db, ref)

\* Of the row that is going to be overwritten: its vault and its wrapped key.
WasRead(row) == [vault |-> row.vault, key |-> row.key, under |-> row.under]

\* NotFound and Conflict are replies; otherwise the vault is kept, and the row
\* that has the source.
ItemLook(t, ref, s, b) ==
  LET vs == FindVault(Db(t), ref)
      old == The(IF s = None THEN {} ELSE From(Db(t).items, s)) IN
  /\ pc[t] = "idle"
  /\ Select(Home[t])
  /\ IF Cardinality(vs) # 1 THEN Answer(t, Error)
     ELSE /\ Goto(t, "item",
               [name |-> None, vault |-> The(vs), source |-> s, body |-> b,
                old |-> old, req |-> None,
                row |-> IF old = None THEN None ELSE WasRead(Db(t).items[old])])
          /\ Reply(t, None)
  /\ UNCHANGED undone

\* Sealing anew for a vault, and keeping the key that was read.
Sealed(t, k, u) ==
  LET j == job[t] IN
  [vault |-> j.vault, source |-> j.source, key |-> k, under |-> u,
   body |-> j.body, with |-> k]

\* An item that stays in its vault keeps its key as it was read.
Resealed(t) ==
  LET j == job[t] IN
  IF j.row.vault # j.vault THEN Sealed(t, FreshKey, j.vault)
  ELSE Sealed(t, j.row.key, j.row.under)
\* items.vault_id REFERENCES vaults(id), of a row that the UPDATE finds.
Dangling(t) == job[t].vault \notin Rows(Db(t).vaults)
Found(t) == job[t].old \in Rows(Db(t).items)

\* Mutant: only an item that moves has its wrapped key written.
ItemUpdate_KeepsKey(t) ==
  LET j == job[t]
      now == Db(t).items[j.old]
      new == IF j.row.vault # j.vault THEN Resealed(t)
             ELSE [Resealed(t) EXCEPT !.key = now.key, !.under = now.under] IN
  /\ pc[t] = "item" /\ j.old # None /\ new.key # None
  /\ IF Found(t) /\ Dangling(t) THEN Refused(t)
     ELSE Executed(t, [Db(t) EXCEPT !.items = Updated(@, j.old, new)], j.old)
\* Mutant: an item that is there already is left as it is.
ItemUpdate_KeepsBody(t) ==
  /\ pc[t] = "item" /\ job[t].old # None
  /\ Executed(t, Db(t), job[t].old)
ItemUpdate(t) ==
  LET j == job[t]
      new == Resealed(t) IN
  /\ pc[t] = "item" /\ j.old # None /\ new.key # None
  /\ IF Found(t) /\ Dangling(t) THEN Refused(t)
     ELSE Executed(t, [Db(t) EXCEPT !.items = Updated(@, j.old, new)], j.old)

ItemInsert(t) ==
  LET j == job[t]
      new == NewId(Db(t).items) IN
  /\ pc[t] = "item" /\ j.old = None
  /\ IF Taken(Db(t).items, j.source) \/ Dangling(t) THEN Refused(t)
     ELSE /\ new # None /\ FreshKey # None
          /\ Executed(t, [Db(t) EXCEPT !.items[new] =
                            Sealed(t, FreshKey, j.vault)], new)

(* approve_access, deny_access, revoke_access: their transaction *)

\* _db_lock, which of these handlers only reviews take.
Free(t) == \A u \in Thread : Home[u] = Home[t] => job[u].req = None

ReviewLook(t) ==
  /\ t \in Reviewer /\ pc[t] = "idle" /\ Free(t)
  /\ \E r \in Db(t).pending : Goto(t, "review", [NoJob EXCEPT !.req = r])
  /\ Select(Home[t])
  /\ UNCHANGED <<reply, undone>>

\* UPDATE ... WHERE status=?, which finds the request as it was read.
ReviewWrite(t) ==
  LET r == job[t].req IN
  /\ pc[t] = "review" /\ r \in Db(t).pending
  /\ Execute(Home[t], [Db(t) EXCEPT !.pending = @ \ {r}])
  /\ Goto(t, "written", job[t])
  /\ UNCHANGED <<reply, undone>>

\* Another daemon was first: rollback(), of whatever the connection had executed.
\* A write that is lost so is found by its thread neither at its commit nor after.
ReviewLost(t) ==
  /\ pc[t] = "review" /\ job[t].req \notin Db(t).pending
  /\ CanWrite(Home[t]) /\ Rollback(Home[t])
  /\ Answer(t, Error)
  /\ undone' = IF conn[Home[t]].mode # "write" THEN undone
               ELSE undone \cup {u \in Importer : /\ Home[u] = Home[t]
                                                 /\ pc[u] \in {"vault", "item", "written"}}

(* Every handler that writes *)

CommitStep(t) ==
  /\ pc[t] = "written"
  /\ Commit(Home[t])
  /\ Goto(t, "committed", job[t]) /\ UNCHANGED <<reply, undone>>

ReplyStep(t) ==
  /\ pc[t] = "committed" /\ Answer(t, job[t].old)
  /\ UNCHANGED <<disk, conn, undone>>

\* "database is locked"
Locked(t) ==
  /\ pc[t] \in {"vault", "item", "review"}
  /\ ExecuteLocked(Home[t]) /\ Answer(t, Error)
  /\ UNCHANGED undone

\* An administrator's next call.  Without a source every put adds a row.
AdminCall(t) ==
  \/ \E c \in Creates[t] : VaultLook(t, c.name, c.source)
  \/ \E p \in Puts[t] :
       /\ p.source = None => Cardinality(From(disk.items, None)) < MaxUnsourced
       /\ ItemLook(t, p.ref, p.source, p.body)
Handler(t) ==
  /\ \/ AdminCall(t)
     \/ VaultUpdate(t) \/ VaultInsert(t) \/ ItemUpdate(t) \/ ItemInsert(t)
     \/ ReviewLook(t) \/ ReviewWrite(t) \/ ReviewLost(t)
     \/ CommitStep(t) \/ ReplyStep(t) \/ Locked(t)
  /\ UNCHANGED <<into, crashes>>

\* The daemon is killed: the clients whose calls were in progress get an error.
Crash(d) ==
  LET hit == {t \in Thread : Home[t] = d /\ pc[t] # "idle"} IN
  /\ crashes < MaxCrash /\ crashes' = crashes + 1
  /\ Rollback(d)
  /\ pc' = [t \in Thread |-> IF t \in hit THEN "idle" ELSE pc[t]]
  /\ job' = [t \in Thread |-> IF t \in hit THEN NoJob ELSE job[t]]
  /\ reply' = [t \in Thread |-> IF t \in hit \cap Importer THEN Error ELSE reply[t]]
  /\ UNCHANGED <<into, undone>>

CustodyNext == (\E t \in Thread : Handler(t)) \/ (\E d \in Daemon : Crash(d))
CustodySpec == CustodyInit /\ [][CustodyNext]_custody

-----------------------------------------------------------------------------
(* Properties *)

CustodyTypeOK ==
  /\ disk \in DbType
  /\ \A d \in Daemon : conn[d].mode \in Mode /\ conn[d].db \in DbType \cup {None}
  /\ pc \in [Thread -> PC]
  /\ reply \in [Thread -> Vault \cup Item \cup {None, Error}]
  /\ into \in [Importer -> Vault \cup {None}] /\ undone \subseteq Importer

\* _item_payload succeeds on every committed row: its key was wrapped for the
\* vault that the row names, and its payload was sealed under that key, however
\* the puts of one source that read the old row have overtaken each other.
Opens ==
  \A i \in Rows(disk.items) :
    LET row == disk.items[i] IN row.under = row.vault /\ row.with = row.key

\* A source has one vault and one item, although whoever inserts has looked for
\* it in an earlier statement, without a lock.
OneRowPerSource ==
  \A s \in Source : Cardinality(From(disk.vaults, s)) <= 1
                 /\ Cardinality(From(disk.items, s)) <= 1
=============================================================================
