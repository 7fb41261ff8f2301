----------------------------- MODULE ProtonImport -----------------------------
(***************************************************************************)
(* import_export: a client that reads a Proton export and makes one        *)
(* vault.create or item.put call after the other, each on a connection of  *)
(* its own.  It stops at the first error, which the daemon's death also    *)
(* is, and is then run again from the start, maybe with a newer export.    *)
(***************************************************************************)
EXTENDS Custody, Sequences

CONSTANTS
  Export,   \* the entries of an export, in order: a vault, then its items
  Edition,  \* the contents an item can have in successive exports
  Uuid      \* bound: the sources that stand for uuid4()

\* An item without an id has the source None.
EntryType ==
  [op: {"vault"}, name: Name, source: Source]
    \cup [op: {"item"}, source: Source \cup {None}, live: BOOLEAN]

ASSUME ImportAssumption ==
  /\ Export \in Seq(EntryType)
  /\ Edition \subseteq Body /\ Uuid \subseteq Source
  /\ Importer \subseteq Thread \ Reviewer
  /\ \A t \in Importer : Creates[t] = {} /\ Puts[t] = {}

VARIABLES
  at,       \* the position of each importer in its export
  edition,  \* the edition each importer reads
  once      \* some import has been finished, and no write of it was undone

vars == <<custody, at, edition, once>>

Init ==
  /\ CustodyInit
  /\ at = [t \in Importer |-> 1]
  /\ edition \in [Importer -> Edition]
  /\ once = FALSE

-----------------------------------------------------------------------------
Entry(t) == Export[at[t]]
Ended(t) == at[t] = Len(Export) + 1
Advance(t) ==
  /\ at' = [at EXCEPT ![t] = @ + 1]
  /\ once' = (once \/ (at[t] = Len(Export) /\ t \notin undone))

\* An item that was in the trash is not imported.
SkipTrashed(t) ==
  /\ ~Ended(t) /\ pc[t] = "idle" /\ reply[t] = None
  /\ Entry(t).op = "item" /\ ~Entry(t).live
  /\ Advance(t)
  /\ UNCHANGED <<custody, edition>>

\* source_id: drawn anew for an item that has none.
SourceOf(e) ==
  IF e.source # None THEN {e.source}
  ELSE {u \in Uuid : From(disk.items, u) = {} /\ \A t \in Thread : job[t].source # u}

CallNext(t) ==
  LET e == Entry(t) IN
  /\ ~Ended(t) /\ pc[t] = "idle" /\ reply[t] = None
  /\ \/ e.op = "vault" /\ VaultLook(t, e.name, e.source)
     \/ /\ e.op = "item" /\ e.live
        /\ \E s \in SourceOf(e) : ItemLook(t, into[t], s, edition[t])
  /\ UNCHANGED <<into, crashes, at, edition, once>>

\* Mutant: an error is taken for an answer.
Receive_IgnoresError(t) ==
  /\ reply[t] # None /\ Reply(t, None) /\ Advance(t)
  /\ into' = IF Entry(t).op = "vault" THEN [into EXCEPT ![t] = reply[t]] ELSE into
  /\ UNCHANGED <<disk, conn, pc, job, undone, crashes, edition>>
Receive(t) ==
  /\ reply[t] \notin {None, Error} /\ Reply(t, None) /\ Advance(t)
  /\ into' = IF Entry(t).op = "vault" THEN [into EXCEPT ![t] = reply[t]] ELSE into
  /\ UNCHANGED <<disk, conn, pc, job, undone, crashes, edition>>

\* The import has failed, or is done: it is run again.
Again(t) ==
  /\ pc[t] = "idle"
  /\ reply[t] = Error \/ Ended(t)
  /\ Reply(t, None)
  /\ at' = [at EXCEPT ![t] = 1] /\ into' = [into EXCEPT ![t] = None]
  /\ \E e \in Edition : edition' = [edition EXCEPT ![t] = e]
  /\ undone' = undone \ {t}
  /\ UNCHANGED <<disk, conn, pc, job, crashes, once>>

Next ==
  \/ \E t \in Importer : SkipTrashed(t) \/ CallNext(t) \/ Receive(t) \/ Again(t)
  \/ CustodyNext /\ UNCHANGED <<at, edition, once>>
Spec == Init /\ [][Next]_vars

-----------------------------------------------------------------------------
(* Properties *)

TypeOK ==
  /\ CustodyTypeOK
  /\ at \in [Importer -> 1 .. Len(Export) + 1]
  /\ edition \in [Importer -> Edition] /\ once \in BOOLEAN

\* The vault entry that an item stands under.
VaultOf(n) ==
  Export[CHOOSE m \in 1 .. n - 1 : Export[m].op = "vault"
           /\ \A l \in m + 1 .. n - 1 : Export[l].op # "vault"]
\* The items that administrators put by the source they have in the export.
Meddled == {p.source : p \in UNION {Puts[t] : t \in Thread}}

\* An import that has reported its end has put every live item of the export,
\* once and committed, whatever attempts failed before and whoever has meanwhile
\* created, renamed, moved and reviewed.  An item that only imports write stands in
\* the vault of its source with the content of this export, while nobody imports
\* another one.  Not when another thread's rollback has undone a write of it: a
\* review of its daemon that loses to another daemon takes it away unseen, as
\* put_item returns what it was given (service.py:265).
ImportComplete ==
  \A t \in Importer : Ended(t) /\ t \notin undone =>
    \A n \in DOMAIN Export :
      LET e == Export[n] IN
      e.op = "item" /\ e.live /\ e.source # None =>
        \E i \in Item :
          /\ From(disk.items, e.source) = {i}
          /\ \/ e.source \in Meddled
             \/ /\ disk.items[i].body = edition[t]
                /\ disk.vaults[disk.items[i].vault].source = VaultOf(n).source

\* Once an import is finished of which no write was undone so, importing again adds
\* no vault and no item ("Idempotent upsert by Proton vault/item UUID",
\* tests/test_proton_import.py:61), for items with an id: for one without, each
\* import draws a new one (proton_import.py:79).
RepeatAddsNothing ==
  [][once /\ disk' # disk => \A s \in Source :
       /\ Cardinality(From(disk'.vaults, s)) <= Cardinality(From(disk.vaults, s))
       /\ Cardinality(From(disk'.items, s)) <= Cardinality(From(disk.items, s))]_vars
=============================================================================
