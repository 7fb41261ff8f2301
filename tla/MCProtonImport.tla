---------------------------- MODULE MCProtonImport ----------------------------
(* An instance of ProtonImport: an import, an administrator at a daemon of his *)
(* own who creates a vault and moves an item meanwhile, and a review that both *)
(* he and one at the daemon of the import try to make.                         *)
EXTENDS ProtonImport, TLC

CONSTANTS n1, n2, p1, p2, s1, s2, s3

Apart == [t \in Thread |-> IF t = "a2" THEN "d2" ELSE "d1"]
VaultEntry(n, p) == [op |-> "vault", name |-> n, source |-> p]
ItemEntry(s, l) == [op |-> "item", source |-> s, live |-> l]
\* The item s3 is in the trash.
TwoVaults == <<VaultEntry(n1, p1), ItemEntry(s1, TRUE), VaultEntry(n2, p2),
               ItemEntry(s3, FALSE), ItemEntry(s2, TRUE)>>

\* The import's first vault.
AdminCreates ==
  [t \in Thread |-> IF t = "a2" THEN {[name |-> n1, source |-> p1]} ELSE {}]
\* The first item, which each import moves back; the vault is found by its name.
AdminPuts ==
  [t \in Thread |-> IF t = "a2" THEN {[ref |-> n2, source |-> s1, body |-> "e1"]} ELSE {}]
=============================================================================
