------------------------------- MODULE PassRef -------------------------------
(***************************************************************************)
(* pass://VAULT/ITEM/FIELD: how a reference is read, and how the selector  *)
(* that it became is written for the reviewer.  One behaviour is one       *)
(* request for access and one look at it.                                  *)
(***************************************************************************)
EXTENDS UriText

CONSTANTS
  RefToken,  \* the tokens that references are made of
  MaxRef     \* bound: tokens of a reference after "pass:"
ASSUME RefAssumption == MaxRef \in Nat

VARIABLES
  selector,  \* the vault, item and field that a pending request names, or None
  shown      \* the uri that the reviewer sees, or None

refVars == <<selector, shown>>
RefInit == selector = None /\ shown = None

-----------------------------------------------------------------------------
\* parse_pass_ref; no field is <<>>, as a field is never empty.
Parse(t) ==
  LET u     == UrlSplit(t)
      parts == Without(Split(u.path, Slash), <<>>)
  IN IF ~StartsWith(t, <<Slash, Slash>>) \/ u.netloc = <<>> \/ parts = <<>> THEN None
     ELSE [vault |-> Unquote(u.netloc), item |-> Unquote(parts[1]),
           field |-> Joined([i \in DOMAIN Tail(parts) |-> Unquote(Tail(parts)[i])], <<"/">>)]

\* request_access: the reference must name a field.
RequestAccess ==
  /\ selector = None
  /\ \E t \in SeqOf(RefToken, MaxRef) :
       /\ Parse(t) # None /\ Parse(t).field # <<>>
       /\ selector' = Parse(t)
  /\ UNCHANGED shown

\* The uri of _access_public.
Show ==
  /\ selector # None /\ shown = None
  /\ shown' = <<Slash, Slash>> \o Quote(selector.vault) \o <<Slash>>
              \o Quote(selector.item) \o <<Slash>> \o Quote(selector.field)
  /\ UNCHANGED selector

RefNext == RequestAccess \/ Show

-----------------------------------------------------------------------------
(* Properties *)

\* What the reviewer sees names the vault, item and field that the lease will
\* name, and no other: a "/" or "?" inside a name does not move to the next one,
\* although the reference may have been written in several ways.
ShownNamesSelector == shown # None => Parse(shown) = selector
=============================================================================
