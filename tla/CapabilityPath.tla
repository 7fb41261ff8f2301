--------------------------- MODULE CapabilityPath ---------------------------
(***************************************************************************)
(* The path rule of a capability: the prefix that put_capability takes and *)
(* the paths that a request, a review and an invocation let through.       *)
(* One behaviour is one capability and one path.                           *)
(***************************************************************************)
EXTENDS UriText

CONSTANTS
  PathToken,  \* the tokens that paths are made of
  MaxPrefix,  \* bound: tokens of a prefix
  MaxPath     \* bound: tokens of a path
ASSUME PathAssumption == MaxPrefix \in Nat /\ MaxPath \in Nat

VARIABLES
  prefix,  \* path_prefix of the capability, or None before there is one
  asked,   \* the path that is asked for, or None
  sent     \* the path that goes on the wire, or None when it is refused

pathVars == <<prefix, asked, sent>>
PathInit == prefix = None /\ asked = None /\ sent = None

-----------------------------------------------------------------------------
HasParent(s) == \E i \in DOMAIN Split(s, "/") : Split(s, "/")[i] = <<".", ".">>
Absolute(t) == StartsWith(t, <<Slash>>) /\ ~StartsWith(t, <<Slash, Slash>>)

\* The path_prefix part of _normalize_capability_definition; "" means "/".
Put ==
  /\ prefix = None
  /\ \E raw \in SeqOf(PathToken, MaxPrefix) :
       LET p == IF raw = <<>> THEN <<Slash>> ELSE Strip(raw, Raw("\t")) IN
       /\ Absolute(p) /\ Raw("?") \notin ToSet(p) /\ ~HasParent(Unquote(p))
       /\ prefix' = p
  /\ UNCHANGED <<asked, sent>>

\* Mutants: a longer name passes for the prefix; the prefix keeps its last "/".
PathInCapability_Text(path, base) == StartsWith(path, RStrip(base, "/"))
PathInCapability_Slash(path, base) ==
  base = <<"/">> \/ path = base \/ StartsWith(path, Append(base, "/"))
\* _path_in_capability
PathInCapability(path, base) ==
  \/ base = <<"/">>
  \/ path = RStrip(base, "/")
  \/ StartsWith(path, Append(RStrip(base, "/"), "/"))

\* Mutant: the path goes on as it was decoded for the comparison.
Validated_Decoded(raw) ==
  LET t == Strip(raw, Raw("\t"))
      u == UrlSplit(t)
      decoded == Unquote(u.path)
  IN IF /\ Absolute(t)
        /\ u.netloc = <<>> /\ u.query = <<>>
        /\ ~HasParent(decoded)
        /\ PathInCapability(decoded, Unquote(prefix))
     THEN [i \in DOMAIN decoded |-> Raw(decoded[i])] ELSE None
\* _validate_capability_invocation: the path that it returns, or None.
Validated(raw) ==
  LET t == Strip(raw, Raw("\t"))
      u == UrlSplit(t)
      decoded == Unquote(u.path)
  IN IF /\ Absolute(t)
        /\ u.netloc = <<>> /\ u.query = <<>>
        /\ ~HasParent(decoded)
        /\ PathInCapability(decoded, Unquote(prefix))
     THEN u.path ELSE None

Ask ==
  /\ prefix # None /\ asked = None
  /\ \E raw \in SeqOf(PathToken, MaxPath) : asked' = raw /\ sent' = Validated(raw)
  /\ UNCHANGED prefix

PathNext == Put \/ Ask

-----------------------------------------------------------------------------
(* Properties *)

\* Where a target that decodes a path and resolves its dots ends up.
Enter(at, part) ==
  CASE part \in {<<>>, <<".">>} -> at
    [] part = <<".", ".">> -> IF at = <<>> THEN at ELSE Front(at)
    [] OTHER -> Append(at, part)
Walk(parts) ==
  LET at[n \in 0..Len(parts)] == IF n = 0 THEN <<>> ELSE Enter(at[n - 1], parts[n])
  IN at[Len(parts)]
Resolved(s) == Walk(Split(s, "/"))

\* However a path is written, the target finds itself below the prefix that the
\* reviewer approved, segment by segment: an escaped "/" or "." does not lead
\* out of it, and /api does not let /apiary through.
Contained ==
  sent # None => IsPrefix(Resolved(Unquote(prefix)), Resolved(Unquote(sent)))

\* A path that is written plainly and continues the prefix by whole segments is
\* sent as it is, whether the prefix was put with a "/" at its end or not.
NothingLegalRefused ==
  LET plain == \A t \in ToSet(asked) : ~t.escaped /\ t.ch \notin {"?", "\t"}
      below == IsPrefix(Split(RStrip(Unquote(prefix), "/"), "/"), Split(Unquote(asked), "/"))
  IN asked # None /\ plain /\ Absolute(asked) /\ ~HasParent(Unquote(asked)) /\ below
       => sent = asked

\* What a request was accepted and stored for is accepted again, as it is, when
\* it is reviewed (839) and when it is sent (1244).  A tab, which urlsplit drops
\* after the test for "//", can make "//" or "" of a path: such a request is
\* stored and then cannot be approved.
AcceptedAgain ==
  sent # None /\ Raw("\t") \notin ToSet(asked) => Validated(sent) = sent
=============================================================================
