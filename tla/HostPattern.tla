----------------------------- MODULE HostPattern -----------------------------
(***************************************************************************)
(* The host ceiling of an agent: the patterns that create_agent takes and  *)
(* the hosts that they let a request name.  One behaviour is one pattern   *)
(* and one host.                                                           *)
(***************************************************************************)
EXTENDS UriText

CONSTANTS
  PatternChar, HostChar,  \* the characters that patterns and hosts are made of
  MaxPattern, MaxHost     \* bounds: their lengths
ASSUME HostAssumption == MaxPattern \in Nat /\ MaxHost \in Nat

VARIABLES
  ceiling,  \* the pattern in allowed_hosts_json, or None before there is one
  host,     \* the normalised target_host of a request, or None
  allowed   \* whether the request may name it

hostVars == <<ceiling, host, allowed>>
HostInit == ceiling = None /\ host = None /\ allowed = FALSE

-----------------------------------------------------------------------------
\* _normalize_host, for characters of names, "." and ":": a text with a port, or
\* with nothing before it, is refused; a ":" with nothing behind it is dropped.
NormalizeHost(text) ==
  LET raw  == RStrip(text, ".")
      name == Until(raw, {":"})
  IN IF \/ raw = <<>> \/ StartsWith(raw, <<".">>)
        \/ name = <<>> \/ Len(raw) > Len(name) + 1
     THEN None ELSE RStrip(name, ".")

CreateAgent ==
  /\ ceiling = None
  /\ \E text \in SeqOf(PatternChar, MaxPattern) :
       NormalizeHost(text) # None /\ ceiling' = NormalizeHost(text)
  /\ UNCHANGED <<host, allowed>>

\* Mutant: the suffix is taken without its dot.
HostAllowed_NoDot(h, p) ==
  IF StartsWith(p, <<"*", ".">>) THEN IsStrictSuffix(From(p, 3), h) ELSE h = p
\* _host_allowed, for one pattern
HostAllowed(h, p) ==
  IF StartsWith(p, <<"*", ".">>) THEN IsSuffix(From(p, 2), h) /\ h # From(p, 3)
  ELSE h = p

Request ==
  /\ ceiling # None /\ host = None
  /\ \E text \in SeqOf(HostChar, MaxHost) :
       LET h == NormalizeHost(text) IN
       /\ h # None
       /\ host' = h /\ allowed' = HostAllowed(h, ceiling)
  /\ UNCHANGED ceiling

HostNext == CreateAgent \/ Request

-----------------------------------------------------------------------------
(* Properties *)

\* Label by label: a pattern names itself, or with a "*" in front every host
\* below its domain, at any depth, but neither the domain nor a host whose name
\* only ends alike.
CeilingByLabels ==
  LET labels  == Split(host, ".")
      pattern == Split(ceiling, ".")
  IN host # None =>
       (allowed <=> \/ labels = pattern
                    \/ /\ Len(pattern) > 1 /\ pattern[1] = <<"*">>
                       /\ IsStrictSuffix(Tail(pattern), labels))
=============================================================================
