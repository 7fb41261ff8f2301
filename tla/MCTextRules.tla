----------------------------- MODULE MCTextRules -----------------------------
(***************************************************************************)
(* The tokens and characters that TLC makes texts of: one letter, two for  *)
(* hosts, and everything that a rule looks at, raw and written %XX.        *)
(***************************************************************************)
EXTENDS TextRules

PathTokens == {Raw(c) : c \in {"/", ".", "a", "?", "\t"}} \cup {Escaped(c) : c \in {"/", "."}}
RefTokens == {Raw(c) : c \in {"/", "a", "?", "\t"}} \cup {Escaped(c) : c \in {"/", "?", "\t"}}
PatternChars == {"a", ".", "*", ":"}
HostChars == {"a", "b", ".", ":"}
=============================================================================
