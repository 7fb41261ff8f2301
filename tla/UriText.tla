------------------------------- MODULE UriText -------------------------------
(***************************************************************************)
(* What urllib.parse and str do to a text, as far as references and paths  *)
(* need it: a text is a sequence of tokens, a character that stands for    *)
(* itself or one that is written %XX.  "?" stands for "#" too.             *)
(***************************************************************************)
EXTENDS Naturals, SequencesExt

CONSTANT None  \* stands for a text that is not there

Raw(c) == [ch |-> c, escaped |-> FALSE]
Escaped(c) == [ch |-> c, escaped |-> TRUE]
Slash == Raw("/")

StartsWith(s, start) == IsPrefix(start, s)
Until(s, stops) ==
  LET i == SelectInSeq(s, LAMBDA x : x \in stops)
  IN IF i = 0 THEN s ELSE SubSeq(s, 1, i - 1)
From(s, i) == SubSeq(s, i, Len(s))

\* str.rstrip, str.strip and str.split for one character
RStrip(s, c) == SubSeq(s, 1, SelectLastInSeq(s, LAMBDA x : x # c))
Strip(s, c) == LET i == SelectInSeq(s, LAMBDA x : x # c)
               IN IF i = 0 THEN <<>> ELSE From(RStrip(s, c), i)
Cut(parts, x, c) ==
  IF x = c THEN Append(parts, <<>>) ELSE [parts EXCEPT ![Len(parts)] = Append(@, x)]
Split(s, c) ==
  LET cut[n \in 0..Len(s)] == IF n = 0 THEN << <<>> >> ELSE Cut(cut[n - 1], s[n], c)
  IN cut[Len(s)]

\* str.replace(x, "") and the comprehension that drops x from a list
Keep(kept, y, x) == IF y = x THEN kept ELSE Append(kept, y)
Without(s, x) ==
  LET kept[n \in 0..Len(s)] == IF n = 0 THEN <<>> ELSE Keep(kept[n - 1], s[n], x)
  IN kept[Len(s)]

\* str.join
Joined(parts, sep) ==
  LET text[n \in 0..Len(parts)] ==
        IF n = 0 THEN <<>> ELSE IF n = 1 THEN parts[1] ELSE text[n - 1] \o sep \o parts[n]
  IN text[Len(parts)]

Unquote(t) == [i \in DOMAIN t |-> t[i].ch]
\* Mutant: the default of quote, which keeps "/".
Quote_Default(s) ==
  [i \in DOMAIN s |-> IF s[i] \in {"?", "\t"} THEN Escaped(s[i]) ELSE Raw(s[i])]
\* quote(s, safe=""); letters need no escape.
Quote(s) ==
  [i \in DOMAIN s |-> IF s[i] \in {"/", "?", "\t"} THEN Escaped(s[i]) ELSE Raw(s[i])]

\* urlsplit, without a scheme: it drops every tab before it looks.
UrlSplit(t) ==
  LET u      == Without(t, Raw("\t"))
      hier   == StartsWith(u, <<Slash, Slash>>)
      netloc == IF hier THEN Until(From(u, 3), {Slash, Raw("?")}) ELSE <<>>
      rest   == IF hier THEN From(u, Len(netloc) + 3) ELSE u
      path   == Until(rest, {Raw("?")})
  IN [netloc |-> netloc, path |-> path, query |-> From(rest, Len(path) + 2)]
=============================================================================
