------------------------------ MODULE TextProofs ------------------------------
(***************************************************************************)
(* The rules about paths, references and hosts, for texts of every length  *)
(* over every set of tokens.  What a recursive function computes is shown  *)
(* by induction: over the numbers with NatInduct, whose proof takes the    *)
(* least counterexample, and over texts with TextInduct.  The theorems     *)
(* are at the end of the section on the rule that they are about.          *)
(***************************************************************************)
EXTENDS TextRules, TLAPS, SequenceTheorems, WellFoundedInduction, NaturalsInduction

-----------------------------------------------------------------------------
(* Induction, on sets *)

\* A set of numbers that is not empty has a least one.
LEMMA LeastNat ==
  ASSUME NEW S, S \subseteq Nat, S # {}
  PROVE  \E n \in S : \A m \in S : n <= m
<1>1. OpToRel(<, Nat) = {r \in Nat \X Nat : r[1] < r[2]}
  BY DEF OpToRel
<1>2. \E n \in S : \A m \in S : <<m, n>> \notin OpToRel(<, Nat)
  BY NatLessThanWellFounded, WFMin
<1>3. PICK n \in S : \A m \in S : <<m, n>> \notin {r \in Nat \X Nat : r[1] < r[2]}
  BY <1>1, <1>2
<1>4. \A m \in S : ~(m < n)
  BY <1>3
<1> QED BY <1>4

\* What holds of 0, and of n + 1 when it holds of n, holds of every number.
LEMMA NatInduct ==
  ASSUME NEW S, 0 \in S, \A n \in Nat : n \in S => n + 1 \in S
  PROVE  Nat \subseteq S
<1> SUFFICES ASSUME Nat \ S # {} PROVE FALSE
  OBVIOUS
<1>1. PICK n \in Nat \ S : \A m \in Nat \ S : n <= m
  BY LeastNat
<1>2. n - 1 \in Nat /\ n - 1 \in S
  BY <1>1
<1>3. (n - 1) + 1 \in S
  BY <1>2
<1> QED BY <1>1, <1>3

-----------------------------------------------------------------------------
(* Texts: sequences under names that hide what they are made of *)

Texts(S) == Seq(S)
Add(s, x) == Append(s, x)
Cat(a, b) == a \o b

\* The empty text, a text with one token more, and a text of one token.
LEMMA AddFacts ==
  ASSUME NEW S
  PROVE  /\ <<>> \in Texts(S)
         /\ \A s \in Texts(S), x \in S : Add(s, x) \in Texts(S) /\ Add(s, x) # <<>>
         /\ \A x \in S : Add(<<>>, x) = <<x>> /\ <<x>> \in Texts(S)
         /\ \A s, t \in Texts(S), x, y \in S : Add(s, x) = Add(t, y) => s = t /\ x = y
<1>1. <<>> \in Seq(S)
  BY EmptySeq
<1>2. \A s \in Seq(S), x \in S : Append(s, x) \in Seq(S) /\ Append(s, x) # <<>>
  BY AppendProperties
<1>3. \A x \in S : Append(<<>>, x) = <<x>> /\ <<x>> \in Seq(S)
  OBVIOUS
<1>4. \A s, t \in Seq(S), x, y \in S : Append(s, x) = Append(t, y) => s = t /\ x = y
  BY AppendInjective
<1> QED BY <1>1, <1>2, <1>3, <1>4 DEF Texts, Add

\* A text that is not empty has a last token and a text before it.
LEMMA LastAdded ==
  ASSUME NEW S, NEW s \in Texts(S), s # <<>>
  PROVE  \E r \in Texts(S), x \in S : s = Add(r, x)
BY SequenceEmptyOrAppend DEF Texts, Add

\* Two texts put together are a text; which one comes first does matter, where
\* the brackets are does not.
LEMMA CatFacts ==
  ASSUME NEW S
  PROVE  /\ \A a, b \in Texts(S) : Cat(a, b) \in Texts(S)
         /\ \A a, b \in Texts(S) : Cat(a, b) = <<>> => a = <<>> /\ b = <<>>
         /\ \A a \in Texts(S) : Cat(a, <<>>) = a /\ Cat(<<>>, a) = a
         /\ \A a, b \in Texts(S), x \in S : Cat(a, Add(b, x)) = Add(Cat(a, b), x)
         /\ \A a, b, c \in Texts(S) : Cat(Cat(a, b), c) = Cat(a, Cat(b, c))
<1>1. \A a, b \in Seq(S) : a \o b \in Seq(S)
  BY ConcatProperties
<1>2. \A a, b \in Seq(S) : a \o b = <<>> => a = <<>> /\ b = <<>>
  BY ConcatEqualIffEmpty
<1>3. \A a \in Seq(S) : a \o <<>> = a /\ <<>> \o a = a
  BY ConcatEmptySeq
<1>4. \A a, b \in Seq(S), x \in S : a \o Append(b, x) = Append(a \o b, x)
  OBVIOUS
<1>5. \A a, b, c \in Seq(S) : (a \o b) \o c = a \o (b \o c)
  BY ConcatAssociative
<1> QED BY <1>1, <1>2, <1>3, <1>4, <1>5 DEF Texts, Cat, Add

\* What is on one side tells what is on the other.
LEMMA CatCancels ==
  ASSUME NEW S
  PROVE  /\ \A a, b, c \in Texts(S) : Cat(a, b) = Cat(a, c) => b = c
         /\ \A a, b, c \in Texts(S) : Cat(b, a) = Cat(c, a) => b = c
<1>1. \A a, b, c \in Seq(S) : a \o b = a \o c => b = c
  BY ConcatSimplifications
<1>2. \A a, b, c \in Seq(S) : b \o a = c \o a => b = c
  BY ConcatSimplifications
<1> QED BY <1>1, <1>2 DEF Texts, Cat

\* What holds of <<>>, and of s with x behind it when it holds of s, holds of
\* every text.
LEMMA TextInduct ==
  ASSUME NEW S, NEW P, <<>> \in P,
         \A s \in Texts(S), x \in S : s \in P => Add(s, x) \in P
  PROVE  Texts(S) \subseteq P
<1> DEFINE N == {n \in Nat : \A s \in Texts(S) : Len(s) = n => s \in P}
<1>1. \A s \in Texts(S), x \in S : Len(s) \in Nat /\ Len(Add(s, x)) = Len(s) + 1
  BY AppendProperties, LenProperties DEF Texts, Add
<1>2. \A s \in Texts(S) : Len(s) = 0 => s = <<>>
  BY EmptySeq DEF Texts
<1>3. 0 \in N
  BY <1>2
<1>4. ASSUME NEW n \in Nat, n \in N, NEW s \in Texts(S), Len(s) = n + 1 PROVE s \in P
  <2>1. s # <<>>
    BY <1>4
  <2>2. PICK t \in Texts(S), x \in S : s = Add(t, x)
    BY <2>1, LastAdded
  <2>3. Len(t) = n
    BY <1>1, <1>4, <2>2
  <2> QED BY <1>4, <2>2, <2>3
<1>5. \A n \in Nat : n \in N => n + 1 \in N
  BY <1>4
<1> HIDE DEF N
<1>6. Nat \subseteq N
  BY <1>3, <1>5, NatInduct
<1>7. \A s \in Texts(S) : Len(s) \in Nat
  BY LenProperties DEF Texts
<1> QED BY <1>6, <1>7 DEF N

-----------------------------------------------------------------------------
(* Recursive functions *)

\* What holds of 0, and of n when it holds of n - 1, holds up to N.
LEMMA RangeInduct ==
  ASSUME NEW N \in Nat, NEW K, 0 \in K, \A n \in 1..N : n - 1 \in K => n \in K
  PROVE  \A n \in 0..N : n \in K
<1> DEFINE M == {n \in Nat : n <= N => n \in K}
<1>1. 0 \in M
  OBVIOUS
<1>2. ASSUME NEW n \in Nat, n \in M PROVE n + 1 \in M
  <2>1. CASE n + 1 <= N
    <3>1. n + 1 \in 1..N /\ (n + 1) - 1 = n /\ n \in K
      BY <1>2, <2>1
    <3> QED BY <3>1
  <2>2. CASE ~(n + 1 <= N)
    BY <2>2
  <2> QED BY <2>1, <2>2
<1> HIDE DEF M
<1>3. Nat \subseteq M
  BY <1>1, <1>2, NatInduct
<1> QED BY <1>3 DEF M

\* f is computed from base by N steps.
Computes(f, T, base, N, step) ==
  /\ f \in [0..N -> T] /\ f[0] = base
  /\ \A n \in 1..N : f[n] = step[n][f[n - 1]]

\* Such a function exists, when every step stays in T.
LEMMA RecursionExists ==
  ASSUME NEW T, NEW base \in T, NEW N \in Nat, NEW step \in [1..N -> [T -> T]]
  PROVE  \E f : Computes(f, T, base, N, step)
<1> DEFINE K == {k \in Nat : \E f : Computes(f, T, base, k, step)}
<1>1. 0 \in K
  <2>1. Computes([n \in 0..0 |-> base], T, base, 0, step)
    BY DEF Computes
  <2> QED BY <2>1
<1>2. ASSUME NEW k \in 1..N, k - 1 \in K PROVE k \in K
  <2>1. PICK f : Computes(f, T, base, k - 1, step)
    BY <1>2
  <2> DEFINE g == [n \in 0..k |-> IF n = k THEN step[k][f[k - 1]] ELSE f[n]]
  <2>2. f[k - 1] \in T
    BY <2>1 DEF Computes
  <2>3. step[k][f[k - 1]] \in T
    BY <2>2
  <2>4. g \in [0..k -> T]
    BY <2>1, <2>3 DEF Computes
  <2>5. g[0] = base
    BY <2>1 DEF Computes
  <2>6. ASSUME NEW n \in 1..k PROVE g[n] = step[n][g[n - 1]]
    BY <2>1 DEF Computes
  <2>7. Computes(g, T, base, k, step)
    BY <2>4, <2>5, <2>6 DEF Computes
  <2> QED BY <2>7
<1> HIDE DEF K
<1>3. N \in K
  <2>1. \A n \in 0..N : n \in K
    BY <1>1, <1>2, RangeInduct
  <2> QED BY <2>1
<1> QED BY <1>3 DEF K

-----------------------------------------------------------------------------
(* Split *)

Parts(S) == Texts(Texts(S)) \ {<<>>}

\* A token goes to the last part, or a new part begins.
LEMMA CutFacts ==
  ASSUME NEW S, NEW rs \in Texts(Texts(S)), NEW p \in Texts(S), NEW x \in S, NEW c
  PROVE  Cut(Add(rs, p), x, c)
           = IF x = c THEN Add(Add(rs, p), <<>>) ELSE Add(rs, Add(p, x))
<1> DEFINE U == Texts(S)
           ps == Append(rs, p)
<1>1. rs \in Seq(U)
  BY DEF Texts
<1>2. /\ ps \in Seq(U) /\ Len(rs) \in Nat /\ Len(ps) = Len(rs) + 1 /\ ps[Len(ps)] = p
      /\ \A i \in 1..Len(rs) : ps[i] = rs[i]
  <2> HIDE DEF U
  <2> QED BY <1>1, AppendProperties, LenProperties DEF U
<1>3. ASSUME NEW e \in U PROVE [ps EXCEPT ![Len(ps)] = e] = Append(rs, e)
  <2> DEFINE pe == [ps EXCEPT ![Len(ps)] = e]
             re == Append(rs, e)
  <2> HIDE DEF U
  <2>1. /\ re \in Seq(U) /\ Len(re) = Len(rs) + 1 /\ re[Len(rs) + 1] = e
        /\ \A i \in 1..Len(rs) : re[i] = rs[i]
    BY <1>1, AppendProperties
  <2>2. /\ pe \in Seq(U) /\ Len(pe) = Len(ps)
        /\ \A i \in 1..Len(ps) : pe[i] = IF i = Len(ps) THEN e ELSE ps[i]
    <3> HIDE DEF ps
    <3> QED BY <1>2, ExceptSeq
  <2> HIDE DEF ps, pe, re
  <2>3. \A i \in 1..Len(pe) : pe[i] = re[i]
    BY <1>2, <2>1, <2>2
  <2>4. pe = re
    BY <1>2, <2>1, <2>2, <2>3, SeqEqual
  <2> QED BY <2>4 DEF pe, re
<1>4. Append(p, x) \in U
  BY AddFacts DEF Add
<1>5. [ps EXCEPT ![Len(ps)] = Append(@, x)] = Append(rs, Append(p, x))
  <2> HIDE DEF U
  <2> QED BY <1>2, <1>3, <1>4
<1> QED BY <1>5 DEF Cut, Add

\* Cut leaves at least one part, and texts in every part.
LEMMA CutType ==
  ASSUME NEW S, NEW ps \in Parts(S), NEW x \in S, NEW c
  PROVE  Cut(ps, x, c) \in Parts(S)
<1>1. PICK rs \in Texts(Texts(S)), p \in Texts(S) : ps = Add(rs, p)
  BY LastAdded DEF Parts
<1>2. /\ Add(Add(rs, p), <<>>) \in Texts(Texts(S)) /\ Add(Add(rs, p), <<>>) # <<>>
      /\ Add(rs, Add(p, x)) \in Texts(Texts(S)) /\ Add(rs, Add(p, x)) # <<>>
  <2>1. Add(p, x) \in Texts(S) /\ <<>> \in Texts(S)
    BY AddFacts
  <2> QED BY <2>1, AddFacts
<1> QED BY <1>1, <1>2, CutFacts DEF Parts

\* f is the function that Split looks up at N, the length of s.
Splits(f, N, s, c, S) ==
  /\ f[0] = << <<>> >> /\ \A n \in 1..N : f[n] = Cut(f[n - 1], s[n], c)
  /\ \A n \in 0..N : f[n] \in Parts(S)
  /\ Split(s, c) = f[N]

\* Split chooses such a function, as one exists.
LEMMA SplitRecursion ==
  ASSUME NEW S, NEW s \in Seq(S), NEW c
  PROVE  \E f : Splits(f, Len(s), s, c, S)
<1> DEFINE N == Len(s)
           T == Parts(S)
           base == << <<>> >>
           step == [n \in 1..N |-> [v \in T |-> Cut(v, s[n], c)]]
           Is(g) == g = [n \in 0..N |-> IF n = 0 THEN base ELSE Cut(g[n - 1], s[n], c)]
           chosen == CHOOSE g : Is(g)
<1>1. N \in Nat /\ base \in T
  BY AddFacts DEF Parts
<1>2. \A n \in 1..N : s[n] \in S
  BY ElementOfSeq
<1>3. step \in [1..N -> [T -> T]]
  BY <1>2, CutType
<1>4. \E f : Computes(f, T, base, N, step)
  <2> HIDE DEF step, T, base, N
  <2> QED BY <1>1, <1>3, RecursionExists
<1>5. PICK f : Computes(f, T, base, N, step)
  BY <1>4
<1>6. \A n \in 1..N : f[n - 1] \in T
  <2> HIDE DEF step, T, base, N
  <2> QED BY <1>1, <1>5 DEF Computes
<1>7. \A n \in 1..N : f[n] = Cut(f[n - 1], s[n], c)
  <2>1. \A n \in 1..N : f[n] = step[n][f[n - 1]]
    BY <1>5 DEF Computes
  <2> HIDE DEF T
  <2> QED BY <1>6, <2>1
<1>8. Is(f)
  <2> HIDE DEF base, T, step, N
  <2>1. \A n \in 0..N : f[n] = IF n = 0 THEN base ELSE Cut(f[n - 1], s[n], c)
    BY <1>1, <1>5, <1>7 DEF Computes
  <2>2. f = [n \in 0..N |-> f[n]]
    BY <1>5 DEF Computes
  <2> QED BY <2>1, <2>2
<1>9. Is(chosen)
  BY <1>8
<1>10. chosen[0] = base /\ \A n \in 1..N : chosen[n] = Cut(chosen[n - 1], s[n], c)
  <2> HIDE DEF chosen, base, N
  <2> QED BY <1>1, <1>9
<1>11. \A n \in 0..N : chosen[n] \in T
  <2> DEFINE K == {n \in Nat : chosen[n] \in T}
  <2> HIDE DEF T, base, chosen, N
  <2>1. 0 \in K
    BY <1>1, <1>10
  <2>2. ASSUME NEW n \in 1..N, n - 1 \in K PROVE n \in K
    <3>1. chosen[n - 1] \in T /\ s[n] \in S
      BY <1>2, <2>2
    <3>2. Cut(chosen[n - 1], s[n], c) \in T
      BY <3>1, CutType DEF T
    <3> QED BY <1>10, <3>2
  <2> HIDE DEF K
  <2>3. \A n \in 0..N : n \in K
    BY <1>1, <2>1, <2>2, RangeInduct
  <2> QED BY <2>3 DEF K
<1>12. Split(s, c) = chosen[N]
  BY DEF Split
<1> QED BY <1>10, <1>11, <1>12 DEF Splits

\* Split is computed from left to right.
LEMMA SplitFacts ==
  ASSUME NEW S, NEW c
  PROVE  /\ \A s \in Texts(S) : Split(s, c) \in Parts(S)
         /\ Split(<<>>, c) = << <<>> >>
         /\ \A s \in Texts(S), x \in S :
              Split(Add(s, x), c) = Cut(Split(s, c), x, c)
<1>1. ASSUME NEW s \in Texts(S) PROVE Split(s, c) \in Parts(S)
  <2>1. s \in Seq(S) /\ Len(s) \in Nat
    BY LenProperties DEF Texts
  <2>2. PICK f : Splits(f, Len(s), s, c, S)
    BY <2>1, SplitRecursion
  <2>3. Len(s) \in 0..Len(s)
    BY <2>1
  <2> QED BY <2>2, <2>3 DEF Splits
<1>2. Split(<<>>, c) = << <<>> >>
  <2>1. <<>> \in Seq(S) /\ Len(<<>>) = 0
    BY EmptySeq
  <2>2. \E f : Splits(f, 0, <<>>, c, S)
    BY <2>1, SplitRecursion
  <2> QED BY <2>2 DEF Splits
<1>3. ASSUME NEW s \in Texts(S), NEW x \in S
      PROVE  Split(Add(s, x), c) = Cut(Split(s, c), x, c)
  <2> DEFINE t == Add(s, x)
             N == Len(s)
  <2>1. s \in Seq(S) /\ N \in Nat
    BY LenProperties DEF Texts
  <2>2. /\ t \in Seq(S) /\ Len(t) = N + 1 /\ t[N + 1] = x
        /\ \A n \in 1..N : t[n] = s[n]
    BY <2>1, AppendProperties DEF Add
  <2>3. PICK f : Splits(f, N, s, c, S)
    BY <2>1, SplitRecursion
  <2>4. PICK g : Splits(g, N + 1, t, c, S)
    BY <2>2, SplitRecursion
  <2> HIDE DEF t, N
  <2> DEFINE K == {n \in Nat : f[n] = g[n]}
  <2>5. 0 \in K
    BY <2>3, <2>4 DEF Splits
  <2>6. \A n \in 1..N : n - 1 \in K => n \in K
    BY <2>1, <2>2, <2>3, <2>4 DEF Splits
  <2> HIDE DEF K
  <2>7. \A n \in 0..N : n \in K
    BY <2>1, <2>5, <2>6, RangeInduct
  <2>8. f[N] = g[N]
    BY <2>1, <2>7 DEF K
  <2>9. g[N + 1] = Cut(g[N], x, c)
    BY <2>1, <2>2, <2>4 DEF Splits
  <2> QED BY <2>3, <2>4, <2>8, <2>9 DEF t, Splits
<1> QED BY <1>1, <1>2, <1>3

-----------------------------------------------------------------------------
(* Without *)

\* Keep never adds the token that is dropped.
LEMMA KeepType ==
  ASSUME NEW S, NEW c, NEW v \in Texts(S \ {c}), NEW y \in S
  PROVE  Keep(v, y, c) \in Texts(S \ {c})
BY AppendProperties DEF Keep, Texts

\* f is the function that Without looks up at N, the length of s.
Drops(f, N, s, c, S) ==
  /\ f[0] = <<>> /\ \A n \in 1..N : f[n] = Keep(f[n - 1], s[n], c)
  /\ \A n \in 0..N : f[n] \in Texts(S \ {c})
  /\ Without(s, c) = f[N]

\* Without chooses such a function, as one exists.
LEMMA WithoutRecursion ==
  ASSUME NEW S, NEW s \in Seq(S), NEW c
  PROVE  \E f : Drops(f, Len(s), s, c, S)
<1> DEFINE N == Len(s)
           T == Texts(S \ {c})
           base == <<>>
           step == [n \in 1..N |-> [v \in T |-> Keep(v, s[n], c)]]
           Is(g) == g = [n \in 0..N |-> IF n = 0 THEN base ELSE Keep(g[n - 1], s[n], c)]
           chosen == CHOOSE g : Is(g)
<1>1. N \in Nat /\ base \in T
  BY AddFacts
<1>2. \A n \in 1..N : s[n] \in S
  BY ElementOfSeq
<1>3. step \in [1..N -> [T -> T]]
  BY <1>2, KeepType
<1>4. \E f : Computes(f, T, base, N, step)
  <2> HIDE DEF step, T, base, N
  <2> QED BY <1>1, <1>3, RecursionExists
<1>5. PICK f : Computes(f, T, base, N, step)
  BY <1>4
<1>6. \A n \in 1..N : f[n - 1] \in T
  <2> HIDE DEF step, T, base, N
  <2> QED BY <1>1, <1>5 DEF Computes
<1>7. \A n \in 1..N : f[n] = Keep(f[n - 1], s[n], c)
  <2>1. \A n \in 1..N : f[n] = step[n][f[n - 1]]
    BY <1>5 DEF Computes
  <2> HIDE DEF T
  <2> QED BY <1>6, <2>1
<1>8. Is(f)
  <2> HIDE DEF base, T, step, N
  <2>1. \A n \in 0..N : f[n] = IF n = 0 THEN base ELSE Keep(f[n - 1], s[n], c)
    BY <1>1, <1>5, <1>7 DEF Computes
  <2>2. f = [n \in 0..N |-> f[n]]
    BY <1>5 DEF Computes
  <2> QED BY <2>1, <2>2
<1>9. Is(chosen)
  BY <1>8
<1>10. chosen[0] = base /\ \A n \in 1..N : chosen[n] = Keep(chosen[n - 1], s[n], c)
  <2> HIDE DEF chosen, base, N
  <2> QED BY <1>1, <1>9
<1>11. \A n \in 0..N : chosen[n] \in T
  <2> DEFINE K == {n \in Nat : chosen[n] \in T}
  <2> HIDE DEF T, base, chosen, N
  <2>1. 0 \in K
    BY <1>1, <1>10
  <2>2. ASSUME NEW n \in 1..N, n - 1 \in K PROVE n \in K
    <3>1. chosen[n - 1] \in T /\ s[n] \in S
      BY <1>2, <2>2
    <3>2. Keep(chosen[n - 1], s[n], c) \in T
      BY <3>1, KeepType DEF T
    <3> QED BY <1>10, <3>2
  <2> HIDE DEF K
  <2>3. \A n \in 0..N : n \in K
    BY <1>1, <2>1, <2>2, RangeInduct
  <2> QED BY <2>3 DEF K
<1>12. Without(s, c) = chosen[N]
  BY DEF Without
<1> QED BY <1>10, <1>11, <1>12 DEF Drops

\* Without looks at a text from left to right, and leaves no c.
LEMMA WithoutFacts ==
  ASSUME NEW S, NEW c
  PROVE  /\ \A s \in Texts(S) : Without(s, c) \in Texts(S \ {c})
         /\ Without(<<>>, c) = <<>>
         /\ \A s \in Texts(S), x \in S :
              Without(Add(s, x), c) = Keep(Without(s, c), x, c)
<1>1. ASSUME NEW s \in Texts(S) PROVE Without(s, c) \in Texts(S \ {c})
  <2>1. s \in Seq(S) /\ Len(s) \in Nat
    BY LenProperties DEF Texts
  <2>2. PICK f : Drops(f, Len(s), s, c, S)
    BY <2>1, WithoutRecursion
  <2>3. Len(s) \in 0..Len(s)
    BY <2>1
  <2> QED BY <2>2, <2>3 DEF Drops
<1>2. Without(<<>>, c) = <<>>
  <2>1. <<>> \in Seq(S) /\ Len(<<>>) = 0
    BY EmptySeq
  <2>2. \E f : Drops(f, 0, <<>>, c, S)
    BY <2>1, WithoutRecursion
  <2> QED BY <2>2 DEF Drops
<1>3. ASSUME NEW s \in Texts(S), NEW x \in S
      PROVE  Without(Add(s, x), c) = Keep(Without(s, c), x, c)
  <2> DEFINE t == Add(s, x)
             N == Len(s)
  <2>1. s \in Seq(S) /\ N \in Nat
    BY LenProperties DEF Texts
  <2>2. /\ t \in Seq(S) /\ Len(t) = N + 1 /\ t[N + 1] = x
        /\ \A n \in 1..N : t[n] = s[n]
    BY <2>1, AppendProperties DEF Add
  <2>3. PICK f : Drops(f, N, s, c, S)
    BY <2>1, WithoutRecursion
  <2>4. PICK g : Drops(g, N + 1, t, c, S)
    BY <2>2, WithoutRecursion
  <2> HIDE DEF t, N
  <2> DEFINE K == {n \in Nat : f[n] = g[n]}
  <2>5. 0 \in K
    BY <2>3, <2>4 DEF Drops
  <2>6. \A n \in 1..N : n - 1 \in K => n \in K
    BY <2>1, <2>2, <2>3, <2>4 DEF Drops
  <2> HIDE DEF K
  <2>7. \A n \in 0..N : n \in K
    BY <2>1, <2>5, <2>6, RangeInduct
  <2>8. f[N] = g[N]
    BY <2>1, <2>7 DEF K
  <2>9. g[N + 1] = Keep(g[N], x, c)
    BY <2>1, <2>2, <2>4 DEF Drops
  <2> QED BY <2>3, <2>4, <2>8, <2>9 DEF t, Drops
<1> QED BY <1>1, <1>2, <1>3

-----------------------------------------------------------------------------
(* Joined *)

Glue(text, part, n, sep) == IF n = 1 THEN part ELSE Cat(Cat(text, sep), part)

\* Texts glued together are a text.
LEMMA GlueType ==
  ASSUME NEW S, NEW v \in Texts(S), NEW p \in Texts(S), NEW n, NEW sep \in Texts(S)
  PROVE  Glue(v, p, n, sep) \in Texts(S)
BY CatFacts DEF Glue

\* f is the function that Joined looks up at N, the length of ps.
Joins(f, N, ps, sep, S) ==
  /\ f[0] = <<>> /\ \A n \in 1..N : f[n] = Glue(f[n - 1], ps[n], n, sep)
  /\ \A n \in 0..N : f[n] \in Texts(S)
  /\ Joined(ps, sep) = f[N]

\* Joined chooses such a function, as one exists.
LEMMA JoinedRecursion ==
  ASSUME NEW S, NEW ps \in Seq(Texts(S)), NEW sep \in Texts(S)
  PROVE  \E f : Joins(f, Len(ps), ps, sep, S)
<1> DEFINE N == Len(ps)
           T == Texts(S)
           base == <<>>
           step == [n \in 1..N |-> [v \in T |-> Glue(v, ps[n], n, sep)]]
           Is(g) == g = [n \in 0..N |-> IF n = 0 THEN base ELSE Glue(g[n - 1], ps[n], n, sep)]
           chosen == CHOOSE g : Is(g)
<1>1. N \in Nat /\ base \in T
  BY AddFacts
<1>2. \A n \in 1..N : ps[n] \in Texts(S)
  BY ElementOfSeq
<1>3. step \in [1..N -> [T -> T]]
  BY <1>2, GlueType
<1>4. \E f : Computes(f, T, base, N, step)
  <2> HIDE DEF step, T, base, N
  <2> QED BY <1>1, <1>3, RecursionExists
<1>5. PICK f : Computes(f, T, base, N, step)
  BY <1>4
<1>6. \A n \in 1..N : f[n - 1] \in T
  <2> HIDE DEF step, T, base, N
  <2> QED BY <1>1, <1>5 DEF Computes
<1>7. \A n \in 1..N : f[n] = Glue(f[n - 1], ps[n], n, sep)
  <2>1. \A n \in 1..N : f[n] = step[n][f[n - 1]]
    BY <1>5 DEF Computes
  <2> HIDE DEF T
  <2> QED BY <1>6, <2>1
<1>8. Is(f)
  <2> HIDE DEF base, T, step, N
  <2>1. \A n \in 0..N : f[n] = IF n = 0 THEN base ELSE Glue(f[n - 1], ps[n], n, sep)
    BY <1>1, <1>5, <1>7 DEF Computes
  <2>2. f = [n \in 0..N |-> f[n]]
    BY <1>5 DEF Computes
  <2> QED BY <2>1, <2>2
<1>9. Is(chosen)
  BY <1>8
<1>10. chosen[0] = base /\ \A n \in 1..N : chosen[n] = Glue(chosen[n - 1], ps[n], n, sep)
  <2> HIDE DEF chosen, base, N
  <2> QED BY <1>1, <1>9
<1>11. \A n \in 0..N : chosen[n] \in T
  <2> DEFINE K == {n \in Nat : chosen[n] \in T}
  <2> HIDE DEF T, base, chosen, N
  <2>1. 0 \in K
    BY <1>1, <1>10
  <2>2. ASSUME NEW n \in 1..N, n - 1 \in K PROVE n \in K
    <3>1. chosen[n - 1] \in T /\ ps[n] \in Texts(S)
      BY <1>2, <2>2
    <3>2. Glue(chosen[n - 1], ps[n], n, sep) \in T
      BY <3>1, GlueType DEF T
    <3> QED BY <1>10, <3>2
  <2> HIDE DEF K
  <2>3. \A n \in 0..N : n \in K
    BY <1>1, <2>1, <2>2, RangeInduct
  <2> QED BY <2>3 DEF K
<1>12. Joined(ps, sep) = chosen[N]
  BY DEF Joined, Glue, Cat
<1> QED BY <1>10, <1>11, <1>12 DEF Joins

\* Joined puts a separator before every part but the first.
LEMMA JoinedFacts ==
  ASSUME NEW S, NEW sep \in Texts(S)
  PROVE  /\ \A ps \in Texts(Texts(S)) : Joined(ps, sep) \in Texts(S)
         /\ Joined(<<>>, sep) = <<>>
         /\ \A ps \in Texts(Texts(S)), x \in Texts(S) :
              Joined(Add(ps, x), sep) =
                IF ps = <<>> THEN x ELSE Cat(Cat(Joined(ps, sep), sep), x)
<1>1. ASSUME NEW ps \in Texts(Texts(S)) PROVE Joined(ps, sep) \in Texts(S)
  <2>1. ps \in Seq(Texts(S)) /\ Len(ps) \in Nat
    BY LenProperties DEF Texts
  <2>2. PICK f : Joins(f, Len(ps), ps, sep, S)
    BY <2>1, JoinedRecursion
  <2>3. Len(ps) \in 0..Len(ps)
    BY <2>1
  <2> QED BY <2>2, <2>3 DEF Joins
<1>2. Joined(<<>>, sep) = <<>>
  <2>1. <<>> \in Seq(Texts(S)) /\ Len(<<>>) = 0
    BY EmptySeq
  <2>2. \E f : Joins(f, 0, <<>>, sep, S)
    BY <2>1, JoinedRecursion
  <2> QED BY <2>2 DEF Joins
<1>3. ASSUME NEW ps \in Texts(Texts(S)), NEW x \in Texts(S)
      PROVE  Joined(Add(ps, x), sep) =
                IF ps = <<>> THEN x ELSE Cat(Cat(Joined(ps, sep), sep), x)
  <2> DEFINE t == Add(ps, x)
             N == Len(ps)
  <2>1. ps \in Seq(Texts(S)) /\ N \in Nat
    BY LenProperties DEF Texts
  <2>2. /\ t \in Seq(Texts(S)) /\ Len(t) = N + 1 /\ t[N + 1] = x
        /\ \A n \in 1..N : t[n] = ps[n]
    BY <2>1, AppendProperties DEF Add
  <2>3. PICK f : Joins(f, N, ps, sep, S)
    BY <2>1, JoinedRecursion
  <2>4. PICK g : Joins(g, N + 1, t, sep, S)
    BY <2>2, JoinedRecursion
  <2> HIDE DEF t, N
  <2> DEFINE K == {n \in Nat : f[n] = g[n]}
  <2>5. 0 \in K
    BY <2>3, <2>4 DEF Joins
  <2>6. \A n \in 1..N : n - 1 \in K => n \in K
    BY <2>1, <2>2, <2>3, <2>4 DEF Joins
  <2> HIDE DEF K
  <2>7. \A n \in 0..N : n \in K
    BY <2>1, <2>5, <2>6, RangeInduct
  <2>8. f[N] = g[N]
    BY <2>1, <2>7 DEF K
  <2>9. g[N + 1] = Glue(g[N], x, N + 1, sep)
    BY <2>1, <2>2, <2>4 DEF Joins
  <2>10. N + 1 = 1 <=> ps = <<>>
    BY <2>1, EmptySeq DEF N
  <2> QED BY <2>3, <2>4, <2>8, <2>9, <2>10 DEF t, Joins, Glue
<1> QED BY <1>1, <1>2, <1>3

-----------------------------------------------------------------------------
(* Walk *)

\* Where a walk is after one more segment, its segments are texts.
LEMMA EnterType ==
  ASSUME NEW S, NEW v \in Texts(Texts(S)), NEW p \in Texts(S)
  PROVE  Enter(v, p) \in Texts(Texts(S))
<1>1. Append(v, p) \in Texts(Texts(S))
  BY AddFacts DEF Add
<1>2. CASE v = <<>>
  BY <1>1, <1>2 DEF Enter
<1>3. CASE v # <<>>
  <2> DEFINE U == Texts(S)
  <2>1. v \in Seq(U)
    BY DEF Texts
  <2> HIDE DEF U
  <2>2. Len(v) \in Nat /\ \A i \in 1..(Len(v) - 1) : v[i] \in U
    BY <2>1, LenProperties, ElementOfSeq
  <2>3. Front(v) \in Seq(U)
    BY <2>2, SubSeqProperties DEF Front
  <2>4. Front(v) \in Texts(Texts(S))
    BY <2>3 DEF Texts, U
  <2> QED BY <1>1, <1>3, <2>4 DEF Enter
<1> QED BY <1>2, <1>3

\* f is the function that Walk looks up at N, the length of ps.
Walks(f, N, ps, S) ==
  /\ f[0] = <<>> /\ \A n \in 1..N : f[n] = Enter(f[n - 1], ps[n])
  /\ \A n \in 0..N : f[n] \in Texts(Texts(S))
  /\ Walk(ps) = f[N]

\* Walk chooses such a function, as one exists.
LEMMA WalkRecursion ==
  ASSUME NEW S, NEW ps \in Seq(Texts(S))
  PROVE  \E f : Walks(f, Len(ps), ps, S)
<1> DEFINE N == Len(ps)
           T == Texts(Texts(S))
           base == <<>>
           step == [n \in 1..N |-> [v \in T |-> Enter(v, ps[n])]]
           Is(g) == g = [n \in 0..N |-> IF n = 0 THEN base ELSE Enter(g[n - 1], ps[n])]
           chosen == CHOOSE g : Is(g)
<1>1. N \in Nat /\ base \in T
  BY AddFacts
<1>2. \A n \in 1..N : ps[n] \in Texts(S)
  BY ElementOfSeq
<1>3. step \in [1..N -> [T -> T]]
  BY <1>2, EnterType
<1>4. \E f : Computes(f, T, base, N, step)
  <2> HIDE DEF step, T, base, N
  <2> QED BY <1>1, <1>3, RecursionExists
<1>5. PICK f : Computes(f, T, base, N, step)
  BY <1>4
<1>6. \A n \in 1..N : f[n - 1] \in T
  <2> HIDE DEF step, T, base, N
  <2> QED BY <1>1, <1>5 DEF Computes
<1>7. \A n \in 1..N : f[n] = Enter(f[n - 1], ps[n])
  <2>1. \A n \in 1..N : f[n] = step[n][f[n - 1]]
    BY <1>5 DEF Computes
  <2> HIDE DEF T
  <2> QED BY <1>6, <2>1
<1>8. Is(f)
  <2> HIDE DEF base, T, step, N
  <2>1. \A n \in 0..N : f[n] = IF n = 0 THEN base ELSE Enter(f[n - 1], ps[n])
    BY <1>1, <1>5, <1>7 DEF Computes
  <2>2. f = [n \in 0..N |-> f[n]]
    BY <1>5 DEF Computes
  <2> QED BY <2>1, <2>2
<1>9. Is(chosen)
  BY <1>8
<1>10. chosen[0] = base /\ \A n \in 1..N : chosen[n] = Enter(chosen[n - 1], ps[n])
  <2> HIDE DEF chosen, base, N
  <2> QED BY <1>1, <1>9
<1>11. \A n \in 0..N : chosen[n] \in T
  <2> DEFINE K == {n \in Nat : chosen[n] \in T}
  <2> HIDE DEF T, base, chosen, N
  <2>1. 0 \in K
    BY <1>1, <1>10
  <2>2. ASSUME NEW n \in 1..N, n - 1 \in K PROVE n \in K
    <3>1. chosen[n - 1] \in T /\ ps[n] \in Texts(S)
      BY <1>2, <2>2
    <3>2. Enter(chosen[n - 1], ps[n]) \in T
      BY <3>1, EnterType DEF T
    <3> QED BY <1>10, <3>2
  <2> HIDE DEF K
  <2>3. \A n \in 0..N : n \in K
    BY <1>1, <2>1, <2>2, RangeInduct
  <2> QED BY <2>3 DEF K
<1>12. Walk(ps) = chosen[N]
  BY DEF Walk
<1> QED BY <1>10, <1>11, <1>12 DEF Walks

\* Walk enters one segment after the other.
LEMMA WalkFacts ==
  ASSUME NEW S
  PROVE  /\ \A ps \in Texts(Texts(S)) : Walk(ps) \in Texts(Texts(S))
         /\ Walk(<<>>) = <<>>
         /\ \A ps \in Texts(Texts(S)), x \in Texts(S) :
              Walk(Add(ps, x)) = Enter(Walk(ps), x)
<1>1. ASSUME NEW ps \in Texts(Texts(S)) PROVE Walk(ps) \in Texts(Texts(S))
  <2>1. ps \in Seq(Texts(S)) /\ Len(ps) \in Nat
    BY LenProperties DEF Texts
  <2>2. PICK f : Walks(f, Len(ps), ps, S)
    BY <2>1, WalkRecursion
  <2>3. Len(ps) \in 0..Len(ps)
    BY <2>1
  <2> QED BY <2>2, <2>3 DEF Walks
<1>2. Walk(<<>>) = <<>>
  <2>1. <<>> \in Seq(Texts(S)) /\ Len(<<>>) = 0
    BY EmptySeq
  <2>2. \E f : Walks(f, 0, <<>>, S)
    BY <2>1, WalkRecursion
  <2> QED BY <2>2 DEF Walks
<1>3. ASSUME NEW ps \in Texts(Texts(S)), NEW x \in Texts(S)
      PROVE  Walk(Add(ps, x)) = Enter(Walk(ps), x)
  <2> DEFINE t == Add(ps, x)
             N == Len(ps)
  <2>1. ps \in Seq(Texts(S)) /\ N \in Nat
    BY LenProperties DEF Texts
  <2>2. /\ t \in Seq(Texts(S)) /\ Len(t) = N + 1 /\ t[N + 1] = x
        /\ \A n \in 1..N : t[n] = ps[n]
    BY <2>1, AppendProperties DEF Add
  <2>3. PICK f : Walks(f, N, ps, S)
    BY <2>1, WalkRecursion
  <2>4. PICK g : Walks(g, N + 1, t, S)
    BY <2>2, WalkRecursion
  <2> HIDE DEF t, N
  <2> DEFINE K == {n \in Nat : f[n] = g[n]}
  <2>5. 0 \in K
    BY <2>3, <2>4 DEF Walks
  <2>6. \A n \in 1..N : n - 1 \in K => n \in K
    BY <2>1, <2>2, <2>3, <2>4 DEF Walks
  <2> HIDE DEF K
  <2>7. \A n \in 0..N : n \in K
    BY <2>1, <2>5, <2>6, RangeInduct
  <2>8. f[N] = g[N]
    BY <2>1, <2>7 DEF K
  <2>9. g[N + 1] = Enter(g[N], x)
    BY <2>1, <2>2, <2>4 DEF Walks
  <2> QED BY <2>3, <2>4, <2>8, <2>9 DEF t, Walks
<1> QED BY <1>1, <1>2, <1>3

-----------------------------------------------------------------------------
(* What they compute for texts put together *)

\* Nothing is dropped from a text without c.
LEMMA WithoutAbsent ==
  ASSUME NEW S, NEW c, c \notin S
  PROVE  \A s \in Texts(S) : Without(s, c) = s
<1> DEFINE P == {s \in Texts(S) : Without(s, c) = s}
<1>1. <<>> \in P
  BY AddFacts, WithoutFacts
<1>2. ASSUME NEW s \in Texts(S), NEW x \in S, s \in P PROVE Add(s, x) \in P
  <2>1. Without(Add(s, x), c) = Keep(s, x, c)
    BY <1>2, WithoutFacts
  <2>2. Keep(s, x, c) = Add(s, x)
    BY DEF Keep, Add
  <2> QED BY <2>1, <2>2, AddFacts
<1> HIDE DEF P
<1>3. Texts(S) \subseteq P
  BY <1>1, <1>2, TextInduct
<1> QED BY <1>3 DEF P

\* A text without c is one part.
LEMMA SplitAbsent ==
  ASSUME NEW S, NEW c, c \notin S
  PROVE  \A s \in Texts(S) : Split(s, c) = <<s>>
<1> DEFINE P == {s \in Texts(S) : Split(s, c) = <<s>>}
<1>1. <<>> \in P
  BY AddFacts, SplitFacts
<1>2. ASSUME NEW s \in Texts(S), NEW x \in S, s \in P PROVE Add(s, x) \in P
  <2>1. Split(Add(s, x), c) = Cut(<<s>>, x, c)
    BY <1>2, SplitFacts
  <2>2. Cut(<<s>>, x, c) = <<Add(s, x)>>
    BY DEF Cut, Add
  <2> QED BY <2>1, <2>2, AddFacts
<1> HIDE DEF P
<1>3. Texts(S) \subseteq P
  BY <1>1, <1>2, TextInduct
<1> QED BY <1>3 DEF P

\* A token is put into the last part.
LEMMA CutConcat ==
  ASSUME NEW S, NEW ps \in Texts(Texts(S)), NEW qs \in Parts(S), NEW x \in S, NEW c
  PROVE  Cut(Cat(ps, qs), x, c) = Cat(ps, Cut(qs, x, c))
<1>1. PICK rs \in Texts(Texts(S)), p \in Texts(S) : qs = Add(rs, p)
  BY LastAdded DEF Parts
<1>2. Cat(ps, rs) \in Texts(Texts(S)) /\ Cat(ps, qs) = Add(Cat(ps, rs), p)
  BY <1>1, CatFacts
<1>3. Add(p, x) \in Texts(S) /\ <<>> \in Texts(S) /\ Add(rs, p) \in Texts(Texts(S))
  BY AddFacts
<1>4. CASE x = c
  <2>1. Cut(Cat(ps, qs), x, c) = Add(Add(Cat(ps, rs), p), <<>>)
    BY <1>2, <1>4, CutFacts
  <2>2. Cut(qs, x, c) = Add(Add(rs, p), <<>>)
    BY <1>1, <1>4, CutFacts
  <2>3. \A e \in Texts(S) : Cat(ps, Add(Add(rs, p), e)) = Add(Add(Cat(ps, rs), p), e)
    BY <1>3, CatFacts
  <2> QED BY <1>3, <2>1, <2>2, <2>3
<1>5. CASE x # c
  <2>1. Cut(Cat(ps, qs), x, c) = Add(Cat(ps, rs), Add(p, x))
    BY <1>2, <1>5, CutFacts
  <2>2. Cut(qs, x, c) = Add(rs, Add(p, x))
    BY <1>1, <1>5, CutFacts
  <2> QED BY <1>3, <2>1, <2>2, CatFacts
<1> QED BY <1>4, <1>5

\* A text with c in it is split on each side of c.
LEMMA SplitConcat ==
  ASSUME NEW S, NEW c \in S, NEW a \in Texts(S)
  PROVE  \A b \in Texts(S) : Split(Cat(Add(a, c), b), c) = Cat(Split(a, c), Split(b, c))
<1> DEFINE ps == Split(a, c)
           P == {b \in Texts(S) : Split(Cat(Add(a, c), b), c) = Cat(ps, Split(b, c))}
<1>1. ps \in Texts(Texts(S)) /\ Add(a, c) \in Texts(S)
  BY SplitFacts, AddFacts DEF Parts
<1>2. <<>> \in P
  <2>1. Cat(Add(a, c), <<>>) = Add(a, c) /\ <<>> \in Texts(S)
    BY <1>1, CatFacts, AddFacts
  <2>2. Split(Add(a, c), c) = Add(ps, <<>>)
    <3>1. Split(Add(a, c), c) = Cut(ps, c, c)
      BY SplitFacts
    <3> QED BY <3>1 DEF Cut, Add
  <2>3. ASSUME NEW e \in Texts(S) PROVE Add(ps, e) = Cat(ps, <<e>>)
    <3>1. <<e>> = Add(<<>>, e) /\ <<>> \in Texts(Texts(S))
      BY AddFacts
    <3> HIDE DEF ps
    <3>2. Cat(ps, Add(<<>>, e)) = Add(Cat(ps, <<>>), e) /\ Cat(ps, <<>>) = ps
      BY <1>1, <3>1, CatFacts
    <3> QED BY <3>1, <3>2
  <2> QED BY <2>1, <2>2, <2>3, SplitFacts
<1>3. ASSUME NEW b \in Texts(S), NEW x \in S, b \in P PROVE Add(b, x) \in P
  <2> DEFINE ab == Cat(Add(a, c), b)
             qs == Split(b, c)
  <2>1. ab \in Texts(S) /\ Cat(Add(a, c), Add(b, x)) = Add(ab, x)
    BY <1>1, CatFacts
  <2>2. Split(ab, c) = Cat(ps, qs)
    BY <1>3
  <2>3. qs \in Parts(S) /\ Split(Add(b, x), c) = Cut(qs, x, c)
    BY SplitFacts
  <2> HIDE DEF ab, qs, ps
  <2>4. Split(Add(ab, x), c) = Cut(Cat(ps, qs), x, c)
    BY <2>1, <2>2, SplitFacts
  <2>5. Cut(Cat(ps, qs), x, c) = Cat(ps, Cut(qs, x, c))
    BY <1>1, <2>3, CutConcat
  <2>6. Split(Cat(Add(a, c), Add(b, x)), c) = Cat(ps, Split(Add(b, x), c))
    BY <2>1, <2>3, <2>4, <2>5
  <2> QED BY <2>6, AddFacts
<1> HIDE DEF P
<1>4. Texts(S) \subseteq P
  BY <1>2, <1>3, TextInduct
<1> QED BY <1>4 DEF P

\* Two lists of parts joined are the two texts with a separator between.
LEMMA JoinedConcat ==
  ASSUME NEW S, NEW ps \in Parts(S), NEW sep \in Texts(S)
  PROVE  \A qs \in Parts(S) :
           Joined(Cat(ps, qs), sep) = Cat(Cat(Joined(ps, sep), sep), Joined(qs, sep))
<1> DEFINE j == Cat(Joined(ps, sep), sep)
           P == {qs \in Texts(Texts(S)) :
                   qs # <<>> => Joined(Cat(ps, qs), sep) = Cat(j, Joined(qs, sep))}
<1>1. ps \in Texts(Texts(S)) /\ ps # <<>> /\ j \in Texts(S)
  BY JoinedFacts, CatFacts DEF Parts
<1>2. <<>> \in P
  BY AddFacts
<1>3. ASSUME NEW qs \in Texts(Texts(S)), NEW p \in Texts(S), qs \in P PROVE Add(qs, p) \in P
  <2> DEFINE u == Joined(qs, sep)
             w == Cat(ps, qs)
  <2>1. Add(qs, p) \in Texts(Texts(S)) /\ u \in Texts(S)
    BY AddFacts, JoinedFacts
  <2>2. w \in Texts(Texts(S)) /\ w # <<>> /\ Cat(ps, Add(qs, p)) = Add(w, p)
    BY <1>1, CatFacts
  <2>3. Joined(Add(w, p), sep) = Cat(Cat(Joined(w, sep), sep), p)
    <3> HIDE DEF w
    <3> QED BY <2>2, JoinedFacts
  <2>4. Joined(Add(qs, p), sep) = IF qs = <<>> THEN p ELSE Cat(Cat(u, sep), p)
    BY JoinedFacts
  <2>5. CASE qs = <<>>
    <3>1. w = ps
      BY <1>1, <2>5, CatFacts
    <3> QED BY <2>1, <2>2, <2>3, <2>4, <2>5, <3>1
  <2>6. CASE qs # <<>>
    <3>1. Joined(w, sep) = Cat(j, u)
      BY <1>3, <2>6
    <3> HIDE DEF u, w, j
    <3>2. Cat(Cat(Cat(j, u), sep), p) = Cat(j, Cat(Cat(u, sep), p))
      BY <1>1, <2>1, CatFacts
    <3> QED BY <2>1, <2>2, <2>3, <2>4, <2>6, <3>1, <3>2 DEF u
  <2> QED BY <2>5, <2>6
<1> HIDE DEF P
<1>4. Texts(Texts(S)) \subseteq P
  BY <1>2, <1>3, TextInduct
<1> QED BY <1>4 DEF P, Parts

\* Joining what was split gives the text: no two texts are split alike.
LEMMA JoinedSplit ==
  ASSUME NEW S, NEW c \in S
  PROVE  \A s \in Texts(S) : Joined(Split(s, c), <<c>>) = s
<1> DEFINE sep == <<c>>
           P == {s \in Texts(S) : Joined(Split(s, c), sep) = s}
<1>1. sep = Add(<<>>, c) /\ sep \in Texts(S)
  BY AddFacts
<1> HIDE DEF sep
<1>2. <<>> \in P
  <2>1. \A p \in Texts(S) : Joined(<<p>>, sep) = p
    <3>1. \A p \in Texts(S) : <<p>> = Add(<<>>, p) /\ <<>> \in Texts(Texts(S))
      BY AddFacts
    <3> QED BY <1>1, <3>1, JoinedFacts
  <2> QED BY <2>1, SplitFacts, AddFacts
<1>3. ASSUME NEW s \in Texts(S), NEW x \in S, s \in P PROVE Add(s, x) \in P
  <2> DEFINE ps == Split(s, c)
  <2>1. Add(s, x) \in Texts(S) /\ Split(Add(s, x), c) = Cut(ps, x, c)
    <3>1. Add(s, x) \in Texts(S)
      BY AddFacts
    <3>2. Split(Add(s, x), c) = Cut(ps, x, c)
      BY SplitFacts
    <3> QED BY <3>1, <3>2
  <2>2. ps \in Parts(S) /\ Joined(ps, sep) = s
    BY <1>3, SplitFacts
  <2> HIDE DEF ps
  <2>3. PICK rs \in Texts(Texts(S)), p \in Texts(S) : ps = Add(rs, p)
    <3>1. ps \in Texts(Texts(S)) /\ ps # <<>>
      BY <2>2 DEF Parts
    <3> QED BY <3>1, LastAdded
  <2>4. Joined(Add(rs, p), sep) = s
    BY <2>2, <2>3
  <2>5. CASE x = c
    <3>1. Cut(ps, x, c) = Add(Add(rs, p), <<>>)
      BY <2>3, <2>5, CutFacts
    <3>2. Add(rs, p) \in Texts(Texts(S)) /\ Add(rs, p) # <<>> /\ <<>> \in Texts(S)
      BY AddFacts
    <3>3. \A e \in Texts(S) : Joined(Add(Add(rs, p), e), sep) = Cat(Cat(s, sep), e)
      BY <1>1, <2>4, <3>2, JoinedFacts
    <3>4. Cat(Cat(s, sep), <<>>) = Add(s, x)
      <4>1. Cat(s, sep) = Add(s, x)
        BY <1>1, <2>5, CatFacts, AddFacts
      <4> QED BY <2>1, <4>1, CatFacts
    <3> QED BY <2>1, <3>1, <3>2, <3>3, <3>4 DEF ps
  <2>6. CASE x # c
    <3> DEFINE j == Cat(Joined(rs, sep), sep)
    <3>1. Cut(ps, x, c) = Add(rs, Add(p, x)) /\ Add(p, x) \in Texts(S)
      BY <2>3, <2>6, CutFacts, AddFacts
    <3>2. \A e \in Texts(S) : Joined(Add(rs, e), sep) = IF rs = <<>> THEN e ELSE Cat(j, e)
      BY <1>1, JoinedFacts
    <3>3. j \in Texts(S)
      BY <1>1, JoinedFacts, CatFacts
    <3> HIDE DEF j
    <3>4. Cat(j, Add(p, x)) = Add(Cat(j, p), x)
      BY <3>3, CatFacts
    <3> QED BY <2>1, <2>4, <3>1, <3>2, <3>4 DEF ps
  <2> QED BY <2>5, <2>6
<1> HIDE DEF P
<1>4. Texts(S) \subseteq P
  BY <1>2, <1>3, TextInduct
<1> QED BY <1>4 DEF P, sep

\* When all parts of b come first in a, a is b or goes on behind b with a c.
LEMMA SplitPrefix ==
  ASSUME NEW S, NEW c \in S, NEW a \in Texts(S), NEW b \in Texts(S),
         NEW qs \in Texts(Texts(S)), Split(a, c) = Cat(Split(b, c), qs)
  PROVE  a = b \/ \E d \in Texts(S) : a = Cat(Add(b, c), d)
<1> DEFINE ps == Split(b, c)
           sep == <<c>>
<1>1. ps \in Parts(S) /\ ps \in Texts(Texts(S))
  BY SplitFacts DEF Parts
<1>2. Joined(ps, sep) = b /\ Joined(Split(a, c), sep) = a
  BY JoinedSplit
<1>3. sep \in Texts(S) /\ sep = Add(<<>>, c) /\ <<>> \in Texts(S)
  BY AddFacts
<1> HIDE DEF ps, sep
<1>4. CASE qs = <<>>
  <2>1. Cat(ps, qs) = ps
    BY <1>1, <1>4, CatFacts
  <2> QED BY <1>2, <2>1 DEF ps
<1>5. CASE qs # <<>>
  <2>1. Joined(Cat(ps, qs), sep) = Cat(Cat(b, sep), Joined(qs, sep))
    BY <1>1, <1>2, <1>3, <1>5, JoinedConcat DEF Parts
  <2>2. Cat(b, sep) = Add(b, c) /\ Joined(qs, sep) \in Texts(S)
    BY <1>3, CatFacts, JoinedFacts
  <2> QED BY <1>2, <2>1, <2>2 DEF ps
<1> QED BY <1>4, <1>5

\* When all parts of b come last in a, behind others, a has a c in front of b.
LEMMA SplitSuffix ==
  ASSUME NEW S, NEW c \in S, NEW a \in Texts(S), NEW b \in Texts(S),
         NEW ps \in Parts(S), Split(a, c) = Cat(ps, Split(b, c))
  PROVE  \E d \in Texts(S) : a = Cat(Add(d, c), b)
<1> DEFINE qs == Split(b, c)
           sep == <<c>>
           d == Joined(ps, sep)
<1>1. qs \in Parts(S)
  BY SplitFacts
<1>2. Joined(qs, sep) = b /\ Joined(Split(a, c), sep) = a
  BY JoinedSplit
<1>3. sep \in Texts(S) /\ sep = Add(<<>>, c) /\ <<>> \in Texts(S)
  BY AddFacts
<1> HIDE DEF qs, sep
<1>4. Joined(Cat(ps, qs), sep) = Cat(Cat(d, sep), Joined(qs, sep))
  BY <1>1, <1>3, JoinedConcat
<1>5. d \in Texts(S)
  BY <1>3, JoinedFacts DEF Parts
<1>6. Cat(d, sep) = Add(d, c)
  BY <1>3, <1>5, CatFacts
<1> QED BY <1>2, <1>4, <1>5, <1>6 DEF qs

-----------------------------------------------------------------------------
(* Beginnings and ends *)

\* A text begins with s when something put behind s makes it.
LEMMA PrefixCat ==
  ASSUME NEW S, NEW s \in Texts(S), NEW t \in Texts(S)
  PROVE  IsPrefix(s, t) <=> \E d \in Texts(S) : t = Cat(s, d)
<1>1. /\ s \in Seq(S) /\ t \in Seq(S) /\ Len(s) \in Nat /\ Len(t) \in Nat
      /\ \A i \in 1..Len(s) : s[i] \in S
      /\ \A i \in 1..Len(t) : t[i] \in S
  BY LenProperties, ElementOfSeq DEF Texts
<1>2. ASSUME IsPrefix(s, t) PROVE \E d \in Texts(S) : t = Cat(s, d)
  <2> DEFINE d == SubSeq(t, Len(s) + 1, Len(t))
  <2>1. Len(s) <= Len(t) /\ \A i \in 1..Len(s) : s[i] = t[i]
    BY <1>1, <1>2 DEF IsPrefix
  <2>2. /\ d \in Seq(S) /\ Len(d) = Len(t) - Len(s)
        /\ \A i \in 1..Len(d) : d[i] = t[Len(s) + i]
    BY <1>1, <2>1, SubSeqProperties
  <2> HIDE DEF d
  <2>3. /\ s \o d \in Seq(S) /\ Len(s \o d) = Len(t)
        /\ \A i \in 1..Len(t) : (s \o d)[i] = t[i]
    BY <1>1, <2>1, <2>2, ConcatProperties
  <2>4. t = s \o d
    BY <1>1, <2>3, SeqEqual
  <2> QED BY <2>2, <2>4 DEF Texts, Cat
<1>3. ASSUME NEW d \in Texts(S), t = Cat(s, d) PROVE IsPrefix(s, t)
  <2>1. /\ d \in Seq(S) /\ t = s \o d /\ Len(d) \in Nat /\ Len(t) = Len(s) + Len(d)
        /\ \A i \in 1..Len(s) : t[i] = s[i]
    BY <1>1, <1>3, ConcatProperties, LenProperties DEF Texts, Cat
  <2> QED BY <1>1, <2>1 DEF IsPrefix
<1> QED BY <1>2, <1>3

\* A text ends with s when something put in front of s makes it.
LEMMA SuffixCat ==
  ASSUME NEW S, NEW s \in Texts(S), NEW t \in Texts(S)
  PROVE  IsSuffix(s, t) <=> \E d \in Texts(S) : t = Cat(d, s)
<1> DEFINE m == Len(s)
           n == Len(t)
           u == Reverse(s)
           v == Reverse(t)
<1>1. /\ s \in Seq(S) /\ t \in Seq(S) /\ m \in Nat /\ n \in Nat
      /\ \A i \in 1..m : s[i] \in S
      /\ \A i \in 1..n : t[i] \in S
  BY LenProperties, ElementOfSeq DEF Texts
<1>2. /\ u \in Seq(S) /\ Len(u) = m /\ \A i \in 1..m : u[i] = s[(m - i) + 1]
      /\ v \in Seq(S) /\ Len(v) = n /\ \A i \in 1..n : v[i] = t[(n - i) + 1]
  BY <1>1 DEF Reverse
<1> HIDE DEF u, v
<1>3. IsSuffix(s, t) <=> m <= n /\ \A i \in 1..m : u[i] = v[i]
  BY <1>1, <1>2 DEF IsSuffix, IsPrefix, u, v
<1>4. ASSUME IsSuffix(s, t) PROVE \E d \in Texts(S) : t = Cat(d, s)
  <2> DEFINE d == SubSeq(t, 1, n - m)
  <2>1. m <= n /\ \A i \in 1..m : s[i] = t[(n - m) + i]
    <3>1. ASSUME m <= n, NEW i \in 1..m PROVE s[i] = t[(n - m) + i]
      <4>1. (m - i) + 1 \in 1..m /\ (m - i) + 1 \in 1..n
        BY <1>1, <3>1
      <4>2. (m - ((m - i) + 1)) + 1 = i /\ (n - ((m - i) + 1)) + 1 = (n - m) + i
        BY <1>1, <3>1
      <4> DEFINE j == (m - i) + 1
      <4>3. u[j] = s[i] /\ v[j] = t[(n - m) + i]
        BY <1>2, <4>1, <4>2
      <4> HIDE DEF j
      <4>4. u[j] = v[j]
        BY <1>3, <1>4, <4>1 DEF j
      <4> QED BY <4>3, <4>4
    <3> QED BY <1>3, <1>4, <3>1
  <2>2. /\ d \in Seq(S) /\ Len(d) = n - m
        /\ \A i \in 1..(n - m) : d[i] = t[i]
    <3>1. n - m \in Nat /\ \A i \in 1..(n - m) : t[i] \in S
      BY <1>1, <2>1
    <3>2. /\ d \in Seq(S) /\ Len(d) = IF 1 <= n - m THEN (n - m) - 1 + 1 ELSE 0
          /\ \A i \in 1..((n - m) - 1 + 1) : d[i] = t[1 + i - 1]
      BY <3>1, SubSeqProperties
    <3> QED BY <3>1, <3>2
  <2> HIDE DEF d
  <2>3. /\ d \o s \in Seq(S) /\ Len(d \o s) = n
        /\ \A i \in 1..n : (d \o s)[i] = t[i]
    <3>1. /\ d \o s \in Seq(S) /\ Len(d \o s) = n
          /\ \A i \in 1..n : (d \o s)[i] = IF i <= n - m THEN d[i] ELSE s[i - (n - m)]
      BY <1>1, <2>1, <2>2, ConcatProperties
    <3>2. ASSUME NEW i \in 1..n, ~(i <= n - m) PROVE s[i - (n - m)] = t[i]
      <4>1. i - (n - m) \in 1..m /\ (n - m) + (i - (n - m)) = i
        BY <1>1, <2>1, <3>2
      <4> QED BY <2>1, <4>1
    <3>3. \A i \in 1..n : i <= n - m => d[i] = t[i]
      BY <1>1, <2>1, <2>2
    <3> QED BY <3>1, <3>2, <3>3
  <2>4. t = d \o s
    BY <1>1, <2>3, SeqEqual
  <2> QED BY <2>2, <2>4 DEF Texts, Cat
<1>5. ASSUME NEW d \in Texts(S), t = Cat(d, s) PROVE IsSuffix(s, t)
  <2>1. /\ d \in Seq(S) /\ t = d \o s /\ Len(d) \in Nat /\ n = Len(d) + m
        /\ \A i \in 1..m : t[Len(d) + i] = s[i]
    BY <1>1, <1>5, ConcatProperties, LenProperties DEF Texts, Cat
  <2>2. ASSUME NEW i \in 1..m PROVE u[i] = v[i]
    <3>1. (m - i) + 1 \in 1..m /\ (n - i) + 1 = Len(d) + ((m - i) + 1) /\ i \in 1..n
      BY <1>1, <2>1
    <3> QED BY <1>2, <2>1, <3>1
  <2> QED BY <1>1, <1>3, <2>1, <2>2
<1> QED BY <1>4, <1>5

\* A first part and the rest.
LEMMA FirstAndRest ==
  ASSUME NEW S
  PROVE  /\ \A s \in Texts(S) :
              s # <<>> => Tail(s) \in Texts(S) /\ s = Cat(<<s[1]>>, Tail(s))
         /\ \A x \in S, s \in Texts(S) :
              /\ Cat(<<x>>, s)[1] = x /\ Tail(Cat(<<x>>, s)) = s
              /\ Len(Cat(<<x>>, s)) = Len(s) + 1
<1>1. ASSUME NEW s \in Seq(S), s # <<>>
      PROVE  Tail(s) \in Seq(S) /\ s = <<s[1]>> \o Tail(s)
  BY <1>1
<1>2. ASSUME NEW x \in S, NEW s \in Seq(S)
      PROVE  /\ (<<x>> \o s)[1] = x /\ Tail(<<x>> \o s) = s
             /\ Len(<<x>> \o s) = Len(s) + 1
  OBVIOUS
<1> QED BY <1>1, <1>2 DEF Texts, Cat

\* From behind what a text begins with.
LEMMA FromCat ==
  ASSUME NEW S, NEW a \in Texts(S), NEW b \in Texts(S), NEW n, n = Len(a) + 1
  PROVE  From(Cat(a, b), n) = b
<1>1. /\ a \in Seq(S) /\ b \in Seq(S) /\ Len(a) \in Nat /\ Len(b) \in Nat
      /\ \A i \in 1..Len(b) : b[i] \in S
  BY LenProperties, ElementOfSeq DEF Texts
<1> DEFINE t == a \o b
           m == Len(a) + Len(b)
           r == SubSeq(t, n, m)
<1>2. /\ Len(t) = m /\ m \in Nat /\ n \in Nat
      /\ \A i \in 1..Len(b) : t[Len(a) + i] = b[i]
      /\ \A i \in n..m : t[i] \in S
  BY <1>1, ConcatProperties, ElementOfSeq
<1> HIDE DEF t, m
<1>3. /\ r \in Seq(S) /\ Len(r) = IF n <= m THEN m - n + 1 ELSE 0
      /\ \A i \in 1..(m - n + 1) : r[i] = t[n + i - 1]
  BY <1>2, SubSeqProperties
<1> HIDE DEF r
<1>4. Len(r) = Len(b) /\ m - n + 1 = Len(b)
  BY <1>1, <1>2, <1>3 DEF m
<1>5. ASSUME NEW i \in 1..Len(b) PROVE r[i] = b[i]
  <2>1. n + i - 1 = Len(a) + i
    BY <1>1
  <2> QED BY <1>2, <1>3, <1>4, <2>1
<1>6. r = b
  BY <1>1, <1>3, <1>4, <1>5, SeqEqual
<1> QED BY <1>2, <1>6 DEF From, Cat, t, m, r

-----------------------------------------------------------------------------
(* Hosts *)

\* A pattern and a host, both of them any text: _host_allowed decides by labels.
LEMMA LabelsDecide ==
  ASSUME NEW S, "." \in S, "*" \in S, NEW h \in Texts(S), NEW p \in Texts(S)
  PROVE  HostAllowed(h, p) <=>
           \/ Split(h, ".") = Split(p, ".")
           \/ /\ Len(Split(p, ".")) > 1 /\ Split(p, ".")[1] = <<"*">>
              /\ IsStrictSuffix(Tail(Split(p, ".")), Split(h, "."))
<1> DEFINE hs == Split(h, ".")
           ps == Split(p, ".")
           star == <<"*">>
           dot == <<".">>
           stardot == Add(star, ".")
           Below(d) == \E e \in Texts(S) : h = Cat(Add(e, "."), d)
           ByLabels == hs = ps \/ (Len(ps) > 1 /\ ps[1] = star /\ IsStrictSuffix(Tail(ps), hs))
<1>1. /\ star \in Texts(S) /\ dot \in Texts(S) /\ <<>> \in Texts(S)
      /\ dot = Add(<<>>, ".")
  BY AddFacts
<1>2. stardot \in Texts(S) /\ stardot = Cat(star, dot) /\ stardot = <<"*", ".">>
  <2>1. stardot = <<"*", ".">>
    <3> DEFINE pair == <<"*", ".">>
    <3>1. pair \in Seq(S) /\ Len(pair) = 2 /\ pair[1] = "*" /\ pair[2] = "."
      OBVIOUS
    <3>2. <<"*">> \in Seq(S) /\ Len(<<"*">>) = 1 /\ <<"*">>[1] = "*"
      OBVIOUS
    <3> HIDE DEF pair, star
    <3>3. /\ stardot \in Seq(S) /\ Len(stardot) = 2
          /\ stardot[1] = "*" /\ stardot[2] = "."
      BY <3>2, AppendProperties DEF Add, star
    <3>4. \A i \in 1..2 : pair[i] = stardot[i]
      BY <3>1, <3>3
    <3> HIDE DEF stardot
    <3>5. pair = stardot
      BY <3>1, <3>3, <3>4, SeqEqual
    <3> QED BY <3>5 DEF pair
  <2> HIDE DEF star, dot
  <2>2. Cat(star, Add(<<>>, ".")) = Add(Cat(star, <<>>), ".") /\ Cat(star, <<>>) = star
    BY <1>1, CatFacts
  <2> QED BY <1>1, <2>1, <2>2, AddFacts
<1>3. /\ hs \in Parts(S) /\ ps \in Parts(S)
      /\ hs \in Texts(Texts(S)) /\ ps \in Texts(Texts(S)) /\ hs # <<>> /\ ps # <<>>
  BY SplitFacts DEF Parts
<1>4. Split(star, ".") = <<star>> /\ <<star>> \in Texts(Texts(S))
  <2>1. star \in Texts({"*"}) /\ "." \notin {"*"}
    BY AddFacts
  <2>2. Split(star, ".") = <<star>>
    <3> HIDE DEF star
    <3> QED BY <2>1, SplitAbsent
  <2> QED BY <1>1, <2>2, AddFacts
<1>5. hs = ps => h = p
  BY JoinedSplit
<1>6. ASSUME NEW d \in Texts(S), p = Cat(stardot, d)
      PROVE  HostAllowed(h, p) <=> ByLabels
  <2> DEFINE ds == Split(d, ".")
  <2>1. /\ ds \in Texts(Texts(S)) /\ ds # <<>>
        /\ ps = Cat(<<star>>, ds)
    BY <1>1, <1>4, <1>6, SplitConcat, SplitFacts DEF Parts
  <2> HIDE DEF star, dot, stardot, hs, ps, ds
  <2>2. ps[1] = star /\ Tail(ps) = ds /\ Len(ps) > 1
    <3>1. ps[1] = star /\ Tail(ps) = ds /\ Len(ps) = Len(ds) + 1
      BY <1>1, <2>1, FirstAndRest
    <3>2. Len(ds) \in Nat /\ Len(ds) # 0
      BY <2>1, EmptySeq DEF Texts
    <3> QED BY <3>1, <3>2
  <2>3. From(p, 3) = d /\ From(p, 2) = Cat(dot, d)
    <3>1. Len(stardot) = 2 /\ Len(star) = 1
      BY <1>2 DEF star
    <3>2. Cat(stardot, d) = Cat(star, Cat(dot, d)) /\ Cat(dot, d) \in Texts(S)
      BY <1>1, <1>2, CatFacts
    <3>3. 3 = Len(stardot) + 1 /\ 2 = Len(star) + 1
      BY <3>1
    <3>4. From(Cat(stardot, d), 3) = d
      BY <1>2, <3>3, FromCat
    <3>5. From(Cat(star, Cat(dot, d)), 2) = Cat(dot, d)
      BY <1>1, <3>2, <3>3, FromCat
    <3> QED BY <1>6, <3>2, <3>4, <3>5
  <2>4. IsSuffix(From(p, 2), h) <=> Below(d)
    <3>1. Cat(dot, d) \in Texts(S)
      BY <1>1, CatFacts
    <3>2. ASSUME NEW e \in Texts(S) PROVE Cat(e, Cat(dot, d)) = Cat(Add(e, "."), d)
      <4>1. Cat(e, dot) = Add(e, ".")
        BY <1>1, CatFacts
      <4> QED BY <1>1, <4>1, CatFacts
    <3> QED BY <2>3, <3>1, <3>2, SuffixCat
  <2>5. Below(d) => h # d
    <3>1. ASSUME NEW e \in Texts(S), d = Cat(Add(e, "."), d) PROVE FALSE
      <4>1. Add(e, ".") \in Texts(S) /\ Add(e, ".") # <<>> /\ Cat(<<>>, d) = d
        BY AddFacts, CatFacts
      <4> QED BY <1>1, <3>1, <4>1, CatCancels
    <3> QED BY <3>1
  <2>6. StartsWith(p, <<"*", ".">>)
    BY <1>2, <1>6, PrefixCat DEF StartsWith
  <2>7. HostAllowed(h, p) <=> Below(d)
    BY <2>3, <2>4, <2>5, <2>6 DEF HostAllowed
  <2>8. Below(d) <=> hs = ps \/ IsStrictSuffix(ds, hs)
    <3>1. ASSUME NEW e \in Texts(S), h = Cat(Add(e, "."), d) PROVE IsStrictSuffix(ds, hs)
      <4> DEFINE es == Split(e, ".")
      <4>1. es \in Texts(Texts(S)) /\ es # <<>> /\ hs = Cat(es, ds)
        BY <3>1, SplitConcat, SplitFacts DEF Parts, hs, ds
      <4> HIDE DEF es
      <4>2. IsSuffix(ds, hs)
        BY <1>3, <2>1, <4>1, SuffixCat
      <4>3. ds # hs
        <5>1. Cat(<<>>, ds) = ds /\ <<>> \in Texts(Texts(S))
          BY <2>1, CatFacts, AddFacts
        <5> QED BY <2>1, <4>1, <5>1, CatCancels
      <4> QED BY <4>2, <4>3 DEF IsStrictSuffix
    <3>2. ASSUME hs = ps PROVE Below(d)
      BY <1>1, <1>5, <1>6, <3>2 DEF stardot
    <3>3. ASSUME IsStrictSuffix(ds, hs) PROVE Below(d)
      <4>1. PICK es \in Texts(Texts(S)) : hs = Cat(es, ds)
        BY <1>3, <2>1, <3>3, SuffixCat DEF IsStrictSuffix
      <4>2. es # <<>>
        BY <2>1, <3>3, <4>1, CatFacts DEF IsStrictSuffix
      <4> QED BY <4>1, <4>2, SplitSuffix DEF Parts, hs, ds
    <3> QED BY <3>1, <3>2, <3>3
  <2> QED BY <2>2, <2>7, <2>8
<1>7. ASSUME ~StartsWith(p, <<"*", ".">>) PROVE HostAllowed(h, p) <=> ByLabels
  <2>1. HostAllowed(h, p) <=> h = p
    BY <1>7 DEF HostAllowed
  <2>2. \A d \in Texts(S) : p # Cat(stardot, d)
    BY <1>2, <1>7, PrefixCat DEF StartsWith
  <2>3. ASSUME Len(ps) > 1, ps[1] = star PROVE FALSE
    <3> DEFINE qs == Tail(ps)
    <3>1. qs \in Texts(Texts(S)) /\ ps = Cat(Split(star, "."), qs)
      BY <1>3, <1>4, <2>3, FirstAndRest
    <3> HIDE DEF qs
    <3>2. p = star \/ \E d \in Texts(S) : p = Cat(stardot, d)
      <4> HIDE DEF star
      <4> QED BY <1>1, <3>1, SplitPrefix
    <3>3. p # star
      <4>1. p = star => Len(ps) = 1
        BY <1>4
      <4> HIDE DEF ps, star
      <4>2. ~(1 > 1)
        OBVIOUS
      <4> QED BY <2>3, <4>1, <4>2
    <3> QED BY <2>2, <3>2, <3>3
  <2> QED BY <1>5, <2>1, <2>3
<1>8. StartsWith(p, <<"*", ".">>) <=> \E d \in Texts(S) : p = Cat(stardot, d)
  BY <1>2, PrefixCat DEF StartsWith
<1> QED BY <1>6, <1>7, <1>8

-----------------------------------------------------------------------------
(* rstrip, strip and the first of some tokens *)

\* The texts that a model enumerates are texts.
LEMMA SeqOfTexts ==
  ASSUME NEW S, NEW n \in Nat
  PROVE  SeqOf(S, n) \subseteq Texts(S)
<1>1. \A m \in 0..n : [1..m -> S] \subseteq Seq(S)
  BY IsASeq
<1> QED BY <1>1 DEF SeqOf, Texts

\* Behind place k of s there is only c.
EndsAt(s, c, k) ==
  /\ k \in 0..Len(s)
  /\ k > 0 => s[k] # c
  /\ \A j \in 1..Len(s) : j > k => s[j] = c

\* RStrip cuts a text at that place.
LEMMA RStripAt ==
  ASSUME NEW S, NEW s \in Seq(S), NEW c, NEW k, EndsAt(s, c, k)
  PROVE  RStrip(s, c) = SubSeq(s, 1, k)
<1> DEFINE I == {i \in 1..Len(s) : s[i] # c}
<1>1. Len(s) \in Nat
  BY LenProperties
<1>2. CASE k = 0
  <2>1. I = {}
    BY <1>1, <1>2 DEF EndsAt
  <2> QED BY <1>2, <2>1 DEF RStrip, SelectLastInSeq
<1>3. CASE k > 0
  <2>1. k \in I /\ \A j \in I : k >= j
    BY <1>1, <1>3 DEF EndsAt
  <2>2. \A i \in I : (\A j \in I : i >= j) => i = k
    BY <1>1, <2>1
  <2> HIDE DEF I
  <2>3. Max(I) = k /\ I # {}
    BY <2>1, <2>2 DEF Max
  <2> QED BY <2>3 DEF RStrip, SelectLastInSeq, I
<1> QED BY <1>1, <1>2, <1>3 DEF EndsAt

\* Every text has such a place.
LEMMA EndsSomewhere ==
  ASSUME NEW S, NEW c
  PROVE  \A s \in Texts(S) : \E k : EndsAt(s, c, k)
<1> DEFINE P == {s \in Texts(S) : \E k : EndsAt(s, c, k)}
<1>1. <<>> \in P
  <2>1. EndsAt(<<>>, c, 0)
    BY DEF EndsAt
  <2> QED BY <2>1, AddFacts
<1>2. ASSUME NEW s \in Texts(S), NEW x \in S, s \in P PROVE Add(s, x) \in P
  <2> DEFINE t == Add(s, x)
  <2>1. /\ t \in Texts(S) /\ Len(s) \in Nat /\ Len(t) = Len(s) + 1 /\ t[Len(s) + 1] = x
        /\ \A i \in 1..Len(s) : t[i] = s[i]
    BY AddFacts, AppendProperties, LenProperties DEF Texts, Add
  <2> HIDE DEF t
  <2>2. PICK k : EndsAt(s, c, k)
    BY <1>2
  <2>3. CASE x = c
    <3>1. EndsAt(t, c, k)
      BY <2>1, <2>2, <2>3 DEF EndsAt
    <3> QED BY <2>1, <3>1 DEF t
  <2>4. CASE x # c
    <3>1. EndsAt(t, c, Len(s) + 1)
      BY <2>1, <2>4 DEF EndsAt
    <3> QED BY <2>1, <3>1 DEF t
  <2> QED BY <2>3, <2>4
<1> HIDE DEF P
<1>3. Texts(S) \subseteq P
  BY <1>1, <1>2, TextInduct
<1> QED BY <1>3 DEF P

\* RStrip drops c from the end.
LEMMA RStripFacts ==
  ASSUME NEW S, NEW c
  PROVE  /\ \A s \in Texts(S) : RStrip(s, c) \in Texts(S)
         /\ RStrip(<<>>, c) = <<>>
         /\ \A s \in Texts(S), x \in S : x = c => RStrip(Add(s, x), c) = RStrip(s, c)
         /\ \A s \in Texts(S), x \in S : x # c => RStrip(Add(s, x), c) = Add(s, x)
<1>1. ASSUME NEW s \in Texts(S) PROVE RStrip(s, c) \in Texts(S)
  <2>1. PICK k : EndsAt(s, c, k)
    BY EndsSomewhere
  <2>2. s \in Seq(S) /\ Len(s) \in Nat /\ k \in 0..Len(s) /\ \A i \in 1..Len(s) : s[i] \in S
    BY <2>1, LenProperties, ElementOfSeq DEF Texts, EndsAt
  <2>3. SubSeq(s, 1, k) \in Seq(S)
    BY <2>2, SubSeqProperties
  <2> QED BY <2>1, <2>2, <2>3, RStripAt DEF Texts
<1>2. RStrip(<<>>, c) = <<>>
  <2>1. EndsAt(<<>>, c, 0) /\ <<>> \in Seq(S) /\ SubSeq(<<>>, 1, 0) = <<>>
    BY EmptySeq DEF EndsAt
  <2> QED BY <2>1, RStripAt
<1>3. ASSUME NEW s \in Texts(S), NEW x \in S
      PROVE  RStrip(Add(s, x), c) = IF x = c THEN RStrip(s, c) ELSE Add(s, x)
  <2> DEFINE t == Add(s, x)
  <2>1. /\ t \in Seq(S) /\ s \in Seq(S)
        /\ Len(s) \in Nat /\ Len(t) = Len(s) + 1 /\ t[Len(s) + 1] = x
        /\ \A i \in 1..Len(s) : t[i] = s[i]
        /\ \A i \in 1..Len(s) : s[i] \in S
    BY AppendProperties, LenProperties, ElementOfSeq DEF Texts, Add
  <2> HIDE DEF t
  <2>2. PICK k : EndsAt(s, c, k)
    BY EndsSomewhere
  <2>3. k \in 0..Len(s)
    BY <2>2 DEF EndsAt
  <2>4. CASE x = c
    <3>1. EndsAt(t, c, k)
      BY <2>1, <2>2, <2>4 DEF EndsAt
    <3> DEFINE u == SubSeq(t, 1, k)
               v == SubSeq(s, 1, k)
    <3>2. /\ u \in Seq(S) /\ Len(u) = k /\ \A i \in 1..k : u[i] = t[i]
          /\ v \in Seq(S) /\ Len(v) = k /\ \A i \in 1..k : v[i] = s[i]
      <4>1. \A i \in 1..k : t[i] \in S /\ s[i] \in S
        BY <2>1, <2>3
      <4>2. u \in Seq(S) /\ Len(u) = k /\ \A i \in 1..k : u[i] = t[i]
        BY <2>1, <2>3, <4>1, SubSeqProperties
      <4>3. v \in Seq(S) /\ Len(v) = k /\ \A i \in 1..k : v[i] = s[i]
        BY <2>1, <2>3, <4>1, SubSeqProperties
      <4> QED BY <4>2, <4>3
    <3> HIDE DEF u, v
    <3>3. \A i \in 1..k : u[i] = v[i]
      BY <2>1, <2>3, <3>2
    <3>4. u = v
      BY <3>2, <3>3, SeqEqual
    <3>5. RStrip(t, c) = u /\ RStrip(s, c) = v
      BY <2>1, <2>2, <3>1, RStripAt DEF u, v
    <3> QED BY <2>4, <3>4, <3>5 DEF t
  <2>5. CASE x # c
    <3>1. EndsAt(t, c, Len(t))
      BY <2>1, <2>5 DEF EndsAt
    <3>2. SubSeq(t, 1, Len(t)) = t
      BY <2>1, SubSeqFull
    <3> QED BY <2>1, <2>5, <3>1, <3>2, RStripAt DEF t
  <2> QED BY <2>4, <2>5
<1> QED BY <1>1, <1>2, <1>3

\* Nothing is stripped from a text without c.
LEMMA StripAbsent ==
  ASSUME NEW S, NEW c, c \notin S
  PROVE  \A s \in Texts(S) : RStrip(s, c) = s /\ Strip(s, c) = s
<1>1. ASSUME NEW s \in Texts(S) PROVE RStrip(s, c) = s
  <2>1. CASE s = <<>>
    BY <2>1, RStripFacts
  <2>2. CASE s # <<>>
    <3>1. PICK r \in Texts(S), x \in S : s = Add(r, x)
      BY <2>2, LastAdded
    <3>2. x # c
      OBVIOUS
    <3> QED BY <3>1, <3>2, RStripFacts
  <2> QED BY <2>1, <2>2
<1>2. ASSUME NEW s \in Texts(S) PROVE Strip(s, c) = s
  <2> DEFINE I == {i \in 1..Len(s) : s[i] # c}
  <2>1. s \in Seq(S) /\ Len(s) \in Nat /\ \A i \in 1..Len(s) : s[i] # c
    BY LenProperties, ElementOfSeq DEF Texts
  <2>2. CASE s = <<>>
    <3>1. I = {}
      BY <2>2
    <3> QED BY <2>2, <3>1 DEF Strip, SelectInSeq
  <2>3. CASE s # <<>>
    <3>1. 1 \in I /\ \A j \in I : 1 <= j
      BY <2>1, <2>3, EmptySeq
    <3>2. \A i \in I : (\A j \in I : i <= j) => i = 1
      BY <2>1, <3>1
    <3> HIDE DEF I
    <3>3. Min(I) = 1 /\ I # {}
      BY <3>1, <3>2 DEF Min
    <3>4. Strip(s, c) = From(RStrip(s, c), 1)
      BY <3>3 DEF Strip, SelectInSeq, I
    <3>5. From(s, 1) = s
      BY <2>1, SubSeqFull DEF From
    <3> QED BY <1>1, <3>4, <3>5
  <2> QED BY <2>2, <2>3
<1> QED BY <1>1, <1>2

\* What Strip leaves of a text is a text.
LEMMA StripType ==
  ASSUME NEW S, NEW c, NEW s \in Texts(S)
  PROVE  Strip(s, c) \in Texts(S)
<1> DEFINE I == {i \in 1..Len(s) : s[i] # c}
           r == RStrip(s, c)
<1>1. r \in Seq(S) /\ Len(r) \in Nat /\ \A i \in 1..Len(r) : r[i] \in S
  BY RStripFacts, LenProperties, ElementOfSeq DEF Texts
<1>2. Len(s) \in Nat
  BY LenProperties DEF Texts
<1>3. CASE I = {}
  BY <1>3, AddFacts DEF Strip, SelectInSeq
<1>4. CASE I # {}
  <2>1. I \subseteq Nat
    BY <1>2
  <2> HIDE DEF I
  <2>2. \E i \in I : \A j \in I : i <= j
    BY <1>4, <2>1, LeastNat
  <2>3. Min(I) \in I
    BY <2>2 DEF Min
  <2>4. Min(I) \in Nat /\ Min(I) # 0 /\ Min(I) >= 1
    BY <1>2, <2>3 DEF I
  <2>5. Strip(s, c) = SubSeq(r, Min(I), Len(r))
    BY <1>4, <2>4 DEF Strip, SelectInSeq, From, I
  <2> HIDE DEF r
  <2> DEFINE i == Min(I)
  <2> HIDE DEF i
  <2>6. i \in Int /\ Len(r) \in Int /\ \A j \in i..Len(r) : r[j] \in S
    BY <1>1, <2>4 DEF i
  <2>7. SubSeq(r, i, Len(r)) \in Seq(S)
    BY <2>6, SubSeqProperties
  <2> QED BY <2>5, <2>7 DEF Texts, i
<1> QED BY <1>3, <1>4

\* A text has no x of stops in it, or there is a first one.
LEMMA FirstStop ==
  ASSUME NEW S, NEW stops
  PROVE  \A s \in Texts(S) :
           \/ s \in Texts(S \ stops)
           \/ \E a \in Texts(S \ stops), x \in S, b \in Texts(S) :
                x \in stops /\ s = Cat(Add(a, x), b)
<1> DEFINE T == S \ stops
           Stops(s) == \E a \in Texts(T), x \in S, b \in Texts(S) :
                         x \in stops /\ s = Cat(Add(a, x), b)
           P == {s \in Texts(S) : s \in Texts(T) \/ Stops(s)}
<1>1. <<>> \in P
  BY AddFacts
<1>2. \A s \in Texts(T) : s \in Texts(S)
  BY SeqMonotonic DEF Texts
<1>3. ASSUME NEW s \in Texts(S), NEW x \in S, s \in P PROVE Add(s, x) \in P
  <2>1. CASE s \in Texts(T) /\ x \notin stops
    BY <2>1, AddFacts
  <2>2. CASE s \in Texts(T) /\ x \in stops
    <3>1. Add(s, x) \in Texts(S) /\ <<>> \in Texts(S)
      BY AddFacts
    <3>2. Add(s, x) = Cat(Add(s, x), <<>>)
      BY <3>1, CatFacts
    <3> QED BY <2>2, <3>1, <3>2
  <2>3. CASE Stops(s)
    <3>1. PICK a \in Texts(T), y \in S, b \in Texts(S) : y \in stops /\ s = Cat(Add(a, y), b)
      BY <2>3
    <3>2. Add(a, y) \in Texts(S) /\ Add(b, x) \in Texts(S) /\ Add(s, x) \in Texts(S)
      BY <1>2, AddFacts
    <3>3. Add(s, x) = Cat(Add(a, y), Add(b, x))
      BY <3>1, <3>2, CatFacts
    <3> QED BY <3>1, <3>2, <3>3
  <2> QED BY <1>3, <2>1, <2>2, <2>3
<1> HIDE DEF P
<1>4. Texts(S) \subseteq P
  BY <1>1, <1>3, TextInduct
<1> QED BY <1>4 DEF P

\* Until takes what is in front of the first stop.
LEMMA UntilFacts ==
  ASSUME NEW S, NEW stops
  PROVE  /\ \A s \in Texts(S \ stops) : Until(s, stops) = s
         /\ \A a \in Texts(S \ stops), x \in S, b \in Texts(S) :
              x \in stops => Until(Cat(Add(a, x), b), stops) = a
<1>1. ASSUME NEW s \in Texts(S \ stops) PROVE Until(s, stops) = s
  <2>1. \A i \in 1..Len(s) : s[i] \notin stops
    BY ElementOfSeq DEF Texts
  <2>2. {i \in 1..Len(s) : s[i] \in stops} = {}
    BY <2>1
  <2> QED BY <2>2 DEF Until, SelectInSeq
<1>2. ASSUME NEW a \in Texts(S \ stops), NEW x \in S, NEW b \in Texts(S), x \in stops
      PROVE  Until(Cat(Add(a, x), b), stops) = a
  <2> DEFINE s == Cat(Add(a, x), b)
             I == {i \in 1..Len(s) : s[i] \in stops}
             k == Len(a) + 1
  <2>1. /\ a \in Seq(S) /\ Len(a) \in Nat
        /\ \A i \in 1..Len(a) : a[i] \in S /\ a[i] \notin stops
    BY LenProperties, ElementOfSeq, SeqMonotonic DEF Texts
  <2>2. a \in Texts(S) /\ Add(a, x) \in Texts(S)
    BY <2>1, AddFacts DEF Texts
  <2>3. /\ Add(a, x) \in Seq(S) /\ Len(Add(a, x)) = k /\ Add(a, x)[k] = x
        /\ \A i \in 1..Len(a) : Add(a, x)[i] = a[i]
    BY <2>1, AppendProperties DEF Add
  <2> DEFINE ax == Add(a, x)
  <2> HIDE DEF ax
  <2>4. /\ Len(s) \in Nat /\ Len(s) >= k /\ \A i \in 1..k : s[i] = ax[i]
    <3>1. b \in Seq(S) /\ Len(b) \in Nat
      BY LenProperties DEF Texts
    <3>2. ax \in Seq(S) /\ Len(ax) = k
      BY <2>3 DEF ax
    <3> HIDE DEF k
    <3>3. Len(ax \o b) = k + Len(b) /\ \A i \in 1..k : (ax \o b)[i] = ax[i]
      <4>1. k \in Nat
        BY <2>1 DEF k
      <4>2. /\ Len(ax \o b) = Len(ax) + Len(b)
            /\ \A i \in 1..(Len(ax) + Len(b)) :
                 (ax \o b)[i] = IF i <= Len(ax) THEN ax[i] ELSE b[i - Len(ax)]
        BY <3>1, <3>2, ConcatProperties
      <4> QED BY <3>1, <3>2, <4>1, <4>2
    <3> QED BY <2>1, <3>1, <3>3 DEF Cat, ax, k
  <2> HIDE DEF s
  <2>5. s[k] = x /\ \A i \in 1..Len(a) : s[i] = a[i]
    BY <2>1, <2>3, <2>4 DEF ax
  <2>6. k \in I /\ \A j \in I : k <= j
    BY <1>2, <2>1, <2>4, <2>5
  <2>7. \A i \in I : (\A j \in I : i <= j) => i = k
    BY <2>1, <2>4, <2>6
  <2>8. k # 0 /\ k - 1 = Len(a)
    BY <2>1
  <2> HIDE DEF I, k
  <2>9. Min(I) = k /\ I # {}
    BY <2>6, <2>7 DEF Min
  <2>10. Until(s, stops) = SubSeq(s, 1, k - 1)
    BY <2>8, <2>9 DEF Until, SelectInSeq, I
  <2> DEFINE u == SubSeq(s, 1, Len(a))
  <2>11. u \in Seq(S) /\ Len(u) = Len(a) /\ \A i \in 1..Len(a) : u[i] = s[i]
    <3>1. \A i \in 1..Len(a) : s[i] \in S
      BY <2>1, <2>5
    <3> QED BY <2>1, <3>1, SubSeqProperties
  <2> HIDE DEF u
  <2>12. u = a
    BY <2>1, <2>5, <2>11, SeqEqual
  <2> QED BY <2>8, <2>10, <2>12 DEF s, u
<1> QED BY <1>1, <1>2

\* What Until leaves of a text is a text without stops.
LEMMA UntilType ==
  ASSUME NEW S, NEW stops, NEW s \in Texts(S)
  PROVE  Until(s, stops) \in Texts(S) /\ Until(s, stops) \in Texts(S \ stops)
<1>1. \A a \in Texts(S \ stops) : a \in Texts(S)
  BY SeqMonotonic DEF Texts
<1>2. CASE s \in Texts(S \ stops)
  BY <1>1, <1>2, UntilFacts
<1>3. ASSUME NEW a \in Texts(S \ stops), NEW x \in S, NEW b \in Texts(S),
             x \in stops, s = Cat(Add(a, x), b)
      PROVE  Until(s, stops) = a
  BY <1>3, UntilFacts
<1>4. \/ s \in Texts(S \ stops)
      \/ \E a \in Texts(S \ stops), x \in S, b \in Texts(S) :
           x \in stops /\ s = Cat(Add(a, x), b)
  BY FirstStop
<1>5. Until(s, stops) \in Texts(S \ stops)
  BY <1>2, <1>3, <1>4, UntilFacts
<1> QED BY <1>1, <1>5

\* What From leaves of a text is a text.
LEMMA FromType ==
  ASSUME NEW S, NEW s \in Texts(S), NEW n \in Nat, n > 0
  PROVE  From(s, n) \in Texts(S)
<1>1. Len(s) \in Nat /\ \A i \in 1..Len(s) : s[i] \in S
  BY LenProperties, ElementOfSeq DEF Texts
<1>2. \A i \in n..Len(s) : s[i] \in S
  BY <1>1
<1> QED BY <1>1, <1>2, SubSeqProperties DEF From, Texts

\* UrlSplit cuts texts out of a text.
LEMMA UrlSplitType ==
  ASSUME NEW S, NEW t \in Texts(S)
  PROVE  UrlSplit(t).path \in Texts(S) /\ UrlSplit(t).netloc \in Texts(S)
<1> DEFINE u      == Without(t, Raw("\t"))
           hier   == StartsWith(u, <<Slash, Slash>>)
           netloc == IF hier THEN Until(From(u, 3), {Slash, Raw("?")}) ELSE <<>>
           rest   == IF hier THEN From(u, Len(netloc) + 3) ELSE u
           path   == Until(rest, {Raw("?")})
<1>1. u \in Texts(S)
  <2>1. u \in Texts(S \ {Raw("\t")})
    BY WithoutFacts
  <2> HIDE DEF u
  <2> QED BY <2>1, SeqMonotonic DEF Texts
<1> HIDE DEF u
<1>2. netloc \in Texts(S)
  <2>1. From(u, 3) \in Texts(S)
    BY <1>1, FromType
  <2> QED BY <2>1, UntilType, AddFacts
<1>3. Len(netloc) + 3 \in Nat /\ Len(netloc) + 3 > 0
  <2> HIDE DEF netloc
  <2>1. Len(netloc) \in Nat
    BY <1>2, LenProperties DEF Texts
  <2> QED BY <2>1
<1>4. rest \in Texts(S)
  <2> HIDE DEF netloc
  <2> QED BY <1>1, <1>3, FromType
<1>5. path \in Texts(S)
  <2> HIDE DEF rest
  <2> QED BY <1>4, UntilType
<1> QED BY <1>2, <1>5 DEF UrlSplit, u

-----------------------------------------------------------------------------
(* The invariant *)

PathTexts == Texts(PathToken \cup {Slash})
HostTexts == Texts(PatternChar \cup HostChar \cup {".", "*"})

\* A prefix is what Put takes, and what was sent is what Validated makes of what
\* was asked for.
PathInv ==
  /\ prefix # None =>
       prefix \in PathTexts /\ Absolute(prefix) /\ ~HasParent(Unquote(prefix))
  /\ \/ asked = None /\ sent = None
     \/ prefix # None /\ asked \in Texts(PathToken) /\ sent = Validated(asked)

\* A selector was read from a reference with a field, and shown as Show writes it.
Written(s) ==
  <<Slash, Slash>> \o Quote(s.vault) \o <<Slash>> \o Quote(s.item) \o <<Slash>> \o Quote(s.field)
Read(s) == s # None /\ s.field # <<>> /\ \E t \in Texts(RefToken) : s = Parse(t)
RefInv ==
  /\ selector # None => Read(selector)
  /\ shown # None => selector # None /\ shown = Written(selector)

\* Pattern and host are texts, and the answer is that of _host_allowed.
HostInv ==
  /\ ceiling # None => ceiling \in HostTexts
  /\ host # None => /\ ceiling # None /\ host \in HostTexts
                    /\ allowed = HostAllowed(host, ceiling)

TextInv == PathInv /\ RefInv /\ HostInv

-----------------------------------------------------------------------------
(* Hosts *)

\* A host that NormalizeHost lets through is a text of the same characters.
LEMMA NormalizeHostType ==
  ASSUME NEW S, NEW t \in Texts(S), NormalizeHost(t) # None
  PROVE  NormalizeHost(t) \in Texts(S)
<1> DEFINE raw == RStrip(t, ".")
           name == Until(raw, {":"})
<1>1. raw \in Texts(S)
  BY RStripFacts
<1>2. name \in Texts(S)
  <2> HIDE DEF raw
  <2> QED BY <1>1, UntilType
<1>3. RStrip(name, ".") \in Texts(S)
  <2> HIDE DEF name
  <2> QED BY <1>2, RStripFacts
<1>4. NormalizeHost(t) # None => NormalizeHost(t) = RStrip(name, ".")
  BY DEF NormalizeHost
<1> QED BY <1>3, <1>4

\* NormalizeHost makes texts of texts.
LEMMA NormalizeHostTexts ==
  /\ \A t \in SeqOf(PatternChar, MaxPattern) :
       NormalizeHost(t) # None => NormalizeHost(t) \in HostTexts
  /\ \A t \in SeqOf(HostChar, MaxHost) :
       NormalizeHost(t) # None => NormalizeHost(t) \in HostTexts
<1> DEFINE H == PatternChar \cup HostChar \cup {".", "*"}
<1>1. \A t \in SeqOf(PatternChar, MaxPattern) : t \in Texts(H)
  <2>1. SeqOf(PatternChar, MaxPattern) \subseteq Texts(PatternChar)
    BY SeqOfTexts, HostAssumption
  <2>2. Texts(PatternChar) \subseteq Texts(H)
    BY SeqMonotonic DEF Texts
  <2> QED BY <2>1, <2>2
<1>2. \A t \in SeqOf(HostChar, MaxHost) : t \in Texts(H)
  <2>1. SeqOf(HostChar, MaxHost) \subseteq Texts(HostChar)
    BY SeqOfTexts, HostAssumption
  <2>2. Texts(HostChar) \subseteq Texts(H)
    BY SeqMonotonic DEF Texts
  <2> QED BY <2>1, <2>2
<1> HIDE DEF H
<1>3. \A t \in Texts(H) : NormalizeHost(t) # None => NormalizeHost(t) \in Texts(H)
  BY NormalizeHostType
<1>4. Texts(H) = HostTexts
  BY DEF H, HostTexts
<1> QED BY <1>1, <1>2, <1>3, <1>4

\* create_agent and a request leave HostInv as it is.
LEMMA HostStep ==
  ASSUME HostInv, HostNext \/ UNCHANGED hostVars
  PROVE  HostInv'
<1>1. CASE CreateAgent
  BY <1>1, NormalizeHostTexts DEF CreateAgent, HostInv
<1>2. CASE Request
  <2>1. PICK t \in SeqOf(HostChar, MaxHost) :
          /\ NormalizeHost(t) # None /\ host' = NormalizeHost(t)
          /\ allowed' = HostAllowed(NormalizeHost(t), ceiling)
    BY <1>2 DEF Request
  <2>2. ceiling # None /\ ceiling' = ceiling
    BY <1>2 DEF Request
  <2> QED BY <2>1, <2>2, NormalizeHostTexts DEF HostInv
<1>3. CASE UNCHANGED hostVars
  BY <1>3 DEF hostVars, HostInv
<1> QED BY <1>1, <1>2, <1>3 DEF HostNext

\* The ceiling decides by labels wherever HostInv holds.
LEMMA HostRule == HostInv => CeilingByLabels
<1> SUFFICES ASSUME HostInv, host # None PROVE CeilingByLabels
  BY DEF CeilingByLabels
<1> DEFINE H == PatternChar \cup HostChar \cup {".", "*"}
<1>1. "." \in H /\ "*" \in H /\ host \in Texts(H) /\ ceiling \in Texts(H)
  BY DEF HostInv, HostTexts
<1> HIDE DEF H
<1>2. HostAllowed(host, ceiling) <=>
        \/ Split(host, ".") = Split(ceiling, ".")
        \/ /\ Len(Split(ceiling, ".")) > 1 /\ Split(ceiling, ".")[1] = <<"*">>
           /\ IsStrictSuffix(Tail(Split(ceiling, ".")), Split(host, "."))
  BY <1>1, LabelsDecide
<1>3. allowed = HostAllowed(host, ceiling)
  BY DEF HostInv
<1> QED BY <1>2, <1>3 DEF CeilingByLabels

-----------------------------------------------------------------------------
(* Steps of references and paths *)

\* A request for access and a look at it leave RefInv as it is.
LEMMA RefStep ==
  ASSUME RefInv, RefNext \/ UNCHANGED refVars
  PROVE  RefInv'
<1>1. CASE RequestAccess
  <2>1. PICK t \in SeqOf(RefToken, MaxRef) :
          Parse(t) # None /\ Parse(t).field # <<>> /\ selector' = Parse(t)
    BY <1>1 DEF RequestAccess
  <2>2. t \in Texts(RefToken)
    BY SeqOfTexts, RefAssumption
  <2>3. Read(selector')
    BY <2>1, <2>2 DEF Read
  <2> QED BY <1>1, <2>3 DEF RequestAccess, RefInv, Read
<1>2. CASE Show
  BY <1>2 DEF Show, RefInv, Read, Written
<1>3. CASE UNCHANGED refVars
  BY <1>3 DEF refVars, RefInv, Read, Written
<1> QED BY <1>1, <1>2, <1>3 DEF RefNext

\* put_capability and a path that is asked for leave PathInv as it is.
LEMMA PathStep ==
  ASSUME PathInv, PathNext \/ UNCHANGED pathVars
  PROVE  PathInv'
<1>1. CASE Put
  <2> DEFINE p(raw) == IF raw = <<>> THEN <<Slash>> ELSE Strip(raw, Raw("\t"))
  <2>1. PICK raw \in SeqOf(PathToken, MaxPrefix) :
          Absolute(p(raw)) /\ ~HasParent(Unquote(p(raw))) /\ prefix' = p(raw)
    BY <1>1 DEF Put
  <2>2. raw \in Texts(PathToken)
    BY SeqOfTexts, PathAssumption
  <2>3. p(raw) \in PathTexts
    <3>1. Strip(raw, Raw("\t")) \in Texts(PathToken)
      BY <2>2, StripType
    <3>2. Texts(PathToken) \subseteq PathTexts
      BY SeqMonotonic DEF Texts, PathTexts
    <3>3. <<Slash>> \in PathTexts
      BY AddFacts DEF PathTexts
    <3> QED BY <3>1, <3>2, <3>3
  <2> HIDE DEF p
  <2> QED BY <1>1, <2>1, <2>3 DEF Put, PathInv
<1>2. CASE Ask
  <2>1. PICK raw \in SeqOf(PathToken, MaxPath) : asked' = raw /\ sent' = Validated(raw)
    BY <1>2 DEF Ask
  <2>2. raw \in Texts(PathToken)
    BY SeqOfTexts, PathAssumption
  <2>3. prefix # None /\ prefix' = prefix
    BY <1>2 DEF Ask
  <2>4. Validated(asked)' = Validated(raw)
    BY <2>1, <2>3 DEF Validated
  <2>5. sent' = Validated(asked)' /\ asked' \in Texts(PathToken)
    BY <2>1, <2>2, <2>4
  <2>6. prefix' \in PathTexts /\ Absolute(prefix') /\ ~HasParent(Unquote(prefix'))
    BY <2>3 DEF PathInv
  <2> QED BY <2>3, <2>5, <2>6 DEF PathInv
<1>3. CASE UNCHANGED pathVars
  <2>1. Validated(asked)' = Validated(asked)
    BY <1>3 DEF pathVars, Validated
  <2> QED BY <1>3, <2>1 DEF pathVars, PathInv
<1> QED BY <1>1, <1>2, <1>3 DEF PathNext

\* TextInv holds in every state, for every set of tokens and every length.
THEOREM TextInvariance == Spec => []TextInv
<1>1. Init => TextInv
  BY DEF Init, PathInit, RefInit, HostInit, TextInv, PathInv, RefInv, HostInv
<1>2. TextInv /\ [Next]_vars => TextInv'
  <2> SUFFICES ASSUME TextInv, [Next]_vars PROVE TextInv'
    OBVIOUS
  <2>1. /\ PathNext \/ UNCHANGED pathVars
        /\ RefNext \/ UNCHANGED refVars
        /\ HostNext \/ UNCHANGED hostVars
    BY DEF Next, vars
  <2>2. PathInv'
    BY <2>1, PathStep DEF TextInv
  <2>3. RefInv'
    BY <2>1, RefStep DEF TextInv
  <2>4. HostInv'
    BY <2>1, HostStep DEF TextInv
  <2> QED BY <2>2, <2>3, <2>4 DEF TextInv
<1> QED BY <1>1, <1>2, PTL DEF Spec

\* A host ceiling decides by whole labels, for every pattern and every host.
THEOREM CeilingAlwaysByLabels == Spec => []CeilingByLabels
<1>1. TextInv => CeilingByLabels
  BY HostRule DEF TextInv
<1> QED BY <1>1, TextInvariance, PTL

-----------------------------------------------------------------------------
(* Paths *)

\* A text is a text of the tokens that are in it.
LEMMA TextOver ==
  ASSUME NEW S, NEW T, NEW s \in Texts(T), \A i \in 1..Len(s) : s[i] \in S
  PROVE  s \in Texts(S)
<1>1. s \in [1..Len(s) -> T] /\ Len(s) \in Nat
  BY LenProperties DEF Texts
<1>2. s \in [1..Len(s) -> S]
  BY <1>1
<1> QED BY <1>1, <1>2, SeqDef DEF Texts

\* Every token of a text is one of its set.
LEMMA ToSetText ==
  ASSUME NEW T, NEW s \in Texts(T)
  PROVE  \A i \in 1..Len(s) : s[i] \in ToSet(s) /\ s[i] \in T
BY LenProperties, ElementOfSeq DEF Texts, ToSet

\* A text in front of another one: the second one begins as the first one does.
LEMMA StartsOn ==
  ASSUME NEW S, NEW a \in Texts(S), NEW b \in Texts(S), NEW s \in Texts(S),
         StartsWith(a, s)
  PROVE  StartsWith(Cat(a, b), s)
<1>1. PICK d \in Texts(S) : a = Cat(s, d)
  BY PrefixCat DEF StartsWith
<1>2. Cat(a, b) = Cat(s, Cat(d, b)) /\ Cat(d, b) \in Texts(S) /\ Cat(a, b) \in Texts(S)
  BY <1>1, CatFacts
<1> QED BY <1>2, PrefixCat DEF StartsWith

\* What UrlSplit makes of a text without tabs that does not begin with "//".
LEMMA UrlSplitPlain ==
  ASSUME NEW S, Raw("\t") \notin S, NEW t \in Texts(S), ~StartsWith(t, <<Slash, Slash>>)
  PROVE  /\ UrlSplit(t).netloc = <<>> /\ UrlSplit(t).path = Until(t, {Raw("?")})
         /\ UrlSplit(t).query = From(t, Len(Until(t, {Raw("?")})) + 2)
<1>1. Without(t, Raw("\t")) = t
  BY WithoutAbsent
<1> QED BY <1>1 DEF UrlSplit

\* Nothing comes behind the end of a text.
LEMMA FromBehind ==
  ASSUME NEW S, NEW s \in Texts(S)
  PROVE  From(s, Len(s) + 2) = <<>>
<1>1. Len(s) \in Nat
  BY LenProperties DEF Texts
<1> QED BY <1>1, SubSeqEmpty DEF From

\* What a text starts with is in front of its first "?", and so is a "/" at its
\* beginning, with no other "/" behind it.
LEMMA AbsoluteUntil ==
  ASSUME NEW S, Slash \in S, NEW t \in Texts(S), Absolute(t)
  PROVE  Absolute(Until(t, {Raw("?")}))
<1> DEFINE q == Raw("?")
           p == Until(t, {q})
           double == <<Slash, Slash>>
           single == <<Slash>>
<1>1. Slash # q
  BY DEF Slash, Raw
<1>2. double \in Texts(S) /\ single \in Texts(S) /\ single = Add(<<>>, Slash)
  BY AddFacts DEF Texts
<1>3. StartsWith(t, single) /\ ~StartsWith(t, double)
  BY DEF Absolute
<1>4. p \in Texts(S)
  BY UntilType
<1> HIDE DEF double, single, q
<1>5. p = t \/ \E x \in S, b \in Texts(S) : x = q /\ t = Cat(Add(p, x), b)
  <2>1. CASE t \in Texts(S \ {q})
    BY <2>1, UntilFacts
  <2>2. ASSUME NEW a \in Texts(S \ {q}), NEW x \in S, NEW b \in Texts(S),
               x \in {q}, t = Cat(Add(a, x), b)
        PROVE  p = a
    BY <2>2, UntilFacts
  <2>3. \/ t \in Texts(S \ {q})
        \/ \E a \in Texts(S \ {q}), x \in S, b \in Texts(S) : x \in {q} /\ t = Cat(Add(a, x), b)
    BY FirstStop
  <2> HIDE DEF p
  <2> QED BY <2>1, <2>2, <2>3
<1> HIDE DEF p
<1>6. ASSUME NEW x \in S, NEW b \in Texts(S), x = q, t = Cat(Add(p, x), b)
      PROVE  StartsWith(p, single) /\ ~StartsWith(p, double)
  <2> DEFINE xb == Cat(<<x>>, b)
  <2>1. xb \in Texts(S) /\ t = Cat(p, xb)
    <3>1. <<x>> \in Texts(S) /\ <<x>> = Add(<<>>, x) /\ <<>> \in Texts(S)
      BY AddFacts
    <3>2. Cat(p, <<x>>) = Add(p, x)
      <4>1. Cat(p, Add(<<>>, x)) = Add(Cat(p, <<>>), x) /\ Cat(p, <<>>) = p
        BY <1>4, <3>1, CatFacts
      <4> QED BY <3>1, <4>1
    <3> QED BY <1>4, <1>6, <3>1, <3>2, CatFacts
  <2>2. ~StartsWith(p, double)
    <3> HIDE DEF xb
    <3> QED BY <1>2, <1>3, <1>4, <2>1, StartsOn
  <2>3. StartsWith(p, single)
    <3>1. CASE p = <<>>
      <4>1. t = xb
        BY <2>1, <3>1, CatFacts
      <4>2. t[1] = x
        <5> HIDE DEF xb
        <5> QED BY <4>1, FirstAndRest DEF xb
      <4>3. PICK d \in Texts(S) : t = Cat(single, d)
        BY <1>2, <1>3, PrefixCat DEF StartsWith
      <4>4. t[1] = Slash
        BY <4>3, FirstAndRest DEF single
      <4> QED BY <1>1, <1>6, <4>2, <4>4
    <3>2. CASE p # <<>>
      <4>1. PICK d \in Texts(S) : t = Cat(single, d)
        BY <1>2, <1>3, PrefixCat DEF StartsWith
      <4>2. t[1] = Slash
        BY <4>1, FirstAndRest DEF single
      <4>3. Tail(p) \in Texts(S) /\ p = Cat(<<p[1]>>, Tail(p)) /\ p[1] \in S
        BY <1>4, <3>2, FirstAndRest, ElementOfSeq, EmptySeq DEF Texts
      <4>4. <<p[1]>> \in Texts(S)
        BY <4>3, AddFacts
      <4> DEFINE r == Cat(Tail(p), xb)
                 first == <<p[1]>>
      <4>5. r \in Texts(S) /\ t = Cat(first, r)
        <5> DEFINE rest == Tail(p)
        <5>1. rest \in Texts(S) /\ first \in Texts(S) /\ p = Cat(first, rest)
          BY <4>3, <4>4
        <5> HIDE DEF first, rest, xb
        <5>2. Cat(rest, xb) \in Texts(S)
          BY <2>1, <5>1, CatFacts
        <5>3. Cat(Cat(first, rest), xb) = Cat(first, Cat(rest, xb))
          BY <2>1, <5>1, CatFacts
        <5> QED BY <2>1, <5>1, <5>2, <5>3 DEF rest
      <4>6. t[1] = p[1]
        <5> HIDE DEF r
        <5> QED BY <4>3, <4>5, FirstAndRest DEF first
      <4>7. p = Cat(single, Tail(p))
        BY <4>2, <4>3, <4>6 DEF single
      <4> QED BY <1>2, <1>4, <4>3, <4>7, PrefixCat DEF StartsWith
    <3> QED BY <3>1, <3>2
  <2> QED BY <2>2, <2>3
<1> QED BY <1>3, <1>5, <1>6 DEF Absolute, double, single, p, q

\* Unquote gives the characters of the tokens.
LEMMA UnquoteType ==
  ASSUME NEW S, NEW t \in Texts(S)
  PROVE  Unquote(t) \in Texts({x.ch : x \in S})
<1> DEFINE C == {x.ch : x \in S}
<1>1. Len(t) \in Nat /\ DOMAIN t = 1..Len(t) /\ \A i \in 1..Len(t) : t[i] \in S
  BY LenProperties, ElementOfSeq DEF Texts
<1>2. Unquote(t) \in [1..Len(t) -> C]
  BY <1>1 DEF Unquote
<1> QED BY <1>1, <1>2, SeqDef DEF Texts

\* When nothing of it is lost, what Validated returns is in front of the "?".
LEMMA AcceptedIsPlain ==
  ASSUME NEW S, Raw("\t") \notin S, NEW t \in Texts(S), NEW p, p # None, p = Validated(t)
  PROVE  Absolute(t) /\ p = Until(t, {Raw("?")})
<1>1. Strip(t, Raw("\t")) = t
  BY StripAbsent
<1>2. Absolute(t) /\ p = UrlSplit(t).path
  BY <1>1 DEF Validated
<1>3. ~StartsWith(t, <<Slash, Slash>>)
  BY <1>2 DEF Absolute
<1> QED BY <1>2, <1>3, UrlSplitPlain

\* A path is accepted again wherever PathInv holds.
LEMMA AcceptedRule == PathInv => AcceptedAgain
<1> SUFFICES ASSUME PathInv, sent # None, Raw("\t") \notin ToSet(asked)
             PROVE  Validated(sent) = sent
  BY DEF AcceptedAgain
<1> DEFINE tab == Raw("\t")
           q == Raw("?")
           S == (PathToken \cup {Slash}) \ {tab}
<1>1. asked \in Texts(PathToken) /\ sent = Validated(asked)
  BY DEF PathInv
<1>2. tab \notin S /\ Slash \in S /\ q # Slash
  BY DEF Slash, Raw
<1>3. asked \in Texts(S)
  <2>1. \A i \in 1..Len(asked) : asked[i] \in ToSet(asked) /\ asked[i] \in PathToken
    BY <1>1, ToSetText
  <2>2. \A i \in 1..Len(asked) : asked[i] \in S
    BY <2>1
  <2> HIDE DEF S
  <2> QED BY <1>1, <2>2, TextOver
<1> HIDE DEF S
<1>4. Absolute(asked) /\ sent = Until(asked, {q})
  BY <1>1, <1>2, <1>3, AcceptedIsPlain
<1>5. sent \in Texts(S) /\ sent \in Texts(S \ {q}) /\ Absolute(sent)
  BY <1>2, <1>3, <1>4, UntilType, AbsoluteUntil
<1>6. Until(sent, {q}) = sent /\ From(sent, Len(sent) + 2) = <<>>
  BY <1>5, UntilFacts, FromBehind
<1>7. Strip(sent, tab) = sent /\ Strip(asked, tab) = asked
  BY <1>2, <1>3, <1>5, StripAbsent
<1>8. /\ ~StartsWith(asked, <<Slash, Slash>>) /\ ~StartsWith(sent, <<Slash, Slash>>)
  BY <1>4, <1>5 DEF Absolute
<1>9. UrlSplit(sent).netloc = <<>> /\ UrlSplit(sent).path = sent /\ UrlSplit(sent).query = <<>>
  BY <1>2, <1>5, <1>6, <1>8, UrlSplitPlain
<1>10. UrlSplit(asked).path = sent
  BY <1>2, <1>3, <1>4, <1>8, UrlSplitPlain
<1>11. ~HasParent(Unquote(sent)) /\ PathInCapability(Unquote(sent), Unquote(prefix))
  BY <1>1, <1>7, <1>10 DEF Validated
<1> QED BY <1>5, <1>7, <1>9, <1>11 DEF Validated

\* A path that was let through is let through again, for every path and prefix.
THEOREM AlwaysAcceptedAgain == Spec => []AcceptedAgain
<1>1. TextInv => AcceptedAgain
  BY AcceptedRule DEF TextInv
<1> QED BY <1>1, TextInvariance, PTL

\* A path that begins with all segments of the prefix is in the capability.
LEMMA SegmentsBelow ==
  ASSUME NEW C, "/" \in C, NEW a \in Texts(C), NEW r \in Texts(C),
         IsPrefix(Split(r, "/"), Split(a, "/"))
  PROVE  a = r \/ StartsWith(a, Append(r, "/"))
<1> DEFINE as == Split(a, "/")
           rs == Split(r, "/")
<1>1. as \in Texts(Texts(C)) /\ rs \in Texts(Texts(C))
  BY SplitFacts DEF Parts
<1> HIDE DEF as, rs
<1>2. PICK qs \in Texts(Texts(C)) : as = Cat(rs, qs)
  BY <1>1, PrefixCat DEF as, rs
<1>3. a = r \/ \E d \in Texts(C) : a = Cat(Add(r, "/"), d)
  BY <1>2, SplitPrefix DEF as, rs
<1>4. Add(r, "/") \in Texts(C)
  BY AddFacts
<1>5. (\E d \in Texts(C) : a = Cat(Add(r, "/"), d)) => IsPrefix(Add(r, "/"), a)
  BY <1>4, PrefixCat
<1> QED BY <1>3, <1>5 DEF StartsWith, Add

\* No legal path is refused wherever PathInv holds.
LEMMA LegalRule == PathInv => NothingLegalRefused
<1> SUFFICES ASSUME PathInv, asked # None,
                    \A t \in ToSet(asked) : ~t.escaped /\ t.ch \notin {"?", "\t"},
                    Absolute(asked), ~HasParent(Unquote(asked)),
                    IsPrefix(Split(RStrip(Unquote(prefix), "/"), "/"),
                             Split(Unquote(asked), "/"))
             PROVE  sent = asked
  BY DEF NothingLegalRefused
<1> DEFINE tab == Raw("\t")
           q == Raw("?")
           S == {t \in PathToken : t.ch \notin {"?", "\t"}}
           C == {t.ch : t \in PathToken \cup {Slash}}
           a == Unquote(asked)
           r == RStrip(Unquote(prefix), "/")
<1>1. asked \in Texts(PathToken) /\ sent = Validated(asked) /\ prefix \in PathTexts
  BY DEF PathInv
<1>2. tab \notin S /\ q \notin S /\ S \ {q} = S /\ "/" \in C
  <2>1. tab.ch = "\t" /\ q.ch = "?" /\ Slash.ch = "/"
    BY DEF Raw, Slash
  <2>2. "/" \in C
    <3>1. Slash \in PathToken \cup {Slash}
      OBVIOUS
    <3> QED BY <2>1, <3>1
  <2> HIDE DEF tab, q
  <2>3. tab \notin S /\ q \notin S
    BY <2>1
  <2> QED BY <2>2, <2>3
<1>3. asked \in Texts(S)
  <2>1. \A i \in 1..Len(asked) : asked[i] \in ToSet(asked) /\ asked[i] \in PathToken
    BY <1>1, ToSetText
  <2>2. \A i \in 1..Len(asked) : asked[i] \in S
    BY <2>1
  <2> HIDE DEF S
  <2> QED BY <1>1, <2>2, TextOver
<1>4. a \in Texts(C) /\ r \in Texts(C)
  <2> DEFINE T == PathToken \cup {Slash}
  <2>1. asked \in Texts(T)
    BY <1>1, SeqMonotonic DEF Texts
  <2>2. prefix \in Texts(T)
    BY <1>1 DEF PathTexts
  <2>3. C = {t.ch : t \in T}
    OBVIOUS
  <2> HIDE DEF T, C
  <2>4. a \in Texts(C) /\ Unquote(prefix) \in Texts(C)
    BY <2>1, <2>2, <2>3, UnquoteType
  <2> QED BY <2>4, RStripFacts
<1> HIDE DEF S, C
<1>5. PathInCapability(a, Unquote(prefix))
  <2> HIDE DEF a, r
  <2>1. a = r \/ StartsWith(a, Append(r, "/"))
    BY <1>2, <1>4, SegmentsBelow DEF a, r
  <2> QED BY <2>1 DEF PathInCapability, r
<1>6. Strip(asked, tab) = asked
  BY <1>2, <1>3, StripAbsent
<1>7. Until(asked, {q}) = asked /\ From(asked, Len(asked) + 2) = <<>>
  BY <1>2, <1>3, UntilFacts, FromBehind
<1>8. ~StartsWith(asked, <<Slash, Slash>>)
  BY DEF Absolute
<1>9. /\ UrlSplit(asked).netloc = <<>> /\ UrlSplit(asked).path = asked
      /\ UrlSplit(asked).query = <<>>
  BY <1>2, <1>3, <1>7, <1>8, UrlSplitPlain
<1> QED BY <1>1, <1>5, <1>6, <1>9 DEF Validated

\* Whole segments below the prefix are never refused, for every path and prefix.
THEOREM NothingLegalEverRefused == Spec => []NothingLegalRefused
<1>1. TextInv => NothingLegalRefused
  BY LegalRule DEF TextInv
<1> QED BY <1>1, TextInvariance, PTL

\* Without ".." a walk never goes back.
LEMMA WalkOn ==
  ASSUME NEW C, NEW ps \in Texts(Texts(C))
  PROVE  \A qs \in Texts(Texts(C) \ {<<".", ".">>}) : IsPrefix(Walk(ps), Walk(Cat(ps, qs)))
<1> DEFINE D == Texts(C) \ {<<".", ".">>}
           U == Texts(C)
           w == Walk(ps)
           P == {qs \in Texts(D) : IsPrefix(w, Walk(Cat(ps, qs)))}
<1>1. Texts(D) \subseteq Texts(U) /\ w \in Texts(U)
  BY SeqMonotonic, WalkFacts DEF Texts
<1>2. <<>> \in P
  <2>1. Cat(ps, <<>>) = ps /\ Cat(w, <<>>) = w /\ <<>> \in Texts(U) /\ <<>> \in Texts(D)
    BY <1>1, CatFacts, AddFacts
  <2> HIDE DEF w
  <2>2. IsPrefix(w, w)
    BY <1>1, <2>1, PrefixCat
  <2> QED BY <2>1, <2>2 DEF w
<1>3. ASSUME NEW qs \in Texts(D), NEW q \in D, qs \in P PROVE Add(qs, q) \in P
  <2> DEFINE v == Walk(Cat(ps, qs))
  <2>1. qs \in Texts(U) /\ q \in U /\ q # <<".", ".">> /\ Add(qs, q) \in Texts(D)
    BY <1>1, AddFacts
  <2>2. Cat(ps, Add(qs, q)) = Add(Cat(ps, qs), q) /\ Cat(ps, qs) \in Texts(U)
    BY <2>1, CatFacts
  <2>3. Walk(Add(Cat(ps, qs), q)) = Enter(v, q) /\ v \in Texts(U)
    BY <2>1, <2>2, WalkFacts
  <2>4. IsPrefix(w, v)
    BY <1>3
  <2> HIDE DEF v, w
  <2>5. Enter(v, q) = v \/ Enter(v, q) = Add(v, q)
    BY <2>1 DEF Enter, Add
  <2>6. IsPrefix(w, Add(v, q))
    <3>1. PICK d \in Texts(U) : v = Cat(w, d)
      BY <1>1, <2>3, <2>4, PrefixCat
    <3>2. Add(v, q) = Cat(w, Add(d, q)) /\ Add(d, q) \in Texts(U) /\ Add(v, q) \in Texts(U)
      BY <1>1, <2>1, <2>3, <3>1, CatFacts, AddFacts
    <3> QED BY <1>1, <3>2, PrefixCat
  <2>7. IsPrefix(w, Walk(Cat(ps, Add(qs, q))))
    BY <2>2, <2>3, <2>4, <2>5, <2>6
  <2> QED BY <2>1, <2>7 DEF w
<1> HIDE DEF P, D
<1>4. Texts(D) \subseteq P
  BY <1>2, <1>3, TextInduct
<1> QED BY <1>4 DEF P, D

\* "/" at the end of a path leads nowhere else.
LEMMA ResolvedStripped ==
  ASSUME NEW C, "/" \in C
  PROVE  \A s \in Texts(C) : Resolved(RStrip(s, "/")) = Resolved(s)
<1> DEFINE P == {s \in Texts(C) : Resolved(RStrip(s, "/")) = Resolved(s)}
<1>1. <<>> \in P
  BY AddFacts, RStripFacts
<1>2. ASSUME NEW s \in Texts(C), NEW x \in C, s \in P PROVE Add(s, x) \in P
  <2>1. Add(s, x) \in Texts(C)
    BY AddFacts
  <2>2. CASE x # "/"
    <3>1. RStrip(Add(s, x), "/") = Add(s, x)
      BY <2>2, RStripFacts
    <3> QED BY <2>1, <3>1
  <2>3. CASE x = "/"
    <3> DEFINE ps == Split(s, "/")
    <3>1. RStrip(Add(s, x), "/") = RStrip(s, "/")
      BY <2>3, RStripFacts
    <3>2. ps \in Texts(Texts(C)) /\ Split(Add(s, x), "/") = Add(ps, <<>>)
      <4>1. ps \in Texts(Texts(C))
        BY SplitFacts DEF Parts
      <4>2. Split(Add(s, x), "/") = Cut(ps, x, "/")
        BY SplitFacts
      <4> QED BY <2>3, <4>1, <4>2 DEF Cut, Add
    <3> HIDE DEF ps
    <3>3. \A e \in Texts(C) : Walk(Add(ps, e)) = Enter(Walk(ps), e)
      BY <3>2, WalkFacts
    <3>4. Walk(Add(ps, <<>>)) = Walk(ps)
      <4>1. <<>> \in Texts(C)
        BY AddFacts
      <4> QED BY <3>3, <4>1 DEF Enter
    <3>5. Resolved(Add(s, x)) = Resolved(s)
      BY <3>2, <3>4 DEF Resolved, ps
    <3> QED BY <1>2, <2>1, <3>1, <3>5
  <2> QED BY <2>2, <2>3
<1> HIDE DEF P
<1>3. Texts(C) \subseteq P
  BY <1>1, <1>2, TextInduct
<1> QED BY <1>3 DEF P

\* The parts behind others are not ".." when none is.
LEMMA NoParentBehind ==
  ASSUME NEW U, NEW x, NEW ps \in Texts(U), NEW qs \in Texts(U),
         \A i \in 1..Len(Cat(ps, qs)) : Cat(ps, qs)[i] # x
  PROVE  qs \in Texts(U \ {x})
<1>1. /\ ps \in Seq(U) /\ qs \in Seq(U) /\ Len(ps) \in Nat /\ Len(qs) \in Nat
      /\ \A i \in 1..Len(qs) : qs[i] \in U
  BY LenProperties, ElementOfSeq DEF Texts
<1>2. /\ Len(Cat(ps, qs)) = Len(ps) + Len(qs)
      /\ \A i \in 1..(Len(ps) + Len(qs)) :
           Cat(ps, qs)[i] = IF i <= Len(ps) THEN ps[i] ELSE qs[i - Len(ps)]
  BY <1>1, ConcatProperties DEF Cat
<1>3. ASSUME NEW i \in 1..Len(qs) PROVE qs[i] \in U \ {x}
  <2>1. /\ Len(ps) + i \in 1..(Len(ps) + Len(qs)) /\ ~(Len(ps) + i <= Len(ps))
        /\ (Len(ps) + i) - Len(ps) = i
    BY <1>1
  <2>2. Cat(ps, qs)[Len(ps) + i] = qs[i]
    BY <1>2, <2>1
  <2> QED BY <1>1, <1>2, <2>1, <2>2
<1> QED BY <1>3, TextOver

\* A path in the capability, without "..", is below its prefix.
LEMMA CapabilityContains ==
  ASSUME NEW C, "/" \in C, NEW path \in Texts(C), NEW base \in Texts(C),
         ~HasParent(path), PathInCapability(path, base)
  PROVE  IsPrefix(Resolved(base), Resolved(path))
<1> DEFINE U == Texts(C)
           r == RStrip(base, "/")
<1>1. r \in Texts(C) /\ Resolved(r) = Resolved(base)
  BY RStripFacts, ResolvedStripped
<1>2. \A s \in Texts(C) : Split(s, "/") \in Texts(U) /\ Resolved(s) \in Texts(U)
  BY SplitFacts, WalkFacts DEF Parts, Resolved
<1>3. <<>> \in Texts(U) /\ \A t \in Texts(U) : Cat(<<>>, t) = t /\ Cat(t, <<>>) = t
  BY AddFacts, CatFacts
<1>4. CASE base = <<"/">>
  <2>1. <<>> \in Texts(C) /\ base = Add(<<>>, "/")
    BY <1>4, AddFacts
  <2>2. r = <<>>
    BY <2>1, RStripFacts
  <2>3. Resolved(base) = <<>>
    <3>1. Split(<<>>, "/") = Add(<<>>, <<>>)
      BY SplitFacts DEF Add
    <3>2. Walk(Add(<<>>, <<>>)) = Enter(<<>>, <<>>)
      BY <1>3, <2>1, WalkFacts
    <3>3. Enter(<<>>, <<>>) = <<>>
      BY DEF Enter
    <3> QED BY <1>1, <2>2, <3>1, <3>2, <3>3 DEF Resolved
  <2>4. Resolved(path) = Cat(<<>>, Resolved(path))
    BY <1>2, <1>3
  <2> QED BY <1>2, <1>3, <2>3, <2>4, PrefixCat
<1>5. CASE path = r
  <2>1. Resolved(path) = Cat(Resolved(base), <<>>)
    BY <1>1, <1>2, <1>3, <1>5
  <2> QED BY <1>2, <1>3, <2>1, PrefixCat
<1>6. CASE StartsWith(path, Add(r, "/"))
  <2> HIDE DEF r
  <2>1. Add(r, "/") \in Texts(C)
    BY <1>1, AddFacts
  <2>2. PICK d \in Texts(C) : path = Cat(Add(r, "/"), d)
    BY <1>6, <2>1, PrefixCat DEF StartsWith
  <2> DEFINE ps == Split(r, "/")
             qs == Split(d, "/")
  <2>3. Split(path, "/") = Cat(ps, qs) /\ ps \in Texts(U) /\ qs \in Texts(U)
    BY <1>1, <1>2, <2>2, SplitConcat
  <2>4. \A i \in 1..Len(Cat(ps, qs)) : Cat(ps, qs)[i] # <<".", ".">>
    <3>1. DOMAIN Split(path, "/") = 1..Len(Split(path, "/"))
      BY <1>2, LenProperties DEF Texts
    <3> QED BY <2>3, <3>1 DEF HasParent
  <2> HIDE DEF ps, qs, U
  <2>5. qs \in Texts(U \ {<<".", ".">>})
    BY <2>3, <2>4, NoParentBehind
  <2>6. IsPrefix(Walk(ps), Walk(Cat(ps, qs)))
    BY <2>3, <2>5, WalkOn DEF U
  <2> QED BY <1>1, <2>3, <2>6 DEF Resolved, ps
<1> QED BY <1>4, <1>5, <1>6 DEF PathInCapability, Add

\* A path that is sent is below the prefix wherever PathInv holds.
LEMMA PathRule == PathInv => Contained
<1> SUFFICES ASSUME PathInv, sent # None
             PROVE  IsPrefix(Resolved(Unquote(prefix)), Resolved(Unquote(sent)))
  BY DEF Contained
<1> DEFINE T == PathToken \cup {Slash}
           C == {t.ch : t \in T}
           t == Strip(asked, Raw("\t"))
<1>1. asked \in Texts(T) /\ sent = Validated(asked) /\ prefix \in Texts(T)
  BY SeqMonotonic DEF PathInv, PathTexts, Texts
<1>2. "/" \in C
  <2>1. Slash \in T /\ Slash.ch = "/"
    BY DEF Raw, Slash
  <2> QED BY <2>1
<1> HIDE DEF T
<1>3. t \in Texts(T)
  BY <1>1, StripType
<1>4. /\ sent = UrlSplit(t).path /\ ~HasParent(Unquote(sent))
      /\ PathInCapability(Unquote(sent), Unquote(prefix))
  BY <1>1 DEF Validated
<1> HIDE DEF t
<1>5. Unquote(sent) \in Texts(C) /\ Unquote(prefix) \in Texts(C)
  BY <1>1, <1>3, <1>4, UrlSplitType, UnquoteType
<1> HIDE DEF C
<1> QED BY <1>2, <1>4, <1>5, CapabilityContains

\* However a path is written, it does not lead out of the prefix, for every path
\* and every prefix.
THEOREM AlwaysContained == Spec => []Contained
<1>1. TextInv => Contained
  BY PathRule DEF TextInv
<1> QED BY <1>1, TextInvariance, PTL

-----------------------------------------------------------------------------
(* References *)

\* What Quote makes of the characters C.
Quoted(C) == {IF c \in {"/", "?", "\t"} THEN Escaped(c) ELSE Raw(c) : c \in C}

\* Quote leaves no raw "/", "?" or tab.
LEMMA QuotedFacts ==
  ASSUME NEW C
  PROVE  Slash \notin Quoted(C) /\ Raw("?") \notin Quoted(C) /\ Raw("\t") \notin Quoted(C)
<1>1. ASSUME NEW c, NEW d \in {"/", "?", "\t"}
      PROVE  Raw(d) # IF c \in {"/", "?", "\t"} THEN Escaped(c) ELSE Raw(c)
  BY DEF Raw, Escaped
<1>2. \A d \in {"/", "?", "\t"} : Raw(d) \notin Quoted(C)
  BY <1>1 DEF Quoted
<1> QED BY <1>2 DEF Slash

\* Quote writes every text, and Unquote reads what it wrote.
LEMMA QuoteFacts ==
  ASSUME NEW C, NEW s \in Texts(C)
  PROVE  /\ Quote(s) \in Texts(Quoted(C)) /\ Unquote(Quote(s)) = s
         /\ s # <<>> => Quote(s) # <<>>
<1> DEFINE Of(c) == IF c \in {"/", "?", "\t"} THEN Escaped(c) ELSE Raw(c)
           q == Quote(s)
           u == Unquote(q)
<1>1. s \in Seq(C) /\ Len(s) \in Nat /\ DOMAIN s = 1..Len(s) /\ \A i \in 1..Len(s) : s[i] \in C
  BY LenProperties, ElementOfSeq DEF Texts
<1>2. q = [i \in 1..Len(s) |-> Of(s[i])]
  BY <1>1 DEF Quote
<1>3. \A c : Of(c).ch = c
  BY DEF Raw, Escaped
<1>4. \A c \in C : Of(c) \in Quoted(C)
  BY DEF Quoted
<1> HIDE DEF Of, q
<1>5. q \in [1..Len(s) -> Quoted(C)]
  BY <1>1, <1>2, <1>4
<1>6. q \in Seq(Quoted(C)) /\ Len(q) = Len(s)
  <2>1. q \in Seq(Quoted(C))
    BY <1>1, <1>5, SeqDef
  <2> QED BY <1>1, <1>2, <2>1, LenProperties
<1>7. u = [i \in 1..Len(s) |-> s[i]]
  BY <1>1, <1>2, <1>3 DEF Unquote
<1>8. u = s
  BY <1>1, <1>7
<1>9. s # <<>> => q # <<>>
  BY <1>1, <1>6, EmptySeq
<1> QED BY <1>6, <1>8, <1>9 DEF Texts, q

\* A reference of three parts, none empty and none with a raw "/", "?" or tab.
LEMMA ParseParts ==
  ASSUME NEW Q, Slash \notin Q, Raw("?") \notin Q, Raw("\t") \notin Q,
         NEW v \in Texts(Q), NEW i \in Texts(Q), NEW f \in Texts(Q),
         v # <<>>, i # <<>>, f # <<>>, NEW t,
         t = <<Slash, Slash>> \o v \o <<Slash>> \o i \o <<Slash>> \o f
  PROVE  Parse(t) = [vault |-> Unquote(v), item |-> Unquote(i),
                     field |-> Joined(<<Unquote(f)>>, <<"/">>)]
<1> DEFINE U == Q \cup {Slash}
           q == Raw("?")
           tab == Raw("\t")
           stops == {Slash, q}
           one == <<Slash>>
           two == <<Slash, Slash>>
           tail == Cat(Add(i, Slash), f)
           rest == Cat(one, tail)
           most == Cat(Add(v, Slash), tail)
<1>1. q # Slash /\ tab # Slash /\ q # tab
  BY DEF Raw, Slash
<1>2. Slash \in U /\ tab \notin U /\ q \notin U
  BY <1>1
<1>3. /\ v \in Texts(U) /\ i \in Texts(U) /\ f \in Texts(U) /\ <<>> \in Texts(U)
      /\ one \in Texts(U) /\ two \in Texts(U)
      /\ one = Add(<<>>, Slash) /\ Len(two) = 2
  <2>1. Texts(Q) \subseteq Texts(U)
    BY SeqMonotonic DEF Texts
  <2>2. one = Add(<<>>, Slash) /\ one \in Texts(U) /\ <<>> \in Texts(U)
    BY AddFacts
  <2>3. two \in Texts(U) /\ Len(two) = 2
    BY DEF Texts
  <2> QED BY <2>1, <2>2, <2>3
<1>4. v \in Texts(U \ stops) /\ Texts(U \ {q}) = Texts(U)
  <2>1. v \in Texts(Q) /\ U \ stops = Q /\ U \ {q} = U
    BY <1>2
  <2> HIDE DEF U, stops
  <2> QED BY <2>1
<1> HIDE DEF U, q, tab, one, two
<1>5. \A a, b \in Texts(U) : Cat(a, b) \in Texts(U) /\ Add(a, Slash) \in Texts(U)
  BY <1>2, CatFacts, AddFacts
<1>6. \A a \in Texts(U) : Cat(a, one) = Add(a, Slash)
  <2>1. \A a \in Texts(U) : Cat(a, Add(<<>>, Slash)) = Add(Cat(a, <<>>), Slash)
                            /\ Cat(a, <<>>) = a
    BY <1>2, <1>3, CatFacts
  <2> QED BY <1>3, <2>1
<1>7. tail \in Texts(U) /\ rest \in Texts(U) /\ most \in Texts(U)
  <2>1. tail \in Texts(U)
    BY <1>3, <1>5
  <2> HIDE DEF tail
  <2> QED BY <1>3, <1>5, <2>1
<1>8. t = Cat(two, most) /\ most = Cat(v, rest) /\ t = Cat(Cat(two, v), rest)
  <2>1. \A a, b, c \in Texts(U) : Cat(Cat(a, b), c) = Cat(a, Cat(b, c))
    BY CatFacts
  <2>2. t = Cat(Cat(Cat(Cat(Cat(two, v), one), i), one), f)
    BY DEF Cat, one, two
  <2>3. tail = Cat(i, Cat(one, f)) /\ Cat(one, f) \in Texts(U)
    BY <1>3, <1>5, <1>6, <2>1
  <2>4. t = Cat(Cat(two, v), rest)
    <3> DEFINE tv == Cat(two, v)
               of == Cat(one, f)
    <3>1. tv \in Texts(U) /\ of \in Texts(U) /\ t = Cat(Cat(Cat(Cat(tv, one), i), one), f)
      BY <1>3, <1>5, <2>2
    <3> HIDE DEF tv, of
    <3> DEFINE to == Cat(tv, one)
               ti == Cat(to, i)
    <3>2. to \in Texts(U) /\ ti \in Texts(U)
      BY <1>3, <1>5, <3>1
    <3>3. t = Cat(ti, of)
      <4> HIDE DEF ti
      <4> QED BY <1>3, <2>1, <3>1, <3>2 DEF of, ti
    <3>4. Cat(ti, of) = Cat(to, Cat(i, of))
      <4> HIDE DEF to
      <4> QED BY <1>3, <2>1, <3>1, <3>2
    <3>5. Cat(i, of) = tail
      BY <2>3 DEF of
    <3> HIDE DEF tail
    <3>6. Cat(to, tail) = Cat(tv, Cat(one, tail))
      BY <1>3, <1>7, <2>1, <3>1
    <3> QED BY <3>3, <3>4, <3>5, <3>6 DEF tv
  <2> HIDE DEF tail
  <2>5. most = Cat(v, rest)
    BY <1>3, <1>6, <1>7, <2>1
  <2>6. t = Cat(two, most)
    <3> HIDE DEF rest, most
    <3> QED BY <1>3, <1>7, <2>1, <2>4, <2>5
  <2> QED BY <2>4, <2>5, <2>6
<1>9. t \in Texts(U)
  <2> HIDE DEF most
  <2> QED BY <1>3, <1>5, <1>7, <1>8
<1>10. Without(t, tab) = t
  BY <1>2, <1>9, WithoutAbsent
<1>11. StartsWith(t, two)
  <2> HIDE DEF most
  <2> QED BY <1>3, <1>7, <1>8, <1>9, PrefixCat DEF StartsWith
<1>12. From(t, 3) = most
  <2> HIDE DEF most
  <2>1. 3 = Len(two) + 1 /\ two \in Texts(U) /\ most \in Texts(U) /\ t = Cat(two, most)
    BY <1>3, <1>7, <1>8
  <2>2. From(Cat(two, most), 3) = most
    BY <2>1, FromCat
  <2> QED BY <2>1, <2>2
<1>13. Until(most, stops) = v
  <2> HIDE DEF tail
  <2>1. Slash \in stops
    OBVIOUS
  <2> HIDE DEF stops
  <2>2. \A x \in U, b \in Texts(U) : x \in stops => Until(Cat(Add(v, x), b), stops) = v
    BY <1>4, UntilFacts
  <2> QED BY <1>2, <1>7, <2>1, <2>2
<1>14. From(t, Len(v) + 3) = rest
  <2> DEFINE tv == Cat(two, v)
  <2>1. Len(tv) = Len(two) + Len(v) /\ Len(v) \in Nat
    <3>1. two \in Seq(U) /\ v \in Seq(U)
      BY <1>3 DEF Texts
    <3>2. Len(two \o v) = Len(two) + Len(v) /\ Len(v) \in Nat
      BY <3>1, ConcatProperties, LenProperties
    <3> QED BY <3>2 DEF Cat
  <2>2. tv \in Texts(U)
    BY <1>3, <1>5
  <2> HIDE DEF rest, tv
  <2>3. Len(v) + 3 = Len(tv) + 1
    BY <1>3, <2>1
  <2>4. From(Cat(tv, rest), Len(v) + 3) = rest
    BY <1>7, <2>2, <2>3, FromCat
  <2> QED BY <1>8, <2>4 DEF tv
<1>15. Until(rest, {q}) = rest
  <2> HIDE DEF rest
  <2> QED BY <1>4, <1>7, UntilFacts
<1>16. UrlSplit(t).netloc = v /\ UrlSplit(t).path = rest
  <2> HIDE DEF rest, most
  <2> QED BY <1>10, <1>11, <1>12, <1>13, <1>14, <1>15 DEF UrlSplit, two, tab, q, stops
<1> DEFINE parts == Without(Split(rest, Slash), <<>>)
<1>17. Split(rest, Slash) = Add(Add(Add(<<>>, <<>>), i), f)
  <2>1. Split(i, Slash) = <<i>> /\ Split(f, Slash) = <<f>>
    BY SplitAbsent
  <2>2. Split(tail, Slash) = Cat(<<i>>, <<f>>)
    <3>1. Split(tail, Slash) = Cat(Split(i, Slash), Split(f, Slash))
      BY <1>2, <1>3, SplitConcat
    <3> QED BY <2>1, <3>1
  <2> HIDE DEF tail
  <2>3. Split(rest, Slash) = Cat(Split(<<>>, Slash), Split(tail, Slash))
    BY <1>2, <1>3, <1>7, SplitConcat
  <2>4. Split(<<>>, Slash) = << <<>> >>
    BY SplitFacts
  <2>5. \A e, g, h : Cat(<<e>>, Cat(<<g>>, <<h>>)) = Add(Add(Add(<<>>, e), g), h)
    BY DEF Cat, Add
  <2> QED BY <2>2, <2>3, <2>4, <2>5
<1>18. parts = Add(Add(<<>>, i), f)
  <2> DEFINE T == Texts(Q)
  <2>1. <<>> \in T /\ <<>> \in Texts(T)
    BY AddFacts
  <2> HIDE DEF T
  <2>2. \A e \in T : Without(Add(<<>>, e), e) = <<>>
    <3>1. \A e \in T : Without(Add(<<>>, e), e) = Keep(Without(<<>>, e), e, e)
      BY <2>1, WithoutFacts
    <3>2. \A e \in T : Without(<<>>, e) = <<>>
      BY WithoutFacts
    <3> QED BY <3>1, <3>2 DEF Keep
  <2>3. ASSUME NEW e \in T, i # e, f # e
        PROVE  Without(Add(Add(Add(<<>>, e), i), f), e) = Add(Add(<<>>, i), f)
    <3> DEFINE a == Add(<<>>, e)
               b == Add(a, i)
    <3>1. a \in Texts(T) /\ b \in Texts(T) /\ i \in T /\ f \in T
      <4>1. i \in T /\ f \in T
        BY DEF T
      <4>2. a \in Texts(T)
        BY <2>1, AddFacts
      <4> HIDE DEF a
      <4> QED BY <4>1, <4>2, AddFacts
    <3>2. Without(a, e) = <<>>
      BY <2>2
    <3> HIDE DEF a
    <3>3. Without(b, e) = Add(<<>>, i)
      <4>1. Without(Add(a, i), e) = Keep(<<>>, i, e)
        BY <3>1, <3>2, WithoutFacts
      <4> QED BY <2>3, <4>1 DEF Keep, Add, b
    <3> HIDE DEF b
    <3>4. Without(Add(b, f), e) = Add(Add(<<>>, i), f)
      <4>1. Without(Add(b, f), e) = Keep(Add(<<>>, i), f, e)
        BY <3>1, <3>3, WithoutFacts
      <4> QED BY <2>3, <4>1 DEF Keep, Add
    <3> QED BY <3>4 DEF a, b
  <2> QED BY <1>17, <2>1, <2>3
<1>19. parts # <<>> /\ parts[1] = i /\ Tail(parts) = <<f>>
  <2> DEFINE T == Texts(Q)
             is == <<i>>
             fs == <<f>>
  <2>1. /\ is = Add(<<>>, i) /\ is \in Texts(T) /\ i \in T
        /\ fs = Add(<<>>, f) /\ fs \in Texts(T) /\ f \in T /\ <<>> \in Texts(T)
    BY AddFacts
  <2> HIDE DEF T, is, fs
  <2>2. parts = Cat(is, fs) /\ parts # <<>>
    <3>1. Cat(is, Add(<<>>, f)) = Add(Cat(is, <<>>), f) /\ Cat(is, <<>>) = is
      BY <2>1, CatFacts
    <3>2. Add(is, f) # <<>>
      BY <2>1, AddFacts
    <3> QED BY <1>18, <2>1, <3>1, <3>2
  <2>3. Cat(<<i>>, fs)[1] = i /\ Tail(Cat(<<i>>, fs)) = fs
    BY <2>1, FirstAndRest
  <2> QED BY <2>2, <2>3 DEF is, fs
<1>20. [n \in DOMAIN Tail(parts) |-> Unquote(Tail(parts)[n])] = <<Unquote(f)>>
  <2> DEFINE ps == Tail(parts)
             us == [n \in DOMAIN ps |-> Unquote(ps[n])]
  <2> HIDE DEF parts
  <2>1. DOMAIN ps = 1..1 /\ ps[1] = f
    <3>1. \A x : DOMAIN <<x>> = 1..1 /\ <<x>>[1] = x
      OBVIOUS
    <3>2. ps = <<f>>
      BY <1>19
    <3> HIDE DEF ps
    <3> QED BY <3>1, <3>2
  <2> HIDE DEF ps
  <2>2. us = [n \in 1..1 |-> Unquote(f)]
    BY <2>1
  <2>3. \A x : [n \in 1..1 |-> x] = <<x>>
    OBVIOUS
  <2> QED BY <2>2, <2>3 DEF ps
<1> HIDE DEF parts, rest
<1> QED BY <1>11, <1>16, <1>19, <1>20 DEF Parse, parts, two

\* What Parse returns: three texts, of which vault and item are not empty.
Selectors(C) ==
  [vault : Texts(C) \ {<<>>}, item : Texts(C) \ {<<>>}, field : Texts(C)]

\* A name that is written with at least one token is not empty.
LEMMA UnquoteNotEmpty ==
  ASSUME NEW S, NEW t \in Texts(S), t # <<>>
  PROVE  Unquote(t) \in Texts({x.ch : x \in S}) \ {<<>>}
<1>1. t \in Seq(S) /\ Len(t) \in Nat /\ Len(t) # 0 /\ DOMAIN t = 1..Len(t)
  BY LenProperties, EmptySeq DEF Texts
<1>2. DOMAIN Unquote(t) = 1..Len(t)
  BY <1>1 DEF Unquote
<1>3. Unquote(t) # <<>>
  <2>1. DOMAIN Unquote(t) # {}
    <3>1. 1 \in 1..Len(t)
      BY <1>1
    <3> QED BY <1>2, <3>1
  <2>2. DOMAIN <<>> = {}
    OBVIOUS
  <2> QED BY <2>1, <2>2
<1> QED BY <1>3, UnquoteType

\* Parse returns such a selector.
LEMMA ParseType ==
  ASSUME NEW S, NEW C, C = {x.ch : x \in S} \cup {"/"}, NEW t \in Texts(S), Parse(t) # None
  PROVE  Parse(t) \in Selectors(C)
<1> DEFINE D == {x.ch : x \in S}
           netloc == UrlSplit(t).netloc
           path == UrlSplit(t).path
           all == Split(path, Slash)
           parts == Without(all, <<>>)
           rest == Tail(parts)
           names == [i \in DOMAIN rest |-> Unquote(rest[i])]
           sel == [vault |-> Unquote(netloc), item |-> Unquote(parts[1]),
                   field |-> Joined(names, <<"/">>)]
<1>1. netloc # <<>> /\ parts # <<>> /\ Parse(t) = sel
  BY DEF Parse
<1>2. netloc \in Texts(S) /\ path \in Texts(S)
  BY UrlSplitType
<1>3. all \in Texts(Texts(S))
  <2> HIDE DEF path
  <2> QED BY <1>2, SplitFacts DEF Parts
<1>4. parts \in Texts(Texts(S) \ {<<>>})
  <2> DEFINE T == Texts(S)
  <2> HIDE DEF all, T
  <2> QED BY <1>3, WithoutFacts DEF T
<1> HIDE DEF netloc, path, all, parts
<1>5. parts[1] \in Texts(S) /\ parts[1] # <<>>
  <2> DEFINE T == Texts(S) \ {<<>>}
  <2>1. parts \in Seq(T) /\ Len(parts) \in Nat /\ Len(parts) # 0
    BY <1>1, <1>4, LenProperties, EmptySeq DEF Texts
  <2> HIDE DEF T
  <2>2. parts[1] \in T
    BY <2>1, ElementOfSeq
  <2> QED BY <2>2 DEF T
<1>6. rest \in Texts(Texts(S))
  <2> DEFINE T == Texts(S) \ {<<>>}
             U == Texts(S)
  <2>1. T \subseteq U
    OBVIOUS
  <2> HIDE DEF T, U
  <2>2. rest \in Texts(T)
    BY <1>1, <1>4, FirstAndRest DEF T
  <2> QED BY <2>1, <2>2, SeqMonotonic DEF Texts, U
<1>7. /\ \A s \in Texts(S) : Unquote(s) \in Texts(C)
      /\ \A s \in Texts(S) : s # <<>> => Unquote(s) # <<>>
  <2>1. D \subseteq C
    OBVIOUS
  <2>2. Texts(D) \subseteq Texts(C)
    <3> HIDE DEF D
    <3> QED BY <2>1, SeqMonotonic DEF Texts
  <2> QED BY <2>2, UnquoteType, UnquoteNotEmpty
<1>8. names \in Texts(Texts(C))
  <2> DEFINE U == Texts(S)
             V == Texts(C)
  <2>1. Len(rest) \in Nat /\ DOMAIN rest = 1..Len(rest) /\ \A i \in 1..Len(rest) : rest[i] \in U
    <3>1. rest \in Seq(U)
      BY <1>6 DEF Texts
    <3> HIDE DEF U, rest
    <3> QED BY <3>1, LenProperties, ElementOfSeq
  <2>2. \A s \in U : Unquote(s) \in V
    BY <1>7
  <2> HIDE DEF U, V, rest
  <2>3. names \in [1..Len(rest) -> V]
    BY <2>1, <2>2
  <2> QED BY <2>1, <2>3, SeqDef DEF Texts, V
<1>9. <<"/">> \in Texts(C)
  <2>1. "/" \in C
    OBVIOUS
  <2> QED BY <2>1, AddFacts
<1>10. Joined(names, <<"/">>) \in Texts(C)
  <2> HIDE DEF names
  <2> QED BY <1>8, <1>9, JoinedFacts
<1>11. /\ Unquote(netloc) \in Texts(C) \ {<<>>}
       /\ Unquote(parts[1]) \in Texts(C) \ {<<>>}
  BY <1>1, <1>2, <1>5, <1>7
<1> HIDE DEF names
<1> QED BY <1>1, <1>10, <1>11 DEF Selectors

\* What is written of a selector with a field is read as that selector.
LEMMA WrittenIsRead ==
  ASSUME NEW C, "/" \in C, NEW s \in Selectors(C), s.field # <<>>
  PROVE  Parse(Written(s)) = s
<1> DEFINE Q == Quoted(C)
           v == Quote(s.vault)
           i == Quote(s.item)
           f == Quote(s.field)
<1>1. /\ s.vault \in Texts(C) /\ s.item \in Texts(C) /\ s.field \in Texts(C)
      /\ s.vault # <<>> /\ s.item # <<>>
      /\ s = [vault |-> s.vault, item |-> s.item, field |-> s.field]
  BY DEF Selectors
<1>2. /\ v \in Texts(Q) /\ Unquote(v) = s.vault /\ v # <<>>
      /\ i \in Texts(Q) /\ Unquote(i) = s.item /\ i # <<>>
      /\ f \in Texts(Q) /\ Unquote(f) = s.field /\ f # <<>>
  BY <1>1, QuoteFacts
<1>3. Slash \notin Q /\ Raw("?") \notin Q /\ Raw("\t") \notin Q
  BY QuotedFacts
<1>4. Written(s) = <<Slash, Slash>> \o v \o <<Slash>> \o i \o <<Slash>> \o f
  BY DEF Written
<1> HIDE DEF Q, v, i, f
<1>5. Parse(Written(s)) = [vault |-> Unquote(v), item |-> Unquote(i),
                           field |-> Joined(<<Unquote(f)>>, <<"/">>)]
  BY <1>2, <1>3, <1>4, ParseParts
<1>6. \A x \in Texts(C) : Joined(<<x>>, <<"/">>) = x
  <2> DEFINE sep == <<"/">>
  <2>1. sep \in Texts(C)
    BY AddFacts
  <2> HIDE DEF sep
  <2>2. ASSUME NEW x \in Texts(C) PROVE Joined(<<x>>, sep) = x
    <3>1. <<x>> = Add(<<>>, x) /\ <<>> \in Texts(Texts(C))
      BY AddFacts
    <3>2. Joined(Add(<<>>, x), sep) = x
      BY <2>1, <3>1, JoinedFacts
    <3> QED BY <3>1, <3>2
  <2> QED BY <2>2 DEF sep
<1> QED BY <1>1, <1>2, <1>5, <1>6

\* What is shown names the selector wherever RefInv holds.
LEMMA RefRule == RefInv => ShownNamesSelector
<1> SUFFICES ASSUME RefInv, shown # None PROVE Parse(shown) = selector
  BY DEF ShownNamesSelector
<1> DEFINE C == {x.ch : x \in RefToken} \cup {"/"}
<1>1. selector # None /\ shown = Written(selector) /\ Read(selector)
  BY DEF RefInv
<1>2. PICK t \in Texts(RefToken) : selector = Parse(t)
  BY <1>1 DEF Read
<1>3. selector.field # <<>>
  BY <1>1 DEF Read
<1>4. selector \in Selectors(C)
  BY <1>1, <1>2, ParseType
<1>5. "/" \in C
  OBVIOUS
<1> HIDE DEF C
<1> QED BY <1>1, <1>3, <1>4, <1>5, WrittenIsRead

\* What the reviewer sees names what the lease will name, for every reference.
THEOREM ShownAlwaysNamesSelector == Spec => []ShownNamesSelector
<1>1. TextInv => ShownNamesSelector
  BY RefRule DEF TextInv
<1> QED BY <1>1, TextInvariance, PTL
=============================================================================
