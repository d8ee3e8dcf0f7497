----------------------------- MODULE BrowseProofs -----------------------------
(***************************************************************************)
(* Proofs about PathJail and Browse, for paths of any length and any names *)
(* and roots: a path leads where walking it does, below the root, and the  *)
(* paths that the server reports or joins lead where they are meant to.    *)
(*                                                                         *)
(* Clean and Join go through a path element by element, so that what they  *)
(* make of every path needs induction.  It is stated with sets: a set that *)
(* contains 0, and with n also n + 1, contains the natural numbers         *)
(* (SetInduction, from the well-foundedness of <); in the same way a set   *)
(* of sequences is closed under Append (SeqInduction).                     *)
(***************************************************************************)
EXTENDS Browse, WellFoundedInduction, SequenceTheorems, FiniteSetTheorems, TLAPS

-------------------------------------------------------------------------------
(* The words that paths are made of, and induction *)

LEMMA Words ==
  /\ Up \notin Stay /\ "." \in Stay /\ \A n \in Name : n \notin Stay /\ n # Up
  /\ \E e \in Stay : \A p : Abs(p) = <<e>> \o p
<1>1. Up \notin Stay /\ "." \in Stay BY DEF Up, Stay
<1>2. \A n \in Name : n \notin Stay /\ n # Up BY PathJailAssumption
<1>3. "" \in Stay BY DEF Stay
<1>4. \A p : Abs(p) = <<"">> \o p BY DEF Abs
<1> QED BY <1>1, <1>2, <1>3, <1>4, Zenon

LEMMA SetInduction ==
  ASSUME NEW T, 0 \in T, \A n \in Nat : n \in T => n + 1 \in T
  PROVE  Nat \subseteq T
<1> SUFFICES ASSUME Nat \ T # {} PROVE FALSE OBVIOUS
<1> DEFINE R == OpToRel(<, Nat)
<1>1. IsWellFoundedOn(R, Nat) BY NatLessThanWellFounded
<1>2. \A m, n \in Nat : m < n => <<m, n>> \in R BY DEF OpToRel
<1> HIDE DEF R
<1>3. \E n \in Nat \ T : \A m \in Nat \ T : <<m, n>> \notin R BY <1>1, WFMin
<1>4. PICK n \in Nat \ T : \A m \in Nat \ T : <<m, n>> \notin R BY <1>3
<1>5. n # 0 /\ n - 1 \in Nat /\ n - 1 + 1 = n /\ n - 1 < n BY <1>4
<1>6. n - 1 \in T
  <2>1. <<n - 1, n>> \in R BY <1>2, <1>5
  <2> QED BY <1>4, <1>5, <2>1
<1> QED BY <1>4, <1>5, <1>6

\* g is what the steps G make of a, one after the other
Recursive(A, a, N, G, g) ==
  g \in [0 .. N -> A] /\ g[0] = a /\ \A i \in 1 .. N : g[i] = G[i][g[i - 1]]

LEMMA Recursion ==
  ASSUME NEW A, NEW a \in A, NEW N \in Nat, NEW G \in [1 .. N -> [A -> A]]
  PROVE  \E g : Recursive(A, a, N, G, g)
<1> DEFINE Upto(n, g) == g[0] = a /\ \A i \in 1 .. n : g[i] = G[i][g[i - 1]]
           T == {n \in Nat : n <= N => \E g \in [0 .. n -> A] : Upto(n, g)}
<1>1. 0 \in T
  <2>1. [i \in 0 .. 0 |-> a] \in [0 .. 0 -> A] /\ Upto(0, [i \in 0 .. 0 |-> a]) OBVIOUS
  <2> HIDE DEF Upto
  <2> QED BY <2>1
<1>2. ASSUME NEW n \in Nat, n \in T PROVE n + 1 \in T
  <2> SUFFICES ASSUME n + 1 <= N PROVE \E h \in [0 .. n + 1 -> A] : Upto(n + 1, h) OBVIOUS
  <2>1. PICK g \in [0 .. n -> A] : Upto(n, g) BY <1>2
  <2> DEFINE h == [i \in 0 .. n + 1 |-> IF i <= n THEN g[i] ELSE G[n + 1][g[n]]]
  <2>2. n + 1 \in 1 .. N /\ g[n] \in A BY <2>1
  <2>3. G[n + 1][g[n]] \in A BY <2>2
  <2>4. h \in [0 .. n + 1 -> A] BY <2>3
  <2>5. h[0] = a BY <2>1
  <2>6. ASSUME NEW i \in 1 .. n + 1 PROVE h[i] = G[i][h[i - 1]]
    <3>1. CASE i <= n
      <4>1. h[i] = g[i] /\ h[i - 1] = g[i - 1] /\ i \in 1 .. n BY <3>1
      <4> QED BY <2>1, <4>1
    <3>2. CASE i = n + 1
      <4>1. h[i] = G[n + 1][g[n]] /\ h[i - 1] = g[n] BY <3>2
      <4> QED BY <3>2, <4>1
    <3> QED BY <3>1, <3>2
  <2>7. Upto(n + 1, h) BY <2>5, <2>6
  <2> HIDE DEF Upto, h
  <2> QED BY <2>4, <2>7
<1> HIDE DEF T
<1>3. N \in T BY <1>1, <1>2, SetInduction
<1>4. \E g \in [0 .. N -> A] : Upto(N, g) BY <1>3 DEF T
<1> QED BY <1>4 DEF Recursive

-------------------------------------------------------------------------------
(* Sequences *)

LEMMA FrontLast ==
  ASSUME NEW S, NEW s \in Seq(S), s # <<>>
  PROVE  /\ Front(s) \in Seq(S) /\ Last(s) \in S /\ s = Append(Front(s), Last(s))
         /\ Len(s) \in Nat \ {0} /\ Len(Front(s)) = Len(s) - 1
         /\ \A i \in 1 .. Len(s) - 1 : Front(s)[i] = s[i]
<1>1. Len(s) \in Nat /\ s \in [1 .. Len(s) -> S] BY LenProperties
<1>2. Len(s) # 0 BY EmptySeq
<1>3. \A i \in 1 .. Len(s) - 1 : s[i] \in S BY <1>1
<1>4. /\ Front(s) \in Seq(S) /\ Len(Front(s)) = Len(s) - 1
      /\ \A i \in 1 .. Len(s) - 1 : Front(s)[i] = s[i]
  BY <1>1, <1>2, <1>3, SubSeqProperties DEF Front
<1>5. Last(s) \in S BY <1>1, <1>2 DEF Last
<1>6. s = Append(Front(s), Last(s))
  <2> DEFINE f == Front(s)  l == Last(s)  t == Append(f, l)
  <2>0. l = s[Len(s)] BY DEF Last
  <2> HIDE DEF f, l
  <2>1. /\ t \in Seq(S) /\ Len(t) = Len(f) + 1 /\ t[Len(f) + 1] = l
        /\ \A i \in 1 .. Len(f) : t[i] = f[i]
    BY <1>4, <1>5, AppendProperties DEF f, l
  <2> HIDE DEF t
  <2>2. \A i \in 1 .. Len(s) : t[i] = s[i] BY <1>1, <1>2, <1>4, <2>0, <2>1 DEF f
  <2>3. s = t BY <1>1, <1>2, <1>4, <2>1, <2>2, SeqEqual DEF f
  <2> QED BY <2>3 DEF t, f, l
<1> QED BY <1>1, <1>2, <1>4, <1>5, <1>6

LEMMA FrontAppend ==
  ASSUME NEW S, NEW s \in Seq(S), NEW e \in S
  PROVE  /\ Append(s, e) \in Seq(S) /\ Append(s, e) # <<>> /\ Len(Append(s, e)) = Len(s) + 1
         /\ Front(Append(s, e)) = s /\ Last(Append(s, e)) = e
         /\ \A i \in 1 .. Len(s) : Append(s, e)[i] = s[i]
<1> DEFINE t == Append(s, e)
<1>1. /\ t \in Seq(S) /\ t # <<>> /\ Len(t) = Len(s) + 1 /\ Len(s) \in Nat
      /\ \A i \in 1 .. Len(s) : t[i] = s[i]
      /\ t[Len(s) + 1] = e
  BY AppendProperties, LenProperties
<1> HIDE DEF t
<1>2. Last(t) = e BY <1>1 DEF Last
<1>3. /\ Front(t) \in Seq(S) /\ Len(Front(t)) = Len(s)
      /\ \A i \in 1 .. Len(s) : Front(t)[i] = s[i]
  BY <1>1, FrontLast, SMTT(40)
<1>4. Front(t) = s BY <1>3, SeqEqual
<1> QED BY <1>1, <1>2, <1>4 DEF t

LEMMA ConcatAppend ==
  ASSUME NEW S, NEW s \in Seq(S), NEW t \in Seq(S), NEW e \in S
  PROVE  s \o Append(t, e) = Append(s \o t, e)
<1> DEFINE u == s \o Append(t, e)  w == Append(s \o t, e)
<1>1. Append(t, e) \in Seq(S) /\ s \o t \in Seq(S) BY AppendProperties, ConcatProperties
<1>2. Append(t, e) = t \o <<e>> /\ w = (s \o t) \o <<e>> BY <1>1, AppendIsConcat
<1>3. <<e>> \in Seq(S) OBVIOUS
<1> HIDE DEF w
<1> QED BY <1>2, <1>3, ConcatAssociative DEF w

LEMMA SeqInduction ==
  ASSUME NEW S, NEW T, <<>> \in T, \A s \in Seq(S), e \in S : s \in T => Append(s, e) \in T
  PROVE  Seq(S) \subseteq T
<1> DEFINE U == {n \in Nat : \A s \in Seq(S) : Len(s) = n => s \in T}
<1>1. 0 \in U
  <2>1. \A s \in Seq(S) : Len(s) = 0 => s = <<>> BY EmptySeq
  <2> QED BY <2>1
<1>2. ASSUME NEW n \in Nat, n \in U PROVE n + 1 \in U
  <2> SUFFICES ASSUME NEW s \in Seq(S), Len(s) = n + 1 PROVE s \in T OBVIOUS
  <2>1. s # <<>>
    <3>1. Len(<<>>) = 0 BY EmptySeq
    <3> QED BY <3>1
  <2>2. /\ Front(s) \in Seq(S) /\ Last(s) \in S /\ s = Append(Front(s), Last(s))
        /\ Len(Front(s)) = n
    BY <2>1, FrontLast
  <2>3. Front(s) \in T BY <1>2, <2>2
  <2> QED BY <2>2, <2>3
<1> HIDE DEF U
<1>3. Nat \subseteq U BY <1>1, <1>2, SetInduction
<1>4. \A s \in Seq(S) : Len(s) \in Nat BY LenProperties
<1> QED BY <1>3, <1>4 DEF U

-------------------------------------------------------------------------------
(* Clean, element by element *)

LEMMA DescendIs ==
  ASSUME NEW out \in Seq(Name), NEW e \in Element
  PROVE  /\ Descend(out, e) \in Seq(Name)
         /\ e \in Stay => Descend(out, e) = out
         /\ e = Up => Descend(out, e) = IF out = <<>> THEN <<>> ELSE Front(out)
         /\ e \in Name => Descend(out, e) = Append(out, e)
<1>1. Up \notin Stay /\ \A n \in Name : n \notin Stay /\ n # Up BY Words
<1>2. e \in Stay => Descend(out, e) = out BY DEF Descend
<1>3. e = Up => Descend(out, e) = IF out = <<>> THEN <<>> ELSE Front(out) BY <1>1 DEF Descend
<1>4. e \in Name => Descend(out, e) = Append(out, e) BY <1>1 DEF Descend
<1>5. out # <<>> => Front(out) \in Seq(Name) BY FrontLast
<1>6. e \in Name => Append(out, e) \in Seq(Name) BY AppendProperties
<1>7. <<>> \in Seq(Name) BY EmptySeq
<1>8. e \in Stay \/ e = Up \/ e \in Name BY DEF Element
<1> QED BY <1>2, <1>3, <1>4, <1>5, <1>6, <1>7, <1>8

\* g is how Clean goes through p
Cleans(p, g) ==
  /\ g \in [0 .. Len(p) -> Seq(Name)] /\ g[0] = <<>>
  /\ \A i \in 1 .. Len(p) : g[i] = Descend(g[i - 1], p[i])

LEMMA CleanIs ==
  ASSUME NEW p \in Seq(Element)
  PROVE  /\ \E g : Cleans(p, g)
         /\ \A g : Cleans(p, g) => Clean(p) = g[Len(p)]
<1> DEFINE N == Len(p)
           G == [i \in 1 .. N |-> [x \in Seq(Name) |-> Descend(x, p[i])]]
           F(g) == [i \in 0 .. N |-> IF i = 0 THEN <<>> ELSE Descend(g[i - 1], p[i])]
           out == CHOOSE g : g = F(g)
<1>1. N \in Nat /\ \A i \in 1 .. N : p[i] \in Element BY LenProperties
<1>2. \A i \in 1 .. N, x \in Seq(Name) : Descend(x, p[i]) \in Seq(Name) BY <1>1, DescendIs
<1>3. <<>> \in Seq(Name) BY EmptySeq
<1> HIDE DEF N
<1>4. G \in [1 .. N -> [Seq(Name) -> Seq(Name)]] BY <1>2
<1>5. \A i \in 1 .. N, x \in Seq(Name) : G[i][x] = Descend(x, p[i]) OBVIOUS
<1> HIDE DEF G
<1>6. PICK g : g \in [0 .. N -> Seq(Name)] /\ g[0] = <<>> /\ \A i \in 1 .. N : g[i] = G[i][g[i - 1]]
  <2>1. \E g : Recursive(Seq(Name), <<>>, N, G, g) BY <1>1, <1>3, <1>4, Recursion
  <2> QED BY <2>1 DEF Recursive
<1>7. Cleans(p, g)
  <2>1. \A i \in 1 .. N : g[i - 1] \in Seq(Name) BY <1>1, <1>6
  <2> QED BY <1>5, <1>6, <2>1 DEF Cleans, N
<1>8. ASSUME NEW h, Cleans(p, h) PROVE h = F(h)
  <2>1. /\ h \in [0 .. N -> Seq(Name)] /\ h[0] = <<>>
        /\ \A i \in 1 .. N : h[i] = Descend(h[i - 1], p[i])
    BY <1>8 DEF Cleans, N
  <2>2. \A i \in 0 .. N : i = 0 \/ i \in 1 .. N BY <1>1
  <2> QED BY <2>1, <2>2
<1>9. Clean(p) = out[N] BY DEF Clean, N
<1> HIDE DEF out
<1>10. out = F(out)
  <2>1. g = F(g) BY <1>7, <1>8
  <2> QED BY <2>1 DEF out
<1>11. ASSUME NEW h, Cleans(p, h) PROVE out[N] = h[N]
  <2> DEFINE T == {n \in Nat : n <= N => out[n] = h[n]}
  <2>0. /\ h[0] = <<>> /\ \A i \in 1 .. N : h[i] = Descend(h[i - 1], p[i])
    BY <1>11 DEF Cleans, N
  <2>1. out[0] = <<>> /\ \A i \in 1 .. N : out[i] = Descend(out[i - 1], p[i]) BY <1>1, <1>10
  <2>2. 0 \in T BY <2>0, <2>1
  <2>3. ASSUME NEW n \in Nat, n \in T PROVE n + 1 \in T
    <3> SUFFICES ASSUME n + 1 <= N PROVE out[n + 1] = h[n + 1] OBVIOUS
    <3>1. out[n] = h[n] BY <1>1, <2>3
    <3>2. n + 1 \in 1 .. N /\ n + 1 - 1 = n BY <1>1
    <3> QED BY <2>0, <2>1, <3>1, <3>2
  <2> HIDE DEF T
  <2>4. Nat \subseteq T BY <2>2, <2>3, SetInduction
  <2> QED BY <1>1, <2>4 DEF T
<1>12. \A h : Cleans(p, h) => Clean(p) = h[N] BY <1>9, <1>11
<1> QED BY <1>7, <1>12 DEF N

LEMMA CleanAppend ==
  ASSUME NEW p \in Seq(Element), NEW e \in Element
  PROVE  Clean(p) \in Seq(Name) /\ Clean(Append(p, e)) = Descend(Clean(p), e)
<1> DEFINE N == Len(p)  q == Append(p, e)
<1>1. N \in Nat BY LenProperties
<1>2. q \in Seq(Element) /\ Len(q) = N + 1 /\ q[N + 1] = e /\ \A i \in 1 .. N : q[i] = p[i]
  BY <1>1, AppendProperties
<1>3. PICK g : Cleans(p, g) BY CleanIs
<1>4. Clean(p) = g[N] BY <1>3, CleanIs
<1> HIDE DEF N, q
<1>5. /\ g \in [0 .. N -> Seq(Name)] /\ g[0] = <<>>
      /\ \A i \in 1 .. N : g[i] = Descend(g[i - 1], p[i])
  BY <1>3 DEF Cleans, N
<1>6. g[N] \in Seq(Name) /\ Descend(g[N], e) \in Seq(Name) BY <1>1, <1>5, DescendIs
<1> DEFINE h == [i \in 0 .. N + 1 |-> IF i <= N THEN g[i] ELSE Descend(g[N], e)]
<1>7. h \in [0 .. N + 1 -> Seq(Name)] /\ h[0] = <<>> /\ h[N + 1] = Descend(g[N], e)
  BY <1>1, <1>5, <1>6
<1>8. ASSUME NEW i \in 1 .. N + 1 PROVE h[i] = Descend(h[i - 1], q[i])
  <2>1. CASE i <= N
    <3>1. i \in 1 .. N /\ h[i] = g[i] /\ h[i - 1] = g[i - 1] BY <1>1, <2>1
    <3> QED BY <1>2, <1>5, <3>1
  <2>2. CASE i = N + 1
    <3>1. h[i] = Descend(g[N], e) /\ h[i - 1] = g[N] BY <1>1, <2>2
    <3> QED BY <1>2, <2>2, <3>1
  <2> QED BY <1>1, <2>1, <2>2
<1> HIDE DEF h
<1>9. Cleans(q, h) BY <1>2, <1>7, <1>8 DEF Cleans
<1>10. Clean(q) = h[N + 1] BY <1>2, <1>9, CleanIs
<1> QED BY <1>4, <1>6, <1>7, <1>10 DEF q

LEMMA CleanEmpty == Clean(<<>>) = <<>>
<1> DEFINE g == [i \in 0 .. 0 |-> <<>>]
<1>1. <<>> \in Seq(Element) /\ <<>> \in Seq(Name) /\ Len(<<>>) = 0 BY EmptySeq
<1>2. g \in [0 .. 0 -> Seq(Name)] /\ g[0] = <<>> BY <1>1
<1> HIDE DEF g
<1>3. Cleans(<<>>, g) BY <1>1, <1>2 DEF Cleans
<1>4. Clean(<<>>) = g[0] BY <1>1, <1>3, CleanIs
<1> QED BY <1>2, <1>4

\* names lead on
LEMMA CleanNames ==
  ASSUME NEW p \in Seq(Element), NEW c \in Seq(Name)
  PROVE  Clean(p \o c) = Clean(p) \o c
<1> DEFINE T == {s \in Seq(Name) : Clean(p \o s) = Clean(p) \o s}
<1>0. Clean(p) \in Seq(Name)
  <2>1. "." \in Element BY Words DEF Element
  <2> QED BY <2>1, CleanAppend
<1>1. <<>> \in T
  <2>1. p \o <<>> = p /\ Clean(p) \o <<>> = Clean(p) BY <1>0, ConcatEmptySeq
  <2>2. <<>> \in Seq(Name) BY EmptySeq
  <2> QED BY <2>1, <2>2
<1>2. ASSUME NEW s \in Seq(Name), NEW n \in Name, s \in T PROVE Append(s, n) \in T
  <2>1. n \in Element /\ s \in Seq(Element) /\ Append(s, n) \in Seq(Name)
    <3>1. Name \subseteq Element BY DEF Element
    <3>2. s \in Seq(Element) BY <3>1, SeqMonotonic
    <3> QED BY <3>1, <3>2, AppendProperties
  <2>2. p \o s \in Seq(Element) BY <2>1, ConcatProperties
  <2>3. p \o Append(s, n) = Append(p \o s, n) BY <2>1, ConcatAppend
  <2>4. Clean(p) \o Append(s, n) = Append(Clean(p) \o s, n) BY <1>0, ConcatAppend
  <2>5. Clean(p \o s) \in Seq(Name) /\ Clean(Append(p \o s, n)) = Descend(Clean(p \o s), n)
    BY <2>1, <2>2, CleanAppend
  <2>6. Descend(Clean(p \o s), n) = Append(Clean(p \o s), n) BY <2>1, <2>5, DescendIs
  <2> QED BY <1>2, <2>1, <2>3, <2>4, <2>5, <2>6
<1> HIDE DEF T
<1>3. Seq(Name) \subseteq T BY <1>1, <1>2, SeqInduction
<1> QED BY <1>3 DEF T

\* a slash in front, or a dot, changes nothing
LEMMA CleanStay ==
  ASSUME NEW e \in Stay, NEW p \in Seq(Element)
  PROVE  Clean(<<e>> \o p) = Clean(p)
<1> DEFINE T == {s \in Seq(Element) : Clean(<<e>> \o s) = Clean(s)}
<1>0. e \in Element /\ <<e>> \in Seq(Element) /\ <<>> \in Seq(Element) /\ <<>> \in Seq(Name)
  <2>1. e \in Element BY DEF Element
  <2> QED BY <2>1, EmptySeq
<1>1. <<>> \in T
  <2>1. <<e>> \o <<>> = <<e>> BY <1>0, ConcatEmptySeq
  <2>2. <<e>> = Append(<<>>, e) OBVIOUS
  <2>3. Clean(<<e>>) = Descend(<<>>, e) BY <1>0, <2>2, CleanAppend, CleanEmpty
  <2>4. Descend(<<>>, e) = <<>> BY <1>0, DescendIs
  <2> QED BY <1>0, <2>1, <2>3, <2>4, CleanEmpty
<1>2. ASSUME NEW s \in Seq(Element), NEW x \in Element, s \in T PROVE Append(s, x) \in T
  <2>1. Append(s, x) \in Seq(Element) BY AppendProperties
  <2>2. <<e>> \o s \in Seq(Element) BY <1>0, ConcatProperties
  <2>3. <<e>> \o Append(s, x) = Append(<<e>> \o s, x) BY <1>0, ConcatAppend
  <2>4. Clean(Append(<<e>> \o s, x)) = Descend(Clean(<<e>> \o s), x) BY <2>2, CleanAppend
  <2>5. Clean(Append(s, x)) = Descend(Clean(s), x) BY CleanAppend
  <2> QED BY <1>2, <2>1, <2>3, <2>4, <2>5
<1> HIDE DEF T
<1>3. Seq(Element) \subseteq T BY <1>1, <1>2, SeqInduction
<1> QED BY <1>3 DEF T

-------------------------------------------------------------------------------
(* Resolve *)

LEMMA PrefixIf ==
  ASSUME NEW S, NEW s \in Seq(S), NEW t \in Seq(S), Len(s) <= Len(t),
         \A i \in 1 .. Len(s) : s[i] = t[i]
  PROVE  IsPrefix(s, t)
<1>1. Len(s) \in Nat /\ Len(t) \in Nat BY LenProperties
<1>2. SubSeq(s, 1, Len(s)) = s BY SubSeqFull
<1>3. \A i \in 1 .. Len(s) : t[i] \in S BY <1>1, ElementOfSeq
<1>4. /\ SubSeq(t, 1, Len(s)) \in Seq(S) /\ Len(SubSeq(t, 1, Len(s))) = Len(s)
      /\ \A i \in 1 .. Len(s) : SubSeq(t, 1, Len(s))[i] = t[i]
  BY <1>1, <1>3, SubSeqProperties
<1>5. SubSeq(t, 1, Len(s)) = s BY <1>4, SeqEqual
<1> QED BY <1>2, <1>5 DEF IsPrefix

LEMMA TextIs ==
  ASSUME NEW p \in Seq(Name), p # <<>>
  PROVE  /\ Text(p) \in Seq(Name \cup {"/"}) /\ Len(Text(p)) = 2 * Len(p)
         /\ \A k \in 1 .. 2 * Len(p) : Text(p)[k] = IF k % 2 = 1 THEN "/" ELSE p[k \div 2]
<1> DEFINE S == Name \cup {"/"}  N == Len(p)
           t == [k \in 1 .. 2 * N |-> IF k % 2 = 1 THEN "/" ELSE p[k \div 2]]
<1>1. Text(p) = t BY DEF Text
<1>2. N \in Nat /\ \A i \in 1 .. N : p[i] \in S BY LenProperties
<1>3. "/" \in S OBVIOUS
<1> HIDE DEF S, N
<1>4. ASSUME NEW k \in 1 .. 2 * N, k % 2 # 1 PROVE k \div 2 \in 1 .. N
  BY <1>2, <1>4
<1>5. t \in [1 .. 2 * N -> S] BY <1>2, <1>3, <1>4
<1>6. \A k \in 1 .. 2 * N : t[k] = IF k % 2 = 1 THEN "/" ELSE p[k \div 2] OBVIOUS
<1> HIDE DEF t
<1>7. 2 * N \in Nat BY <1>2
<1>8. t \in Seq(S) /\ Len(t) = 2 * N
  <2>1. t \in Seq(S) BY <1>5, <1>7, IsASeq
  <2> QED BY <1>5, <1>7, <2>1, LenProperties
<1> QED BY <1>1, <1>6, <1>8 DEF S, N

\* The check of resolve never refuses a path.
LEMMA ResolveIs ==
  ASSUME NEW rt \in Roots, NEW p \in Seq(Element)
  PROVE  Resolve(rt, p) = rt \o Clean(p)
<1> DEFINE c == Clean(p)  a == rt \o c
<1>1. rt \in Seq(Name) /\ rt # <<>> BY PathJailAssumption
<1>2. c \in Seq(Name)
  <2>1. "." \in Element BY Words DEF Element
  <2> QED BY <2>1, CleanAppend
<1>3. ASSUME a # rt PROVE IsPrefix(Text(rt) \o <<"/">>, Text(a))
  <2> DEFINE S == Name \cup {"/"}  s == Text(rt)  t == Text(a)  N == Len(rt)  M == Len(c)
             sep == <<"/">>  u == s \o sep
  <2> HIDE DEF c
  <2>1. N \in Nat /\ M \in Nat BY <1>1, <1>2, LenProperties
  <2>2. M # 0
    <3>1. M = 0 => c = <<>> BY <1>2, EmptySeq
    <3>2. rt \o <<>> = rt BY <1>1, ConcatEmptySeq
    <3> QED BY <1>3, <3>1, <3>2
  <2>3. /\ a \in Seq(Name) /\ Len(a) = N + M
        /\ \A i \in 1 .. N : a[i] = rt[i]
    BY <1>1, <1>2, ConcatProperties
  <2>4. a # <<>>
    <3>1. Len(<<>>) = 0 BY EmptySeq
    <3> HIDE DEF a
    <3> QED BY <2>1, <2>2, <2>3, <3>1
  <2> HIDE DEF N, M, a
  <2>5. /\ s \in Seq(S) /\ Len(s) = 2 * N
        /\ \A k \in 1 .. 2 * N : s[k] = IF k % 2 = 1 THEN "/" ELSE rt[k \div 2]
    BY <1>1, TextIs DEF N
  <2>6. /\ t \in Seq(S) /\ Len(t) = 2 * (N + M)
        /\ \A k \in 1 .. 2 * (N + M) : t[k] = IF k % 2 = 1 THEN "/" ELSE a[k \div 2]
    BY <2>3, <2>4, TextIs
  <2>7. sep \in Seq(S) /\ Len(sep) = 1 /\ sep[1] = "/" OBVIOUS
  <2> HIDE DEF S, s, t, sep
  <2>8. /\ u \in Seq(S) /\ Len(u) = 2 * N + 1
        /\ \A i \in 1 .. 2 * N : u[i] = s[i]
        /\ u[2 * N + 1] = "/"
    <3>1. /\ u \in Seq(S) /\ Len(u) = Len(s) + Len(sep)
          /\ \A i \in 1 .. Len(s) + Len(sep) : u[i] = IF i <= Len(s) THEN s[i] ELSE sep[i - Len(s)]
      BY <2>5, <2>7, ConcatProperties
    <3> HIDE DEF u
    <3> QED BY <2>1, <2>5, <2>7, <3>1
  <2> HIDE DEF u
  <2>9. Len(u) <= Len(t) BY <2>1, <2>2, <2>6, <2>8
  <2>10. ASSUME NEW i \in 1 .. Len(u) PROVE u[i] = t[i]
    <3>0. i \in 1 .. 2 * (N + M) BY <2>1, <2>2, <2>8
    <3>1. CASE i = 2 * N + 1
      <4>1. i % 2 = 1 BY <2>1, <3>1
      <4> QED BY <2>6, <2>8, <3>0, <3>1, <4>1
    <3>2. CASE i \in 1 .. 2 * N /\ i % 2 = 1 BY <2>5, <2>6, <2>8, <3>0, <3>2
    <3>3. CASE i \in 1 .. 2 * N /\ i % 2 # 1
      <4>1. i \div 2 \in 1 .. N BY <2>1, <3>3
      <4> QED BY <2>3, <2>5, <2>6, <2>8, <3>0, <3>3, <4>1
    <3> QED BY <2>1, <2>8, <3>1, <3>2, <3>3
  <2>11. IsPrefix(u, t) BY <2>6, <2>8, <2>9, <2>10, PrefixIf
  <2> QED BY <2>11 DEF u, s, t, sep
<1> QED BY <1>3 DEF Resolve

-------------------------------------------------------------------------------
(* The paths that are reported, and those of uploads *)

LEMMA AbsIs ==
  ASSUME NEW p \in Seq(Element)
  PROVE  Abs(p) \in Seq(Element) /\ Clean(Abs(p)) = Clean(p)
<1>1. PICK e \in Stay : Abs(p) = <<e>> \o p BY Words
<1>2. <<e>> \in Seq(Element) BY DEF Element
<1> QED BY <1>1, <1>2, CleanStay, ConcatProperties

LEMMA NamesAreElements == ASSUME NEW c \in Seq(Name) PROVE c \in Seq(Element) /\ Clean(c) = c
<1>1. Name \subseteq Element BY DEF Element
<1>2. c \in Seq(Element) BY <1>1, SeqMonotonic
<1>3. <<>> \in Seq(Element) /\ <<>> \o c = c BY EmptySeq, ConcatEmptySeq
<1> QED BY <1>2, <1>3, CleanNames, CleanEmpty

LEMMA EntryPathIs ==
  ASSUME NEW rt \in Roots, NEW c \in Seq(Name)
  PROVE  EntryPath(rt, rt \o c) \in Seq(Element) /\ Clean(EntryPath(rt, rt \o c)) = c
<1> DEFINE a == rt \o c  below == SubSeq(a, Len(rt) + 1, Len(a))  dot == <<".">>
           p == IF below = <<>> THEN dot ELSE below
<1>1. rt \in Seq(Name) BY PathJailAssumption
<1>2. below = c
  <2>1. Len(a) = Len(rt) + Len(c) BY <1>1, ConcatProperties
  <2>2. SubSeq(rt \o c, Len(rt) + 1, Len(rt) + Len(c)) = c BY <1>1, ConcatSimplifications
  <2> QED BY <2>1, <2>2
<1>3. dot \in Seq(Element) /\ Clean(dot) = <<>>
  <2>1. "." \in Stay BY Words
  <2>2. dot \in Seq(Element) BY <2>1 DEF Element
  <2>3. <<>> \in Seq(Element) /\ dot \o <<>> = dot BY <2>2, EmptySeq, ConcatEmptySeq
  <2> QED BY <2>1, <2>2, <2>3, CleanStay, CleanEmpty
<1>4. EntryPath(rt, a) = Abs(p) BY DEF EntryPath
<1> HIDE DEF below, dot
<1>5. p \in Seq(Element) /\ Clean(p) = c BY <1>2, <1>3, NamesAreElements
<1> QED BY <1>4, <1>5, AbsIs

Free == Name \cup {Up}

LEMMA FreeStep ==
  ASSUME NEW out \in Seq(Free), NEW e \in Element
  PROVE  /\ DescendFree(out, e) \in Seq(Free)
         /\ Clean(DescendFree(out, e)) = Descend(Clean(out), e)
<1>1. out \in Seq(Element)
  <2>1. Free \subseteq Element BY DEF Free, Element
  <2> QED BY <2>1, SeqMonotonic
<1>2. Clean(out) \in Seq(Name) /\ Clean(Append(out, e)) = Descend(Clean(out), e)
  BY <1>1, CleanAppend
<1>3. CASE e \in Stay
  <2>1. DescendFree(out, e) = out BY <1>3 DEF DescendFree
  <2> QED BY <1>2, <1>3, <2>1, DescendIs
<1>4. CASE e = Up /\ out # <<>> /\ Last(out) # Up
  <2>1. DescendFree(out, e) = Front(out) BY <1>4, Words DEF DescendFree
  <2>2. /\ Front(out) \in Seq(Free) /\ Last(out) \in Name /\ Last(out) \in Element
        /\ out = Append(Front(out), Last(out)) /\ Front(out) \in Seq(Element)
    BY <1>1, <1>4, FrontLast DEF Free, Element
  <2> DEFINE f == Front(out)  x == Last(out)
  <2> HIDE DEF f, x
  <2>3. Clean(f) \in Seq(Name) /\ Clean(out) = Descend(Clean(f), x)
    BY <2>2, CleanAppend DEF f, x
  <2>4. Clean(out) = Append(Clean(f), x) BY <2>2, <2>3, DescendIs DEF x
  <2>5. Clean(out) # <<>> /\ Front(Clean(out)) = Clean(f)
    BY <2>2, <2>3, <2>4, FrontAppend DEF x
  <2>6. Descend(Clean(out), e) = Clean(f) BY <1>2, <1>4, <2>5, DescendIs
  <2> QED BY <2>1, <2>2, <2>6 DEF f
<1>5. CASE e \notin Stay /\ ~(e = Up /\ out # <<>> /\ Last(out) # Up)
  <2>1. DescendFree(out, e) = Append(out, e) BY <1>5 DEF DescendFree
  <2>2. e \in Free BY <1>5 DEF Free, Element
  <2> QED BY <1>2, <2>1, <2>2, AppendProperties
<1> QED BY <1>3, <1>4, <1>5

LEMMA JoinIs ==
  ASSUME NEW dir \in Seq(Element), NEW n \in Name
  PROVE  Join(dir, n) \in Seq(Element) /\ Clean(Join(dir, n)) = Append(Clean(dir), n)
<1> DEFINE p == Append(dir, n)  N == Len(p)
<1>1. /\ n \in Element /\ p \in Seq(Element) /\ N \in Nat
      /\ Clean(dir) \in Seq(Name) /\ Clean(p) = Append(Clean(dir), n)
  <2>1. n \in Element /\ p \in Seq(Element) BY AppendProperties DEF Element
  <2>2. Clean(dir) \in Seq(Name) /\ Clean(p) = Descend(Clean(dir), n) BY <2>1, CleanAppend
  <2> QED BY <2>1, <2>2, DescendIs, LenProperties
<1>2. CASE IsAbs(dir)
  <2>1. Join(dir, n) = Abs(Clean(p)) BY <1>2 DEF Join
  <2>2. Clean(p) \in Seq(Name)
    <3>1. Append(Clean(dir), n) \in Seq(Name) BY <1>1, AppendProperties
    <3> QED BY <1>1, <3>1
  <2>3. Clean(p) \in Seq(Element) /\ Clean(Clean(p)) = Clean(p) BY <2>2, NamesAreElements
  <2> QED BY <1>1, <2>1, <2>3, AbsIs
<1>3. CASE ~IsAbs(dir)
  <2> DEFINE G == [i \in 1 .. N |-> [x \in Seq(Free) |-> DescendFree(x, p[i])]]
             F(g) == [i \in 0 .. N |-> IF i = 0 THEN <<>> ELSE DescendFree(g[i - 1], p[i])]
             out == CHOOSE g : g = F(g)
  <2>1. Join(dir, n) = out[N] BY <1>3 DEF Join
  <2> HIDE DEF p, N
  <2>2. \A i \in 1 .. N : p[i] \in Element BY <1>1, ElementOfSeq DEF N
  <2>3. \A i \in 1 .. N, x \in Seq(Free) : DescendFree(x, p[i]) \in Seq(Free) BY <2>2, FreeStep
  <2>4. G \in [1 .. N -> [Seq(Free) -> Seq(Free)]] BY <2>3
  <2>5. \A i \in 1 .. N, x \in Seq(Free) : G[i][x] = DescendFree(x, p[i]) OBVIOUS
  <2> HIDE DEF G
  <2>6. PICK g : g \in [0 .. N -> Seq(Free)] /\ g[0] = <<>> /\ \A i \in 1 .. N : g[i] = G[i][g[i - 1]]
    <3>1. \E g : Recursive(Seq(Free), <<>>, N, G, g) BY <1>1, <2>4, EmptySeq, Recursion
    <3> QED BY <3>1 DEF Recursive
  <2>7. g = F(g)
    <3>1. \A i \in 1 .. N : g[i - 1] \in Seq(Free) BY <1>1, <2>6
    <3>2. \A i \in 1 .. N : g[i] = DescendFree(g[i - 1], p[i]) BY <2>5, <2>6, <3>1
    <3>3. \A i \in 0 .. N : i = 0 \/ i \in 1 .. N BY <1>1
    <3> QED BY <2>6, <3>2, <3>3
  <2>8. out = F(out) BY <2>7
  <2> HIDE DEF out
  <2>9. out[0] = <<>> /\ \A i \in 1 .. N : out[i] = DescendFree(out[i - 1], p[i]) BY <1>1, <2>8
  <2>10. PICK h : Cleans(p, h) BY <1>1, CleanIs
  <2>11. /\ h[0] = <<>> /\ \A i \in 1 .. N : h[i] = Descend(h[i - 1], p[i])
    BY <2>10 DEF Cleans, N
  <2> DEFINE T == {k \in Nat : k <= N => out[k] \in Seq(Free) /\ Clean(out[k]) = h[k]}
  <2>12. 0 \in T
    <3>1. <<>> \in Seq(Free) BY EmptySeq
    <3> QED BY <2>9, <2>11, <3>1, CleanEmpty
  <2>13. ASSUME NEW k \in Nat, k \in T PROVE k + 1 \in T
    <3> SUFFICES ASSUME k + 1 <= N
                 PROVE  out[k + 1] \in Seq(Free) /\ Clean(out[k + 1]) = h[k + 1]
      OBVIOUS
    <3>1. out[k] \in Seq(Free) /\ Clean(out[k]) = h[k] BY <1>1, <2>13
    <3>2. k + 1 \in 1 .. N /\ k + 1 - 1 = k BY <1>1
    <3>3. p[k + 1] \in Element /\ out[k + 1] = DescendFree(out[k], p[k + 1])
      BY <2>2, <2>9, <3>2
    <3>4. h[k + 1] = Descend(h[k], p[k + 1]) BY <2>11, <3>2
    <3> QED BY <3>1, <3>3, <3>4, FreeStep
  <2> HIDE DEF T
  <2>14. Nat \subseteq T BY <2>12, <2>13, SetInduction
  <2>15. out[N] \in Seq(Free) /\ Clean(out[N]) = h[N] BY <1>1, <2>14 DEF T
  <2>16. Clean(p) = h[N] BY <1>1, <2>10, CleanIs DEF N
  <2>17. Free \subseteq Element BY DEF Free, Element
  <2>18. out[N] \in Seq(Element) BY <2>15, <2>17, SeqMonotonic
  <2> QED BY <1>1, <2>1, <2>15, <2>16, <2>18
<1> QED BY <1>2, <1>3

-------------------------------------------------------------------------------
(* Where requests lead *)

PathInv == root \in Roots /\ asked \in Seq(Element) /\ at = root \o Clean(asked)

LEMMA RequestIs ==
  ASSUME PathInv, NEW p \in Seq(Element), Request(p)
  PROVE  PathInv' /\ at' = root \o Clean(p)
BY ResolveIs DEF PathInv, Request

LEMMA BelowRoot ==
  ASSUME PathInv
  PROVE  /\ Clean(asked) \in Seq(Name) /\ at \in Seq(Name)
         /\ \A n \in Name : Append(at, n) = root \o Append(Clean(asked), n)
<1>1. root \in Seq(Name) BY PathJailAssumption DEF PathInv
<1>2. "." \in Element BY Words DEF Element
<1>3. Clean(asked) \in Seq(Name) BY <1>2, CleanAppend DEF PathInv
<1> DEFINE c == Clean(asked)
<1>4. c \in Seq(Name) /\ at = root \o c BY <1>3 DEF PathInv
<1> HIDE DEF c
<1>5. at \in Seq(Name) BY <1>1, <1>4, ConcatProperties
<1>6. \A n \in Name : root \o Append(c, n) = Append(root \o c, n) BY <1>1, <1>4, ConcatAppend
<1> QED BY <1>3, <1>4, <1>5, <1>6 DEF c

LEMMA FollowIs ==
  ASSUME PathInv
  PROVE  /\ EntryPath(root, at) \in Seq(Element) /\ root \o Clean(EntryPath(root, at)) = at
BY BelowRoot, EntryPathIs DEF PathInv

LEMMA EnterIs ==
  ASSUME PathInv, NEW n \in Name
  PROVE  /\ EntryPath(root, Append(at, n)) \in Seq(Element)
         /\ root \o Clean(EntryPath(root, Append(at, n))) = Append(at, n)
<1>1. Append(Clean(asked), n) \in Seq(Name) BY BelowRoot, AppendProperties
<1> QED BY <1>1, BelowRoot, EntryPathIs DEF PathInv

LEMMA UploadIs ==
  ASSUME PathInv, NEW n \in Name
  PROVE  Join(asked, n) \in Seq(Element) /\ root \o Clean(Join(asked, n)) = Append(at, n)
BY BelowRoot, JoinIs DEF PathInv

LEMMA PathInit == Init => PathInv
<1> SUFFICES ASSUME Init PROVE PathInv OBVIOUS
<1>1. root \in Roots /\ root \in Seq(Name) /\ asked = <<>> /\ at = root
  BY PathJailAssumption DEF Init
<1>2. root \o <<>> = root BY <1>1, ConcatEmptySeq
<1>3. <<>> \in Seq(Element) BY EmptySeq
<1> QED BY <1>1, <1>2, <1>3, CleanEmpty DEF PathInv

LEMMA PathNext == PathInv /\ [Next]_vars => PathInv'
<1> SUFFICES ASSUME PathInv, [Next]_vars PROVE PathInv' OBVIOUS
<1>1. CASE Ask
  <2>1. PICK p \in Rels : Request(p) BY <1>1 DEF Ask
  <2>2. p \in Seq(Element)
    <3>1. PICK n \in 0 .. MaxDepth : p \in [1 .. n -> Element] BY DEF Rels
    <3>2. n \in Nat BY BrowseAssumption
    <3> QED BY <3>1, <3>2, IsASeq
  <2> QED BY <2>1, <2>2, RequestIs
<1>2. CASE Follow BY <1>2, FollowIs, RequestIs DEF Follow
<1>3. ASSUME NEW n \in Name, Enter(n) PROVE PathInv' BY <1>3, EnterIs, RequestIs DEF Enter
<1>4. ASSUME NEW n \in Name, Upload(n) PROVE PathInv' BY <1>4, UploadIs, RequestIs DEF Upload
<1>5. CASE UNCHANGED vars BY <1>5 DEF vars, PathInv
<1> QED BY <1>1, <1>2, <1>3, <1>4, <1>5 DEF Next

\* Whatever was asked for, what is touched is named by a path below the root; resolve
\* refuses nothing (Escape).
THEOREM NeverLeavesRoot == Spec => [](\E c \in Seq(Name) : at = root \o c)
<1>1. PathInv => \E c \in Seq(Name) : at = root \o c BY BelowRoot DEF PathInv
<1> QED BY <1>1, PathInit, PathNext, PTL DEF Spec

\* The path that a listing or a search reports of a file leads to that file, and the
\* one that Stat reports leads back to where it was asked.
THEOREM ReportsLeadBack == Spec => ReportedPathsLeadBack
<1>1. ASSUME PathInv, [Next]_vars
      PROVE  (Follow => at' = at) /\ (\A n \in Name : Enter(n) => at' = Append(at, n))
  <2>1. Follow => at' = at BY <1>1, FollowIs, RequestIs DEF Follow
  <2>2. \A n \in Name : Enter(n) => at' = Append(at, n) BY <1>1, EnterIs, RequestIs DEF Enter
  <2> QED BY <2>1, <2>2
<1> QED BY <1>1, PathInit, PathNext, PTL DEF Spec, ReportedPathsLeadBack

\* An uploaded file lands in the directory that the request names, with and without a
\* slash in front and however its ".." are nested.
THEOREM UploadsLand == Spec => UploadsLandInTheirDirectory
<1>1. ASSUME PathInv, [Next]_vars PROVE \A n \in Name : Upload(n) => at' = Append(at, n)
  BY <1>1, UploadIs, RequestIs DEF Upload
<1> QED BY <1>1, PathInit, PathNext, PTL DEF Spec, UploadsLandInTheirDirectory

-------------------------------------------------------------------------------
(* Counting *)

LEMMA CountIs ==
  ASSUME NEW p, NEW S, NEW i \in Nat, NEW j \in Int
  PROVE  /\ Count(p, S, i, j) \in Nat
         /\ j < i => Count(p, S, i, j) = 0
         /\ i <= j + 1 =>
              Count(p, S, i, j + 1) = Count(p, S, i, j) + (IF p[j + 1] \in S THEN 1 ELSE 0)
<1> DEFINE K(n) == {k \in i .. n : p[k] \in S}
<1>1. ASSUME NEW n \in Int PROVE IsFiniteSet(K(n))
  <2>1. IsFiniteSet(i .. n) BY FS_Interval
  <2>2. K(n) \subseteq i .. n OBVIOUS
  <2> HIDE DEF K
  <2> QED BY <2>1, <2>2, FS_Subset
<1>2. Cardinality(K(j)) \in Nat
  <2> HIDE DEF K
  <2> QED BY <1>1, FS_CardinalityType
<1>3. ASSUME j < i PROVE K(j) = {} BY <1>3
<1>4. ASSUME i <= j + 1, p[j + 1] \in S PROVE K(j + 1) = K(j) \cup {j + 1} /\ j + 1 \notin K(j)
  BY <1>4
<1>5. ASSUME i <= j + 1, p[j + 1] \notin S PROVE K(j + 1) = K(j) BY <1>5
<1>6. \A n : Count(p, S, i, n) = Cardinality(K(n)) BY DEF Count
<1> HIDE DEF K
<1>7. ASSUME i <= j + 1, p[j + 1] \in S PROVE Cardinality(K(j + 1)) = Cardinality(K(j)) + 1
  BY <1>1, <1>4, <1>7, FS_AddElement
<1> QED BY <1>2, <1>3, <1>5, <1>6, <1>7, FS_EmptySet

LEMMA CountSame ==
  ASSUME NEW p, NEW q, NEW S, NEW i, NEW j, \A k \in i .. j : q[k] = p[k]
  PROVE  Count(q, S, i, j) = Count(p, S, i, j)
<1>1. {k \in i .. j : q[k] \in S} = {k \in i .. j : p[k] \in S} OBVIOUS
<1> QED BY <1>1 DEF Count

\* as many as there are numbers to count them with
LEMMA ImageCount ==
  ASSUME NEW m \in Nat, NEW f, \A k, l \in 1 .. m : f[k] = f[l] => k = l
  PROVE  Cardinality({f[k] : k \in 1 .. m}) = m
<1> DEFINE S == {f[k] : k \in 1 .. m}  g == [k \in 1 .. m |-> f[k]]
<1>1. g \in [1 .. m -> S] OBVIOUS
<1>2. \A k, l \in 1 .. m : g[k] = g[l] => k = l OBVIOUS
<1>3. \A s \in S : \E k \in 1 .. m : g[k] = s OBVIOUS
<1>4. DOMAIN g = 1 .. m OBVIOUS
<1> HIDE DEF S, g
<1>5. g \in Bijection(1 .. m, S)
  BY <1>1, <1>2, <1>3, <1>4 DEF Bijection, Injection, Surjection, IsInjective
<1>6. ExistsBijection(1 .. m, S) BY <1>5 DEF ExistsBijection
<1>7. Cardinality(S) = m BY <1>6, FS_CountingElements
<1> QED BY <1>7 DEF S

-------------------------------------------------------------------------------
(***************************************************************************)
(* f enumerates the m names of p that the walk leaves, in their order;     *)
(* what Clean has made of p is these names; and the names that follow one  *)
(* of them outnumber the ".." that follow it by those that are left after  *)
(* it, so that the next ".." goes back over the last one.                  *)
(***************************************************************************)
Leaves(p, m, f) ==
  /\ f \in [1 .. m -> DOMAIN p]
  /\ \A k, l \in 1 .. m : k < l => f[k] < f[l]
  /\ Left(p) = {f[k] : k \in 1 .. m}
  /\ Clean(p) = [k \in 1 .. m |-> p[f[k]]]
  /\ \A k \in 1 .. m :
       Count(p, Name, f[k] + 1, Len(p)) = Count(p, {Up}, f[k] + 1, Len(p)) + (m - k)

LEMMA LeavesWalk ==
  ASSUME NEW p \in Seq(Element), NEW m \in Nat, NEW f, Leaves(p, m, f)
  PROVE  Clean(p) = Walk(p)
<1> DEFINE L == Left(p)  R(i) == {j \in L : j <= i}
<1>1. /\ f \in [1 .. m -> DOMAIN p]
      /\ \A k, l \in 1 .. m : k < l => f[k] < f[l]
      /\ L = {f[k] : k \in 1 .. m}
      /\ Clean(p) = [k \in 1 .. m |-> p[f[k]]]
  BY DEF Leaves
<1>2. \A k \in 1 .. m : f[k] \in Int
  <2>1. DOMAIN p = 1 .. Len(p) /\ Len(p) \in Nat BY LenProperties
  <2> QED BY <1>1, <2>1
<1>3. \A k, l \in 1 .. m : f[k] = f[l] => k = l BY <1>1, <1>2
<1>4. \A k, l \in 1 .. m : f[l] <= f[k] <=> l <= k BY <1>1, <1>2
<1> HIDE DEF L
<1>5. Cardinality(L) = m
  <2>1. Cardinality({f[k] : k \in 1 .. m}) = m BY <1>3, ImageCount
  <2> QED BY <1>1, <2>1
<1>6. ASSUME NEW k \in 1 .. m PROVE Cardinality(R(f[k])) = k
  <2>1. R(f[k]) = {f[l] : l \in 1 .. k} BY <1>1, <1>4
  <2>2. \A i, l \in 1 .. k : f[i] = f[l] => i = l BY <1>3
  <2>3. k \in Nat OBVIOUS
  <2> HIDE DEF R
  <2> QED BY <2>1, <2>2, <2>3, ImageCount
<1>7. ASSUME NEW k \in 1 .. m PROVE (CHOOSE i \in L : Cardinality(R(i)) = k) = f[k]
  <2> HIDE DEF R
  <2>1. f[k] \in L BY <1>1
  <2>2. \A i \in L : Cardinality(R(i)) = k => i = f[k] BY <1>1, <1>6
  <2> QED BY <1>6, <2>1, <2>2
<1>8. Walk(p) = [k \in 1 .. m |-> p[CHOOSE i \in L : Cardinality(R(i)) = k]]
  BY <1>5 DEF Walk, L
<1> HIDE DEF R
<1> QED BY <1>1, <1>7, <1>8

\* nothing is left of nothing
LEMMA LeavesNone == Leaves(<<>>, 0, <<>>)
<1>1. Len(<<>>) = 0 /\ DOMAIN <<>> = 1 .. 0 /\ 1 .. 0 = {} BY EmptySeq
<1>2. <<>> \in [1 .. 0 -> DOMAIN <<>>] BY <1>1
<1>3. Left(<<>>) = {} BY <1>1 DEF Left
<1>4. Clean(<<>>) = [k \in 1 .. 0 |-> <<>>[<<>>[k]]] BY CleanEmpty, <1>1
<1> QED BY <1>1, <1>2, <1>3, <1>4 DEF Leaves

LEMMA LeftIs ==
  ASSUME NEW p \in Seq(Element)
  PROVE  \A i : i \in Left(p) <=>
           /\ i \in 1 .. Len(p) /\ p[i] \in Name
           /\ \A j \in i + 1 .. Len(p) : Count(p, {Up}, i + 1, j) <= Count(p, Name, i + 1, j)
<1>1. DOMAIN p = 1 .. Len(p) BY LenProperties
<1> QED BY <1>1 DEF Left

\* q continues p, of length N, by one element
CountsOn(p, q, N, S, a) ==
  /\ \A j \in a .. N : Count(q, S, a, j) = Count(p, S, a, j)
  /\ Count(q, S, a, N + 1) = Count(p, S, a, N) + (IF q[N + 1] \in S THEN 1 ELSE 0)
  /\ Count(p, S, a, N) \in Nat

LEMMA CountAppend ==
  ASSUME NEW p, NEW q, NEW N \in Nat, \A k \in 1 .. N : q[k] = p[k],
         NEW S, NEW a \in 1 .. N + 1
  PROVE  CountsOn(p, q, N, S, a)
<1>1. a \in Nat /\ N \in Int /\ a <= N + 1 OBVIOUS
<1>2. ASSUME NEW j \in Int, j <= N PROVE Count(q, S, a, j) = Count(p, S, a, j)
  <2>1. \A k \in a .. j : q[k] = p[k] BY <1>1, <1>2
  <2> QED BY <2>1, CountSame
<1>3. Count(q, S, a, N + 1) = Count(q, S, a, N) + (IF q[N + 1] \in S THEN 1 ELSE 0)
  BY <1>1, CountIs
<1>4. Count(p, S, a, N) \in Nat BY <1>1, CountIs
<1> QED BY <1>1, <1>2, <1>3, <1>4 DEF CountsOn

\* what one more element does to the names that are left
LEMMA LeftAppend ==
  ASSUME NEW p \in Seq(Element), NEW e \in Element, NEW q, q = Append(p, e),
         NEW N, N = Len(p)
  PROVE  /\ N + 1 \in Left(q) <=> e \in Name
         /\ \A i \in 1 .. N :
              /\ Count(q, Name, i + 1, N + 1) =
                   Count(p, Name, i + 1, N) + (IF e \in Name THEN 1 ELSE 0)
              /\ Count(q, {Up}, i + 1, N + 1) =
                   Count(p, {Up}, i + 1, N) + (IF e = Up THEN 1 ELSE 0)
              /\ Count(p, Name, i + 1, N) \in Nat /\ Count(p, {Up}, i + 1, N) \in Nat
              /\ i \in Left(q) <=>
                   /\ i \in Left(p)
                   /\ Count(q, {Up}, i + 1, N + 1) <= Count(q, Name, i + 1, N + 1)
         /\ Left(q) \subseteq 1 .. N + 1 /\ Left(p) \subseteq 1 .. N
<1>1. /\ q \in Seq(Element) /\ Len(q) = N + 1 /\ q[N + 1] = e /\ N \in Nat
      /\ \A i \in 1 .. N : q[i] = p[i]
  BY AppendProperties, LenProperties
<1>2. /\ \A i : i \in Left(q) <=>
           /\ i \in 1 .. N + 1 /\ q[i] \in Name
           /\ \A j \in i + 1 .. N + 1 : Count(q, {Up}, i + 1, j) <= Count(q, Name, i + 1, j)
      /\ \A i : i \in Left(p) <=>
           /\ i \in 1 .. N /\ p[i] \in Name
           /\ \A j \in i + 1 .. N : Count(p, {Up}, i + 1, j) <= Count(p, Name, i + 1, j)
  BY <1>1, LeftIs
<1>3. N + 1 \in Left(q) <=> e \in Name
  <2>1. (N + 1) + 1 .. N + 1 = {} BY <1>1
  <2>2. N + 1 \in 1 .. N + 1 BY <1>1
  <2> QED BY <1>1, <1>2, <2>1, <2>2
<1>4. ASSUME NEW i \in 1 .. N
      PROVE  CountsOn(p, q, N, Name, i + 1) /\ CountsOn(p, q, N, {Up}, i + 1)
  <2>1. i + 1 \in 1 .. N + 1 BY <1>1
  <2> QED BY <1>1, <2>1, CountAppend
<1>5. ASSUME NEW i \in 1 .. N
      PROVE  i \in Left(q) <=>
               /\ i \in Left(p)
               /\ Count(q, {Up}, i + 1, N + 1) <= Count(q, Name, i + 1, N + 1)
  <2> DEFINE Ups(x, j) == Count(x, {Up}, i + 1, j)  Names(x, j) == Count(x, Name, i + 1, j)
  <2>1. i + 1 .. N + 1 = (i + 1 .. N) \cup {N + 1} BY <1>1
  <2>2. \A j \in i + 1 .. N : Ups(q, j) = Ups(p, j) BY <1>4 DEF CountsOn
  <2>3. \A j \in i + 1 .. N : Names(q, j) = Names(p, j) BY <1>4 DEF CountsOn
  <2>4. i \in 1 .. N + 1 /\ q[i] = p[i] BY <1>1
  <2>5. i \in Left(q) <=> p[i] \in Name /\ \A j \in i + 1 .. N + 1 : Ups(q, j) <= Names(q, j)
    BY <1>2, <2>4
  <2>6. i \in Left(p) <=> p[i] \in Name /\ \A j \in i + 1 .. N : Ups(p, j) <= Names(p, j)
    BY <1>2
  <2> HIDE DEF Ups, Names
  <2>7. i \in Left(q) <=> i \in Left(p) /\ Ups(q, N + 1) <= Names(q, N + 1)
    BY <2>1, <2>2, <2>3, <2>5, <2>6
  <2> QED BY <2>7 DEF Ups, Names
<1>6. Left(q) \subseteq 1 .. N + 1 /\ Left(p) \subseteq 1 .. N BY <1>2
<1>7. ASSUME NEW i \in 1 .. N
      PROVE  /\ Count(q, Name, i + 1, N + 1) =
                  Count(p, Name, i + 1, N) + (IF e \in Name THEN 1 ELSE 0)
             /\ Count(q, {Up}, i + 1, N + 1) =
                  Count(p, {Up}, i + 1, N) + (IF e = Up THEN 1 ELSE 0)
             /\ Count(p, Name, i + 1, N) \in Nat /\ Count(p, {Up}, i + 1, N) \in Nat
  <2>1. e \in {Up} <=> e = Up OBVIOUS
  <2> QED BY <1>1, <1>4, <2>1 DEF CountsOn
<1> QED BY <1>3, <1>5, <1>6, <1>7

LEMMA SeqIs ==
  ASSUME NEW S, NEW s \in Seq(S), NEW n, Len(s) = n, NEW h, \A k \in 1 .. n : s[k] = h[k]
  PROVE  s = [k \in 1 .. n |-> h[k]]
<1>1. s \in [1 .. n -> S] BY LenProperties
<1> QED BY <1>1

LEMMA LeavesAppend ==
  ASSUME NEW p \in Seq(Element), NEW e \in Element, NEW m \in Nat, NEW f, Leaves(p, m, f)
  PROVE  \E l \in Nat : \E g : Leaves(Append(p, e), l, g)
<1> DEFINE q == Append(p, e)  N == Len(p)
           Names(x, k, n) == Count(x, Name, f[k] + 1, n)
           Ups(x, k, n) == Count(x, {Up}, f[k] + 1, n)
<1>1. /\ q \in Seq(Element) /\ Len(q) = N + 1 /\ q[N + 1] = e /\ N \in Nat
      /\ \A i \in 1 .. N : q[i] = p[i]
      /\ DOMAIN p = 1 .. N /\ DOMAIN q = 1 .. N + 1
  <2>1. q \in Seq(Element) /\ Len(q) = N + 1 BY AppendProperties
  <2>2. DOMAIN p = 1 .. N /\ DOMAIN q = 1 .. N + 1 /\ N \in Nat BY <2>1, LenProperties
  <2> QED BY <2>1, <2>2, AppendProperties
<1>2. Clean(p) \in Seq(Name) /\ Clean(q) = Descend(Clean(p), e) BY CleanAppend
<1>3. /\ N + 1 \in Left(q) <=> e \in Name
      /\ \A i \in 1 .. N :
           /\ Count(q, Name, i + 1, N + 1) =
                Count(p, Name, i + 1, N) + (IF e \in Name THEN 1 ELSE 0)
           /\ Count(q, {Up}, i + 1, N + 1) =
                Count(p, {Up}, i + 1, N) + (IF e = Up THEN 1 ELSE 0)
           /\ Count(p, Name, i + 1, N) \in Nat /\ Count(p, {Up}, i + 1, N) \in Nat
           /\ i \in Left(q) <=>
                /\ i \in Left(p)
                /\ Count(q, {Up}, i + 1, N + 1) <= Count(q, Name, i + 1, N + 1)
      /\ Left(q) \subseteq 1 .. N + 1 /\ Left(p) \subseteq 1 .. N
  BY LeftAppend, ZenonT(60)
<1>4. /\ f \in [1 .. m -> 1 .. N]
      /\ \A k, l \in 1 .. m : k < l => f[k] < f[l]
      /\ Left(p) = {f[k] : k \in 1 .. m}
      /\ Clean(p) = [k \in 1 .. m |-> p[f[k]]]
      /\ \A k \in 1 .. m : Names(p, k, N) = Ups(p, k, N) + (m - k)
  BY <1>1 DEF Leaves
<1>5. /\ Len(Clean(p)) = m
      /\ \A k \in 1 .. m : Clean(p)[k] = q[f[k]]
  <2>1. Len(Clean(p)) \in Nat /\ DOMAIN Clean(p) = 1 .. Len(Clean(p)) BY <1>2, LenProperties
  <2>2. DOMAIN Clean(p) = 1 .. m BY <1>4
  <2>3. Len(Clean(p)) = m
    <3> DEFINE k == Len(Clean(p))
    <3>1. k \in Nat /\ 1 .. k = 1 .. m BY <2>1, <2>2
    <3> HIDE DEF k
    <3>2. CASE k < m
      <4>1. m \in 1 .. m /\ m \notin 1 .. k BY <3>1, <3>2
      <4> QED BY <3>1, <4>1
    <3>3. CASE m < k
      <4>1. k \in 1 .. k /\ k \notin 1 .. m BY <3>1, <3>3
      <4> QED BY <3>1, <4>1
    <3>4. k = m BY <3>1, <3>2, <3>3
    <3> QED BY <3>4 DEF k
  <2> QED BY <1>1, <1>4, <2>3
<1>6. \A k \in 1 .. m :
        /\ Names(q, k, N + 1) = Ups(p, k, N) + (m - k) + (IF e \in Name THEN 1 ELSE 0)
        /\ Ups(q, k, N + 1) = Ups(p, k, N) + (IF e = Up THEN 1 ELSE 0)
        /\ Ups(p, k, N) \in Nat
        /\ f[k] \in 1 .. N
        /\ f[k] \in Left(q) <=> Ups(q, k, N + 1) <= Names(q, k, N + 1)
  <2> SUFFICES ASSUME NEW k \in 1 .. m
               PROVE  /\ Names(q, k, N + 1) = Ups(p, k, N) + (m - k) + (IF e \in Name THEN 1 ELSE 0)
                      /\ Ups(q, k, N + 1) = Ups(p, k, N) + (IF e = Up THEN 1 ELSE 0)
                      /\ Ups(p, k, N) \in Nat
                      /\ f[k] \in 1 .. N
                      /\ f[k] \in Left(q) <=> Ups(q, k, N + 1) <= Names(q, k, N + 1)
    OBVIOUS
  <2>1. f[k] \in 1 .. N /\ f[k] \in Left(p) /\ Names(p, k, N) = Ups(p, k, N) + (m - k) BY <1>4
  <2>2. /\ Names(q, k, N + 1) = Names(p, k, N) + (IF e \in Name THEN 1 ELSE 0)
        /\ Ups(q, k, N + 1) = Ups(p, k, N) + (IF e = Up THEN 1 ELSE 0)
        /\ Names(p, k, N) \in Nat /\ Ups(p, k, N) \in Nat
        /\ f[k] \in Left(q) <=> Ups(q, k, N + 1) <= Names(q, k, N + 1)
    BY <1>3, <2>1
  <2> QED BY <2>1, <2>2
<1>7. \A i \in Left(q) : i = N + 1 \/ \E k \in 1 .. m : i = f[k]
  <2>1. \A i \in Left(q) : i = N + 1 \/ i \in 1 .. N BY <1>1, <1>3
  <2> QED BY <1>3, <1>4, <2>1
<1>8. \A k, l \in 1 .. m : k < l => f[k] < f[l] BY <1>4
<1>9. e \in Stay \/ e = Up \/ e \in Name BY DEF Element
<1>10. Up \notin Stay /\ \A n \in Name : n \notin Stay /\ n # Up BY Words
<1> HIDE DEF q, N, Names, Ups
\* what is left to show of l names, numbered by g
<1>11. ASSUME NEW l \in Nat, NEW g,
              g \in [1 .. l -> 1 .. N + 1], \A i, k \in 1 .. l : i < k => g[i] < g[k],
              Left(q) = {g[k] : k \in 1 .. l},
              Clean(q) \in Seq(Name), Len(Clean(q)) = l, \A k \in 1 .. l : Clean(q)[k] = q[g[k]],
              \A k \in 1 .. l : Count(q, Name, g[k] + 1, N + 1) =
                                  Count(q, {Up}, g[k] + 1, N + 1) + (l - k)
       PROVE  \E n \in Nat : \E h : Leaves(q, n, h)
  <2> DEFINE h == [k \in 1 .. l |-> q[g[k]]]
  <2>1. Clean(q) = [k \in 1 .. l |-> h[k]]
    <3>1. \A k \in 1 .. l : Clean(q)[k] = h[k] BY <1>11
    <3> HIDE DEF h
    <3> QED BY <1>11, <3>1, SeqIs
  <2>2. Clean(q) = [k \in 1 .. l |-> q[g[k]]] BY <2>1
  <2>3. Leaves(q, l, g) BY <1>1, <1>11, <2>2 DEF Leaves
  <2> QED BY <2>3
<1>12. CASE e \in Stay
  <2>1. e \notin Name /\ e # Up BY <1>10, <1>12
  <2>2. \A k \in 1 .. m : Names(q, k, N + 1) = Ups(q, k, N + 1) + (m - k) BY <1>6, <2>1
  <2>3. \A k \in 1 .. m : f[k] \in Left(q) BY <1>6, <2>1
  <2>4. Left(q) = {f[k] : k \in 1 .. m} BY <1>3, <1>7, <2>1, <2>3
  <2>5. Clean(q) = Clean(p) BY <1>2, <1>12, DescendIs
  <2>6. f \in [1 .. m -> 1 .. N + 1] BY <1>1, <1>4
  <2> QED BY <1>2, <1>5, <1>8, <1>11, <2>2, <2>4, <2>5, <2>6 DEF Names, Ups, q
<1>13. CASE e \in Name
  <2> DEFINE g == [k \in 1 .. m + 1 |-> IF k <= m THEN f[k] ELSE N + 1]
  <2>1. e # Up /\ m + 1 \in Nat BY <1>10, <1>13
  <2>2. /\ g \in [1 .. m + 1 -> 1 .. N + 1] /\ g[m + 1] = N + 1
        /\ \A k \in 1 .. m : g[k] = f[k]
        /\ \A k \in 1 .. m + 1 : k \in 1 .. m \/ k = m + 1
    BY <1>1, <1>4
  <2> HIDE DEF g
  <2>3. \A i, k \in 1 .. m + 1 : i < k => g[i] < g[k]
    <3>1. \A k \in 1 .. m : f[k] < N + 1 BY <1>1, <1>6
    <3> SUFFICES ASSUME NEW i \in 1 .. m + 1, NEW k \in 1 .. m + 1, i < k PROVE g[i] < g[k]
      OBVIOUS
    <3>2. i \in 1 .. m BY <2>2
    <3>3. CASE k \in 1 .. m BY <1>8, <2>2, <3>2, <3>3
    <3>4. CASE k = m + 1 BY <2>2, <3>1, <3>2, <3>4
    <3> QED BY <2>2, <3>3, <3>4
  <2>4. \A k \in 1 .. m : Names(q, k, N + 1) = Ups(q, k, N + 1) + ((m + 1) - k)
    <3> SUFFICES ASSUME NEW k \in 1 .. m
                 PROVE  Names(q, k, N + 1) = Ups(q, k, N + 1) + ((m + 1) - k)
      OBVIOUS
    <3>1. /\ Names(q, k, N + 1) = Ups(p, k, N) + (m - k) + 1
          /\ Ups(q, k, N + 1) = Ups(p, k, N) + 0
          /\ Ups(p, k, N) \in Nat
      BY <1>6, <1>13, <2>1
    <3> QED BY <3>1
  <2>5. \A k \in 1 .. m : f[k] \in Left(q) BY <1>6, <1>13, <2>1
  <2>6. Left(q) = {g[k] : k \in 1 .. m + 1} BY <1>3, <1>7, <1>13, <2>2, <2>5
  <2>7. Clean(q) = Append(Clean(p), e) BY <1>2, <1>13, DescendIs
  <2>8. /\ Clean(q) \in Seq(Name) /\ Len(Clean(q)) = m + 1 /\ Clean(q)[m + 1] = e
        /\ \A k \in 1 .. m : Clean(q)[k] = Clean(p)[k]
    BY <1>2, <1>5, <1>13, <2>7, AppendProperties
  <2>9. \A k \in 1 .. m + 1 : Clean(q)[k] = q[g[k]] BY <1>1, <1>5, <2>2, <2>8
  <2>10. \A k \in 1 .. m + 1 : Count(q, Name, g[k] + 1, N + 1) =
                                 Count(q, {Up}, g[k] + 1, N + 1) + ((m + 1) - k)
    <3>1. \A S : Count(q, S, N + 1 + 1, N + 1) = 0 BY <1>1, CountIs
    <3>2. \A k \in 1 .. m : Count(q, Name, g[k] + 1, N + 1) =
                              Count(q, {Up}, g[k] + 1, N + 1) + ((m + 1) - k)
      BY <2>2, <2>4 DEF Names, Ups
    <3>3. Count(q, Name, g[m + 1] + 1, N + 1) =
            Count(q, {Up}, g[m + 1] + 1, N + 1) + ((m + 1) - (m + 1))
      BY <2>2, <3>1
    <3> QED BY <2>2, <3>2, <3>3
  <2> DEFINE l == m + 1
  <2>11. l \in Nat /\ g \in [1 .. l -> 1 .. N + 1] BY <2>1, <2>2
  <2>12. \A i, k \in 1 .. l : i < k => g[i] < g[k] BY <2>3
  <2>13. Left(q) = {g[k] : k \in 1 .. l} BY <2>6
  <2>14. Len(Clean(q)) = l /\ \A k \in 1 .. l : Clean(q)[k] = q[g[k]] BY <2>8, <2>9
  <2>15. \A k \in 1 .. l : Count(q, Name, g[k] + 1, N + 1) =
                            Count(q, {Up}, g[k] + 1, N + 1) + (l - k)
    BY <2>10
  <2> HIDE DEF l
  <2> QED BY <1>11, <2>8, <2>11, <2>12, <2>13, <2>14, <2>15 DEF q
<1>14. CASE e = Up /\ m = 0
  <2>1. e \notin Name /\ 1 .. m = {} BY <1>10, <1>14
  <2>2. Left(q) = {f[k] : k \in 1 .. m} BY <1>3, <1>7, <2>1
  <2>3. Clean(p) = <<>> BY <1>2, <1>5, <1>14, EmptySeq
  <2>4. Clean(q) = Clean(p) BY <1>2, <1>14, <2>3, DescendIs
  <2>5. f \in [1 .. m -> 1 .. N + 1] BY <1>1, <1>4
  <2>6. \A k \in 1 .. m : FALSE BY <2>1
  <2> QED BY <1>2, <1>5, <1>8, <1>11, <2>2, <2>4, <2>5, <2>6 DEF q
<1>15. CASE e = Up /\ m # 0
  <2> DEFINE n == m - 1  g == [k \in 1 .. n |-> f[k]]
  <2>1. e \notin Name /\ n \in Nat /\ n + 1 = m BY <1>10, <1>15
  <2>2. /\ \A k \in 1 .. m : k \in 1 .. n \/ k = m
        /\ \A k \in 1 .. n : k \in 1 .. m /\ k # m
    BY <1>15
  <2>3. /\ g \in [1 .. n -> 1 .. N + 1] /\ \A k \in 1 .. n : g[k] = f[k]
    BY <1>1, <1>6, <2>2
  <2> HIDE DEF g, n
  <2>4. \A i, k \in 1 .. n : i < k => g[i] < g[k] BY <1>8, <2>2, <2>3
  <2>5. \A k \in 1 .. m : /\ Names(q, k, N + 1) = Ups(q, k, N + 1) + (n - k)
                          /\ f[k] \in Left(q) <=> k # m
    BY <1>6, <1>15, <2>1, SMTT(40)
  <2>6. Left(q) = {g[k] : k \in 1 .. n}
    <3>1. \A i \in Left(q) : \E k \in 1 .. n : i = g[k]
      <4> SUFFICES ASSUME NEW i \in Left(q) PROVE \E k \in 1 .. n : i = g[k] OBVIOUS
      <4>1. PICK k \in 1 .. m : i = f[k] BY <1>3, <1>7, <2>1
      <4>2. k # m BY <2>5, <4>1
      <4> QED BY <2>2, <2>3, <4>1, <4>2
    <3>2. \A k \in 1 .. n : g[k] \in Left(q) BY <2>2, <2>3, <2>5
    <3> QED BY <3>1, <3>2
  <2>7. Clean(p) # <<>>
    <3>1. Len(<<>>) = 0 BY EmptySeq
    <3> QED BY <1>5, <1>15, <3>1
  <2>8. Clean(q) = Front(Clean(p)) BY <1>2, <1>15, <2>7, DescendIs
  <2>9. /\ Clean(q) \in Seq(Name) /\ Len(Clean(q)) = n
        /\ \A k \in 1 .. n : Clean(q)[k] = Clean(p)[k]
    BY <1>2, <1>5, <2>7, <2>8, FrontLast, SMTT(40) DEF n
  <2>10. \A k \in 1 .. n : Clean(q)[k] = q[g[k]] BY <1>5, <2>2, <2>3, <2>9
  <2>11. \A k \in 1 .. n : Count(q, Name, g[k] + 1, N + 1) =
                             Count(q, {Up}, g[k] + 1, N + 1) + (n - k)
    BY <2>2, <2>3, <2>5 DEF Names, Ups
  <2> QED BY <1>11, <2>1, <2>3, <2>4, <2>6, <2>9, <2>10, <2>11 DEF q
<1> QED BY <1>9, <1>12, <1>13, <1>14, <1>15

\* Clean is the walk, for every path
LEMMA CleanWalks == ASSUME NEW p \in Seq(Element) PROVE Clean(p) = Walk(p)
<1> DEFINE T == {s \in Seq(Element) : \E m \in Nat : \E f : Leaves(s, m, f)}
<1>1. <<>> \in T BY LeavesNone, EmptySeq
<1>2. ASSUME NEW s \in Seq(Element), NEW e \in Element, s \in T PROVE Append(s, e) \in T
  BY <1>2, LeavesAppend, AppendProperties
<1> HIDE DEF T
<1>3. Seq(Element) \subseteq T BY <1>1, <1>2, SeqInduction
<1>4. \E m \in Nat : \E f : Leaves(p, m, f) BY <1>3 DEF T
<1> QED BY <1>4, LeavesWalk

\* Every path leads where walking it from the root does.
THEOREM LeadsWhereItWalks == Spec => []WalksThePath
<1>1. PathInv => WalksThePath BY CleanWalks DEF PathInv, WalksThePath
<1> QED BY <1>1, PathInit, PathNext, PTL DEF Spec

===============================================================================
