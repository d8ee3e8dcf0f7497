----------------------------- MODULE FsApiProofs -----------------------------
(***************************************************************************)
(* Proofs about FsApi, for any number of clients and any requests, however *)
(* their system calls interleave: what is below Root stays a tree of files *)
(* and directories, and a reader misses nothing that stayed.               *)
(***************************************************************************)
EXTENDS FsApi, SequenceTheorems, FiniteSetTheorems, WellFoundedInduction, TLAPS

-------------------------------------------------------------------------------
(* Paths, ordered by what is a prefix of what *)

LEMMA PrefixDef ==
  ASSUME NEW S, NEW p \in Seq(S), NEW s \in Seq(S)
  PROVE  IsPrefix(p, s) <=> Len(p) <= Len(s) /\ \A i \in 1 .. Len(p) : p[i] = s[i]
<1>1. Len(p) \in Nat /\ Len(s) \in Nat BY LenProperties
<1>2. SubSeq(p, 1, Len(p)) = p BY SubSeqFull
<1>3. CASE Len(p) <= Len(s)
  <2>1. \A i \in 1 .. Len(p) : s[i] \in S BY <1>1, <1>3, ElementOfSeq
  <2>2. /\ SubSeq(s, 1, Len(p)) \in Seq(S) /\ Len(SubSeq(s, 1, Len(p))) = Len(p)
        /\ \A i \in 1 .. Len(p) : SubSeq(s, 1, Len(p))[i] = s[i]
    BY <1>1, <2>1, SubSeqProperties
  <2>3. SubSeq(s, 1, Len(p)) = p <=> \A i \in 1 .. Len(p) : p[i] = s[i]
    <3>1. ASSUME \A i \in 1 .. Len(p) : p[i] = s[i] PROVE SubSeq(s, 1, Len(p)) = p
      BY <2>2, <3>1, SeqEqual
    <3> QED BY <2>2, <3>1
  <2> QED BY <1>2, <1>3, <2>3 DEF IsPrefix
<1> QED BY <1>3 DEF IsPrefix

LEMMA PrefixOrder ==
  ASSUME NEW S
  PROVE  /\ \A p \in Seq(S) : IsPrefix(p, p) /\ IsPrefix(<<>>, p)
         /\ \A p, q \in Seq(S) : IsPrefix(p, q) /\ IsPrefix(q, p) => p = q
         /\ \A p, q, s \in Seq(S) : IsPrefix(p, q) /\ IsPrefix(q, s) => IsPrefix(p, s)
         /\ \A p, q, s \in Seq(S) :
              IsPrefix(p, s) /\ IsPrefix(q, s) => IsPrefix(p, q) \/ IsPrefix(q, p)
<1> USE LenProperties
<1>1. ASSUME NEW p \in Seq(S) PROVE IsPrefix(p, p) /\ IsPrefix(<<>>, p)
  <2>1. Len(p) \in Nat BY LenProperties
  <2>2. IsPrefix(p, p) BY <2>1, PrefixDef
  <2> DEFINE e == <<>>
  <2>3. e \in Seq(S) /\ Len(e) = 0 BY EmptySeq
  <2> HIDE DEF e
  <2>4. Len(e) <= Len(p) /\ \A i \in 1 .. Len(e) : e[i] = p[i] BY <2>1, <2>3
  <2>5. IsPrefix(e, p) BY <2>3, <2>4, PrefixDef
  <2> QED BY <2>2, <2>5 DEF e
<1>2. ASSUME NEW p \in Seq(S), NEW q \in Seq(S), IsPrefix(p, q), IsPrefix(q, p) PROVE p = q
  <2>1. Len(p) = Len(q) /\ \A i \in 1 .. Len(p) : p[i] = q[i] BY <1>2, PrefixDef
  <2> QED BY <2>1, SeqEqual
<1>3. ASSUME NEW p \in Seq(S), NEW q \in Seq(S), NEW s \in Seq(S),
             IsPrefix(p, q), IsPrefix(q, s)
      PROVE  IsPrefix(p, s)
  <2>1. /\ Len(p) <= Len(q) /\ \A i \in 1 .. Len(p) : p[i] = q[i]
        /\ Len(q) <= Len(s) /\ \A i \in 1 .. Len(q) : q[i] = s[i]
    BY <1>3, PrefixDef
  <2>2. Len(p) \in Nat /\ Len(q) \in Nat /\ Len(s) \in Nat OBVIOUS
  <2>3. Len(p) <= Len(s) /\ \A i \in 1 .. Len(p) : p[i] = s[i] BY <2>1, <2>2
  <2> QED BY <2>3, PrefixDef
<1>4. ASSUME NEW p \in Seq(S), NEW q \in Seq(S), NEW s \in Seq(S),
             IsPrefix(p, s), IsPrefix(q, s)
      PROVE  IsPrefix(p, q) \/ IsPrefix(q, p)
  <2>1. /\ \A i \in 1 .. Len(p) : p[i] = s[i]
        /\ \A i \in 1 .. Len(q) : q[i] = s[i]
    BY <1>4, PrefixDef
  <2>2. Len(p) \in Nat /\ Len(q) \in Nat OBVIOUS
  <2>3. CASE Len(p) <= Len(q)
    <3>1. \A i \in 1 .. Len(p) : p[i] = q[i] BY <2>1, <2>2, <2>3
    <3> QED BY <2>3, <3>1, PrefixDef
  <2>4. CASE Len(q) <= Len(p)
    <3>1. \A i \in 1 .. Len(q) : q[i] = p[i] BY <2>1, <2>2, <2>4
    <3> QED BY <2>4, <3>1, PrefixDef
  <2> QED BY <2>2, <2>3, <2>4
<1> QED BY <1>1, <1>2, <1>3, <1>4

\* the first n elements of a path, its parent among them, are above it
LEMMA FirstNames ==
  ASSUME NEW S, NEW s \in Seq(S), NEW n \in 0 .. Len(s)
  PROVE  /\ SubSeq(s, 1, n) \in Seq(S) /\ Len(SubSeq(s, 1, n)) = n
         /\ IsPrefix(SubSeq(s, 1, n), s)
<1>1. Len(s) \in Nat BY LenProperties
<1>2. \A i \in 1 .. n : s[i] \in S BY <1>1, ElementOfSeq
<1> DEFINE t == SubSeq(s, 1, n)
<1>3. t \in Seq(S) /\ Len(t) = n /\ \A i \in 1 .. n : t[i] = s[i]
  BY <1>1, <1>2, SubSeqProperties
<1> HIDE DEF t
<1>4. IsPrefix(t, s) BY <1>1, <1>3, PrefixDef
<1> QED BY <1>3, <1>4 DEF t

LEMMA ParentIsAbove ==
  ASSUME NEW S, NEW s \in Seq(S), s # <<>>
  PROVE  /\ Parent(s) \in Seq(S) /\ Parent(s) = SubSeq(s, 1, Len(s) - 1)
         /\ Len(Parent(s)) = Len(s) - 1 /\ Len(s) - 1 \in 0 .. Len(s)
         /\ Parent(s) # s /\ IsPrefix(Parent(s), s)
         /\ \A q \in Seq(S) : IsPrefix(q, s) /\ q # s => IsPrefix(q, Parent(s))
<1>1. Len(s) \in Nat \ {0} BY EmptySeq
<1>2. Parent(s) = SubSeq(s, 1, Len(s) - 1) BY DEF Parent, Root, Front
<1>3. Len(s) - 1 \in 0 .. Len(s) BY <1>1
<1>4. Parent(s) \in Seq(S) /\ Len(Parent(s)) = Len(s) - 1 /\ IsPrefix(Parent(s), s)
  BY <1>2, <1>3, FirstNames
<1>5. Parent(s) # s BY <1>1, <1>4
<1>6. ASSUME NEW q \in Seq(S), IsPrefix(q, s), q # s PROVE IsPrefix(q, Parent(s))
  <2>1. Len(q) <= Len(s) /\ \A i \in 1 .. Len(q) : q[i] = s[i] BY <1>6, PrefixDef
  <2>2. Len(q) # Len(s) BY <1>6, <2>1, SeqEqual
  <2>3. Len(q) \in Nat BY LenProperties
  <2>4. \A i \in 1 .. Len(Parent(s)) : Parent(s)[i] = s[i] BY <1>4, PrefixDef, SMTT(40)
  <2>5. Len(q) <= Len(Parent(s)) /\ \A i \in 1 .. Len(q) : q[i] = Parent(s)[i]
    BY <1>1, <1>4, <2>1, <2>2, <2>3, <2>4
  <2> QED BY <1>4, <2>5, PrefixDef
<1> QED BY <1>2, <1>3, <1>4, <1>5, <1>6

\* a path strictly below q goes through a child of q
LEMMA ChildOnTheWay ==
  ASSUME NEW S, NEW q \in Seq(S), NEW s \in Seq(S), IsPrefix(q, s), q # s
  PROVE  \E n \in 1 .. Len(s) : /\ SubSeq(s, 1, n) # <<>>
                                /\ Parent(SubSeq(s, 1, n)) = q
<1>1. Len(q) \in Nat /\ Len(s) \in Nat BY LenProperties
<1>2. Len(q) <= Len(s) /\ \A i \in 1 .. Len(q) : q[i] = s[i] BY PrefixDef
<1>3. Len(q) # Len(s) BY <1>2, SeqEqual
<1> DEFINE n == Len(q) + 1  t == SubSeq(s, 1, n)
<1>4. n \in 1 .. Len(s) /\ n \in 0 .. Len(s) BY <1>1, <1>2, <1>3
<1>5. t \in Seq(S) /\ Len(t) = n /\ IsPrefix(t, s) BY <1>4, FirstNames
<1> HIDE DEF t
<1>6. t # <<>>
  <2>1. Len(t) # 0 BY <1>1, <1>5 DEF n
  <2> QED BY <2>1, EmptySeq
<1>7. /\ Parent(t) \in Seq(S) /\ Len(Parent(t)) = Len(t) - 1 /\ IsPrefix(Parent(t), t)
  BY <1>5, <1>6, ParentIsAbove
<1>8. IsPrefix(Parent(t), s) BY <1>5, <1>7, PrefixOrder
<1>9. Len(Parent(t)) = Len(q) BY <1>1, <1>5, <1>7 DEF n
<1>10. \A i \in 1 .. Len(q) : Parent(t)[i] = q[i] BY <1>2, <1>7, <1>8, <1>9, PrefixDef
<1>11. Parent(t) = q BY <1>7, <1>9, <1>10, SeqEqual
<1> QED BY <1>4, <1>6, <1>11 DEF t

\* the elements of a path that has been moved
HasMoved(p, q, s, w) ==
  /\ Len(w) = Len(q) + Len(s) - Len(p) /\ Len(p) <= Len(s)
  /\ \A i \in 1 .. Len(q) : w[i] = q[i]
  /\ \A i \in 1 .. Len(s) - Len(p) : w[Len(q) + i] = s[Len(p) + i]

LEMMA MovedElements ==
  ASSUME NEW S, NEW p \in Seq(S), NEW s \in Seq(S), NEW a \in Seq(S), IsPrefix(p, s)
  PROVE  Moved(p, a, s) \in Seq(S) /\ HasMoved(p, a, s, Moved(p, a, s))
<1> USE LenProperties
<1> DEFINE r == SubSeq(s, Len(p) + 1, Len(s))
<1>1. Len(p) \in Nat /\ Len(s) \in Nat /\ Len(p) <= Len(s) BY PrefixDef
<1>2. \A i \in Len(p) + 1 .. Len(s) : s[i] \in S BY <1>1, ElementOfSeq
<1>3. /\ r \in Seq(S)
      /\ Len(r) = IF Len(p) + 1 <= Len(s) THEN Len(s) - (Len(p) + 1) + 1 ELSE 0
      /\ \A i \in 1 .. Len(s) - (Len(p) + 1) + 1 : r[i] = s[Len(p) + 1 + i - 1]
  BY <1>1, <1>2, SubSeqProperties
<1>4. Len(r) = Len(s) - Len(p) /\ \A i \in 1 .. Len(r) : r[i] = s[Len(p) + i]
  BY <1>1, <1>3
<1> HIDE DEF r
<1>5. /\ a \o r \in Seq(S) /\ Len(a \o r) = Len(a) + Len(r)
      /\ \A i \in 1 .. Len(a) + Len(r) : (a \o r)[i] = IF i <= Len(a) THEN a[i] ELSE r[i - Len(a)]
  BY <1>3, ConcatProperties
<1>6. Len(a) \in Nat OBVIOUS
<1>7. Len(r) \in Nat BY <1>3
<1>8. \A i \in 1 .. Len(a) : (a \o r)[i] = a[i] BY <1>5, <1>6, <1>7
<1>9. ASSUME NEW i \in 1 .. Len(r) PROVE (a \o r)[Len(a) + i] = r[i]
  <2>1. /\ Len(a) + i \in 1 .. Len(a) + Len(r) /\ ~(Len(a) + i <= Len(a))
        /\ Len(a) + i - Len(a) = i
    BY <1>6, <1>7
  <2>2. (a \o r)[Len(a) + i] = r[Len(a) + i - Len(a)] BY <1>5, <2>1
  <2> QED BY <2>1, <2>2
<1>10. Len(a \o r) = Len(a) + Len(s) - Len(p) BY <1>1, <1>4, <1>5, <1>6
<1>11. Moved(p, a, s) = a \o r BY DEF Moved, r
<1> QED BY <1>1, <1>3, <1>4, <1>5, <1>8, <1>9, <1>10, <1>11 DEF r, HasMoved

\* moving a tree keeps its order, and can be undone
LEMMA MovedOrder ==
  ASSUME NEW S, NEW p \in Seq(S), NEW q \in Seq(S)
  PROVE  /\ \A s \in Seq(S) : IsPrefix(p, s) =>
              /\ Moved(p, q, s) \in Seq(S) /\ IsPrefix(q, Moved(p, q, s))
              /\ Moved(q, p, Moved(p, q, s)) = s
         /\ \A s, t \in Seq(S) : IsPrefix(p, s) /\ IsPrefix(s, t) =>
              IsPrefix(Moved(p, q, s), Moved(p, q, t))
         /\ Moved(p, q, p) = q
<1>2. ASSUME NEW s \in Seq(S), IsPrefix(p, s)
      PROVE  /\ IsPrefix(q, Moved(p, q, s)) /\ Moved(p, q, s) \in Seq(S)
             /\ Moved(q, p, Moved(p, q, s)) = s
  <2> DEFINE w == Moved(p, q, s)  u == Moved(q, p, w)
  <2>0. w = Moved(p, q, s) /\ u = Moved(q, p, w) OBVIOUS
  <2> HIDE DEF w, u
  <2>1. /\ w \in Seq(S) /\ Len(w) = Len(q) + Len(s) - Len(p) /\ Len(p) <= Len(s)
        /\ \A i \in 1 .. Len(q) : w[i] = q[i]
        /\ \A i \in 1 .. Len(s) - Len(p) : w[Len(q) + i] = s[Len(p) + i]
    <3>1. w \in Seq(S) /\ HasMoved(p, q, s, w) BY <1>2, <2>0, MovedElements
    <3> QED BY <3>1 DEF HasMoved
  <2>2. Len(p) \in Nat /\ Len(q) \in Nat /\ Len(s) \in Nat BY LenProperties
  <2>3. Len(q) <= Len(w) BY <2>1, <2>2
  <2>4. IsPrefix(q, w) BY <2>1, <2>3, PrefixDef
  <2>6. /\ u \in Seq(S) /\ Len(u) = Len(p) + Len(w) - Len(q)
        /\ \A i \in 1 .. Len(p) : u[i] = p[i]
        /\ \A i \in 1 .. Len(w) - Len(q) : u[Len(p) + i] = w[Len(q) + i]
    <3>1. u \in Seq(S) /\ HasMoved(q, p, w, u) BY <2>0, <2>1, <2>4, MovedElements
    <3> QED BY <3>1 DEF HasMoved
  <2>7. Len(w) - Len(q) = Len(s) - Len(p) /\ Len(u) = Len(s) BY <2>1, <2>2, <2>6
  <2>8. \A i \in 1 .. Len(p) : p[i] = s[i] BY <1>2, PrefixDef
  <2>9. \A i \in 1 .. Len(s) - Len(p) : u[Len(p) + i] = s[Len(p) + i] BY <2>1, <2>6, <2>7
  <2>10. ASSUME NEW i \in 1 .. Len(u) PROVE u[i] = s[i]
    <3>1. CASE i <= Len(p) BY <2>2, <2>6, <2>8, <3>1
    <3>2. CASE ~(i <= Len(p))
      <4>1. i - Len(p) \in 1 .. Len(s) - Len(p) /\ Len(p) + (i - Len(p)) = i
        BY <2>2, <2>7, <3>2
      <4> QED BY <2>9, <4>1
    <3> QED BY <3>1, <3>2
  <2>11. u = s BY <2>6, <2>7, <2>10, SeqEqual
  <2> QED BY <2>1, <2>4, <2>11 DEF u, w
<1>3. ASSUME NEW s \in Seq(S), NEW t \in Seq(S), IsPrefix(p, s), IsPrefix(s, t)
      PROVE  IsPrefix(Moved(p, q, s), Moved(p, q, t))
  <2> DEFINE w == Moved(p, q, s)  u == Moved(p, q, t)
  <2>0. IsPrefix(p, t) /\ w = Moved(p, q, s) /\ u = Moved(p, q, t) BY <1>3, PrefixOrder
  <2> HIDE DEF w, u
  <2>1. /\ w \in Seq(S) /\ Len(w) = Len(q) + Len(s) - Len(p) /\ Len(p) <= Len(s)
        /\ \A i \in 1 .. Len(q) : w[i] = q[i]
        /\ \A i \in 1 .. Len(s) - Len(p) : w[Len(q) + i] = s[Len(p) + i]
    <3>1. w \in Seq(S) /\ HasMoved(p, q, s, w) BY <1>3, <2>0, MovedElements
    <3> QED BY <3>1 DEF HasMoved
  <2>2. /\ u \in Seq(S) /\ Len(u) = Len(q) + Len(t) - Len(p)
        /\ \A i \in 1 .. Len(q) : u[i] = q[i]
        /\ \A i \in 1 .. Len(t) - Len(p) : u[Len(q) + i] = t[Len(p) + i]
    <3>1. u \in Seq(S) /\ HasMoved(p, q, t, u) BY <2>0, MovedElements
    <3> QED BY <3>1 DEF HasMoved
  <2>3. Len(p) \in Nat /\ Len(q) \in Nat /\ Len(s) \in Nat /\ Len(t) \in Nat BY LenProperties
  <2>4. Len(s) <= Len(t) /\ \A i \in 1 .. Len(s) : s[i] = t[i] BY <1>3, PrefixDef
  <2>5. Len(w) <= Len(u) BY <2>1, <2>2, <2>3, <2>4
  <2>6. ASSUME NEW i \in 1 .. Len(w) PROVE w[i] = u[i]
    <3>1. CASE i <= Len(q) BY <2>1, <2>2, <2>3, <3>1
    <3>2. CASE ~(i <= Len(q))
      <4> DEFINE k == i - Len(q)
      <4>1. /\ k \in 1 .. Len(s) - Len(p) /\ k \in 1 .. Len(t) - Len(p)
            /\ Len(q) + k = i /\ Len(p) + k \in 1 .. Len(s)
        BY <2>1, <2>3, <2>4, <3>2
      <4> HIDE DEF k
      <4>2. w[i] = s[Len(p) + k] /\ u[i] = t[Len(p) + k] BY <2>1, <2>2, <4>1
      <4> QED BY <2>4, <4>1, <4>2
    <3> QED BY <3>1, <3>2
  <2>7. IsPrefix(w, u) BY <2>1, <2>2, <2>5, <2>6, PrefixDef
  <2> QED BY <2>7 DEF w, u
<1>4. Moved(p, q, p) = q
  <2>1. Len(p) \in Nat BY LenProperties
  <2>2. SubSeq(p, Len(p) + 1, Len(p)) = <<>> BY <2>1, SubSeqEmpty
  <2> QED BY <2>2, ConcatEmptySeq DEF Moved
<1> QED BY <1>2, <1>3, <1>4

-------------------------------------------------------------------------------
(* The inductive invariant *)

\* v is a tree: what is above an entry is a directory, and no file has two names
IsTree(v) ==
  /\ v \in [DOMAIN v -> Ino \cup {DirIno}] /\ DOMAIN v \subseteq Path /\ IsFiniteSet(DOMAIN v)
  /\ Root \in DOMAIN v /\ v[Root] = DirIno
  /\ \A s \in DOMAIN v, q \in Path : IsPrefix(q, s) /\ q # s => q \in DOMAIN v /\ v[q] = DirIno
  /\ \A s, t \in DOMAIN v : v[s] # DirIno /\ v[s] = v[t] => s = t

\* RemoveAll never has Root on its stack, but for the entry that RefuseRoot looks at.
Names == Name \cup {""}
Removing(todo) ==
  /\ todo \in Seq([at : Seq(Names), listed : BOOLEAN]) /\ todo # <<>>
  /\ \A i \in 2 .. Len(todo) : todo[i].at # Root

\* the local variables of a handler, at each of its system calls
JobOK(j) ==
  /\ DOMAIN j = DOMAIN NoJob
  /\ j.at \in Path /\ j.dir \in Path /\ j.depth \in Nat
  /\ j.buf \in Seq(Blocks) /\ j.more \in Seq(Path)
  /\ j.fd \in Ino \cup {DirIno} /\ j.src \in Ino \cup {DirIno}

AtStep(l, r, j) ==
  /\ l \in {"source", "make", "mkdir"} => j.depth <= Len(j.dir)
  /\ l = "mkdir" => j.depth < Len(j.dir)
  /\ l \in {"lstat", "rename"} => r.op = "move"
  /\ l = "size" => j.src # DirIno
  /\ l = "remove" => Removing(j.todo)

Asked(r) == r = NoReq \/ \E q \in Requests : r = Resolved(q)

TreeInv ==
  /\ IsTree(tree) /\ data \in [Ino -> Seq(Blocks)]
  /\ pc = [c \in Client |-> pc[c]] /\ req = [c \in Client |-> req[c]]
  /\ job = [c \in Client |-> job[c]]
  /\ \A c \in Client : Asked(req[c]) /\ JobOK(job[c]) /\ AtStep(pc[c], req[c], job[c])

-------------------------------------------------------------------------------
(* What the system calls make of a tree *)

LEMMA PathOrder ==
  /\ \A p \in Path : IsPrefix(p, p) /\ IsPrefix(Root, p)
  /\ \A p, q \in Path : IsPrefix(p, q) /\ IsPrefix(q, p) => p = q
  /\ \A p, q, s \in Path : IsPrefix(p, q) /\ IsPrefix(q, s) => IsPrefix(p, s)
  /\ \A p, q, s \in Path : IsPrefix(p, s) /\ IsPrefix(q, s) => IsPrefix(p, q) \/ IsPrefix(q, p)
BY PrefixOrder, FsAssumption DEF Root

LEMMA PathParent ==
  /\ Root \in Path /\ Parent(Root) = Root
  /\ \A s \in Path : s # Root =>
       /\ Parent(s) \in Path /\ Parent(s) # s /\ IsPrefix(Parent(s), s)
       /\ \A q \in Path : IsPrefix(q, s) /\ q # s => IsPrefix(q, Parent(s))
<1>1. Root \in Path /\ Parent(Root) = Root BY FsAssumption DEF Root, Parent
<1>2. ASSUME NEW s \in Path, s # Root
      PROVE  /\ Parent(s) \in Path /\ Parent(s) # s /\ IsPrefix(Parent(s), s)
             /\ \A q \in Path : IsPrefix(q, s) /\ q # s => IsPrefix(q, Parent(s))
  <2>1. s \in Seq(Name) /\ s # <<>> /\ Path \subseteq Seq(Name) BY <1>2, FsAssumption DEF Root
  <2>2. /\ Parent(s) = SubSeq(s, 1, Len(s) - 1) /\ Len(s) - 1 \in 0 .. Len(s)
        /\ Parent(s) # s /\ IsPrefix(Parent(s), s)
        /\ \A q \in Seq(Name) : IsPrefix(q, s) /\ q # s => IsPrefix(q, Parent(s))
    BY <2>1, ParentIsAbove
  <2>3. Parent(s) \in Path BY <2>2, FsAssumption
  <2> QED BY <2>1, <2>2, <2>3
<1> QED BY <1>1, <1>2

LEMMA PrefixInPath ==
  ASSUME NEW s \in Path, NEW b \in Seq(Name), IsPrefix(b, s)
  PROVE  b \in Path
<1>1. s \in Seq(Name) /\ Len(s) \in Nat /\ Len(b) \in Nat BY FsAssumption, LenProperties
<1>2. Len(b) <= Len(s) /\ SubSeq(b, 1, Len(b)) = SubSeq(s, 1, Len(b)) BY DEF IsPrefix
<1>3. SubSeq(b, 1, Len(b)) = b BY SubSeqFull
<1>4. Len(b) \in 0 .. Len(s) BY <1>1, <1>2
<1> QED BY <1>2, <1>3, <1>4, FsAssumption

\* a new directory, a new file, or one that is opened again
LEMMA TreeGrows ==
  ASSUME NEW v, IsTree(v), NEW p \in Path, NEW x \in Ino \cup {DirIno},
         Parent(p) \in DOMAIN v, v[Parent(p)] = DirIno,
         p \in DOMAIN v => (v[p] = DirIno <=> x = DirIno),
         x # DirIno => \A q \in DOMAIN v : v[q] = x => q = p
  PROVE  IsTree(With(v, p, x))
<1> DEFINE w == With(v, p, x)
<1>1. /\ DOMAIN w = DOMAIN v \cup {p}
      /\ \A s \in DOMAIN w : w[s] = IF s = p THEN x ELSE v[s]
  BY DEF With
<1> HIDE DEF w
<1>2. w \in [DOMAIN w -> Ino \cup {DirIno}] /\ DOMAIN w \subseteq Path
  BY <1>1 DEF IsTree, With, w
<1>3. IsFiniteSet(DOMAIN w) BY <1>1, FS_AddElement DEF IsTree
<1>4. p = Root => x = DirIno BY DEF IsTree
<1>5. Root \in DOMAIN w /\ w[Root] = DirIno BY <1>1, <1>4 DEF IsTree
<1>6. ASSUME NEW s \in DOMAIN w, NEW q \in Path, IsPrefix(q, s), q # s
      PROVE  q \in DOMAIN w /\ w[q] = DirIno
  <2>1. CASE s \in DOMAIN v
    <3>1. q \in DOMAIN v /\ v[q] = DirIno BY <1>6, <2>1 DEF IsTree
    <3> QED BY <1>1, <3>1
  <2>2. CASE s \notin DOMAIN v
    <3>1. s = p /\ s # Root BY <1>1, <2>2 DEF IsTree
    <3>2. IsPrefix(q, Parent(p)) /\ Parent(p) # p BY <1>6, <3>1, PathParent
    <3>3. q \in DOMAIN v /\ v[q] = DirIno BY <3>2 DEF IsTree
    <3> QED BY <1>1, <1>6, <3>1, <3>3
  <2> QED BY <2>1, <2>2
<1>7. ASSUME NEW s \in DOMAIN w, NEW t \in DOMAIN w, w[s] # DirIno, w[s] = w[t] PROVE s = t
  BY <1>1, <1>7 DEF IsTree
<1> QED BY <1>2, <1>3, <1>5, <1>6, <1>7 DEF IsTree, w

\* a file or an empty directory that is removed
LEMMA TreeShrinks ==
  ASSUME NEW v, IsTree(v), NEW p \in Path, p # Root
  PROVE  IsTree(Without(v, p))
<1> DEFINE w == Without(v, p)
<1>1. /\ DOMAIN w = {s \in DOMAIN v : ~IsPrefix(p, s)}
      /\ \A s \in DOMAIN w : w[s] = v[s]
      /\ w \in [DOMAIN w -> Ino \cup {DirIno}] /\ DOMAIN w \subseteq Path
  BY DEF IsTree, Without, Within
<1> HIDE DEF w
<1>2. IsFiniteSet(DOMAIN w) BY <1>1, FS_Subset DEF IsTree
<1>3. Root \in DOMAIN w /\ w[Root] = DirIno
  <2>1. ~IsPrefix(p, Root) BY PathOrder, PathParent
  <2> QED BY <1>1, <2>1 DEF IsTree
<1>4. ASSUME NEW s \in DOMAIN w, NEW q \in Path, IsPrefix(q, s), q # s
      PROVE  q \in DOMAIN w /\ w[q] = DirIno
  <2>1. q \in DOMAIN v /\ v[q] = DirIno BY <1>1, <1>4 DEF IsTree
  <2>2. ~IsPrefix(p, q) BY <1>1, <1>4, PathOrder
  <2> QED BY <1>1, <2>1, <2>2
<1>5. \A s, t \in DOMAIN w : w[s] # DirIno /\ w[s] = w[t] => s = t BY <1>1 DEF IsTree
<1> QED BY <1>1, <1>2, <1>3, <1>4, <1>5 DEF IsTree, w

\* a directory without children has nothing below it, and a file never has
LEMMA NothingBelow ==
  ASSUME NEW v, IsTree(v), NEW q \in Path,
         (q \in DOMAIN v /\ v[q] # DirIno) \/ ChildrenIn(v, q) = {}
  PROVE  \A s \in DOMAIN v : IsPrefix(q, s) => s = q
<1> SUFFICES ASSUME NEW s \in DOMAIN v, IsPrefix(q, s), s # q PROVE FALSE OBVIOUS
<1>1. q \in DOMAIN v /\ v[q] = DirIno /\ s \in Path BY DEF IsTree
<1>2. ChildrenIn(v, q) = {} BY <1>1
<1>3. q \in Seq(Name) /\ s \in Seq(Name) BY <1>1, FsAssumption
<1>4. PICK n \in 1 .. Len(s) : SubSeq(s, 1, n) # <<>> /\ Parent(SubSeq(s, 1, n)) = q
  BY <1>3, ChildOnTheWay
<1> DEFINE t == SubSeq(s, 1, n)
<1>5. t \in Path /\ IsPrefix(t, s)
  <2>1. Len(s) \in Nat BY <1>3, LenProperties
  <2>2. n \in 0 .. Len(s) BY <2>1
  <2> QED BY <1>1, <1>3, <2>2, FirstNames, FsAssumption
<1>6. t \in DOMAIN v BY <1>5 DEF IsTree
<1> QED BY <1>2, <1>4, <1>6 DEF ChildrenIn, Root

\* a file or a directory that is moved to where Rename lets it go
LEMMA TreeMoves ==
  ASSUME NEW v, IsTree(v), NEW p \in DOMAIN v, NEW q \in Path,
         Parent(q) \in DOMAIN v, v[Parent(q)] = DirIno, ~IsPrefix(p, q),
         \A s \in Path : IsPrefix(p, s) => Moved(p, q, s) \in Path,
         v[p] = DirIno => ~(q \in DOMAIN v /\ v[q] # DirIno) /\ ChildrenIn(v, q) = {},
         v[p] # DirIno => ~(q \in DOMAIN v /\ v[q] = DirIno)
  PROVE  IsTree(Relocated(v, p, q))
<1>1. p \in Path /\ p # q /\ p # Root /\ DOMAIN v \subseteq Path
  BY PathOrder, PathParent DEF IsTree
<1>2. \A s \in DOMAIN v : IsPrefix(q, s) => s = q
  <2>1. CASE (q \in DOMAIN v /\ v[q] # DirIno) \/ ChildrenIn(v, q) = {}
    BY <2>1, NothingBelow
  <2>2. CASE q \notin DOMAIN v
    BY <2>2 DEF IsTree
  <2> QED BY <2>1, <2>2
<1>3. ~IsPrefix(q, p) BY <1>1, <1>2
<1> DEFINE w == Relocated(v, p, q)
           moved == {s \in DOMAIN v : IsPrefix(p, s)}
           stay == {s \in DOMAIN v : ~IsPrefix(p, s)}
           from(s) == IF IsPrefix(q, s) THEN Moved(q, p, s) ELSE s
<1>4. Path \subseteq Seq(Name) BY FsAssumption
<1>5. \A s \in Path : IsPrefix(p, s) =>
        Moved(p, q, s) \in Path /\ IsPrefix(q, Moved(p, q, s)) /\ Moved(q, p, Moved(p, q, s)) = s
  BY <1>1, <1>4, MovedOrder
<1>6. \A s \in Path : IsPrefix(q, s) =>
        Moved(q, p, s) \in Seq(Name) /\ IsPrefix(p, Moved(q, p, s)) /\ Moved(p, q, Moved(q, p, s)) = s
  BY <1>1, <1>4, MovedOrder
<1>7. \A s, t \in Path : IsPrefix(q, s) /\ IsPrefix(s, t) =>
        IsPrefix(Moved(q, p, s), Moved(q, p, t))
  BY <1>1, <1>4, MovedOrder
<1>8. /\ DOMAIN w = stay \cup {Moved(p, q, m) : m \in moved}
      /\ \A s \in stay : ~IsPrefix(q, s) => w[s] = v[s]
      /\ \A s \in DOMAIN w : IsPrefix(q, s) => w[s] = v[Moved(q, p, s)]
  <2>1. /\ DOMAIN Without(v, p) = stay
        /\ \A s \in stay : Without(v, p)[s] = v[s]
    BY <1>1 DEF Without, Within
  <2>2. DOMAIN w = stay \cup {Moved(p, q, m) : m \in moved}
    BY <2>1 DEF Relocated, Moved
  <2>3. \A s \in DOMAIN w : w[s] = IF IsPrefix(q, s) THEN v[Moved(q, p, s)] ELSE Without(v, p)[s]
    BY DEF Relocated, Moved
  <2> QED BY <2>1, <2>2, <2>3
<1> HIDE DEF w
\* where an entry was before
<1>9. ASSUME NEW s \in DOMAIN w
      PROVE  /\ s \in Path /\ from(s) \in DOMAIN v /\ w[s] = v[from(s)]
             /\ IsPrefix(q, s) <=> IsPrefix(p, from(s))
             /\ IsPrefix(q, s) => s = Moved(p, q, from(s))
  <2>1. CASE s \in stay /\ ~IsPrefix(q, s) BY <1>1, <1>8, <2>1
  <2>2. CASE s \in stay /\ IsPrefix(q, s)
    <3>1. s = q /\ q \in Path BY <1>2, <2>2
    <3>2. Moved(q, p, q) = p BY <1>1, <1>4, MovedOrder
    <3>3. from(s) = p /\ Moved(p, q, p) = q BY <1>1, <1>4, <2>2, <3>1, <3>2, MovedOrder
    <3> QED BY <1>1, <1>8, <2>2, <3>1, <3>2, <3>3, PathOrder
  <2>3. CASE s \notin stay
    <3>1. PICK m \in moved : s = Moved(p, q, m) BY <1>8, <2>3
    <3>2. s \in Path /\ IsPrefix(q, s) /\ Moved(q, p, s) = m BY <1>1, <1>5, <3>1
    <3> QED BY <1>8, <3>1, <3>2
  <2> QED BY <2>1, <2>2, <2>3
<1> HIDE DEF from
<1>10. w \in [DOMAIN w -> Ino \cup {DirIno}] /\ DOMAIN w \subseteq Path
  <2>1. \A s \in DOMAIN w : w[s] \in Ino \cup {DirIno} BY <1>9 DEF IsTree
  <2>2. w = [s \in DOMAIN w |-> w[s]] BY DEF w, Relocated
  <2> QED BY <1>9, <2>1, <2>2
<1>11. IsFiniteSet(DOMAIN w)
  <2>1. IsFiniteSet(stay) /\ IsFiniteSet(moved) BY FS_Subset DEF IsTree
  <2> DEFINE img == {Moved(p, q, m) : m \in moved}
             f == [m \in moved |-> Moved(p, q, m)]
  <2>2. f \in Surjection(moved, img) BY DEF Surjection
  <2> HIDE DEF f, img
  <2>3. IsFiniteSet(img) BY <2>1, <2>2, FS_Surjection
  <2> QED BY <1>8, <2>1, <2>3, FS_Union, ZenonT(60) DEF img
<1>12. Root \in DOMAIN w /\ w[Root] = DirIno
  <2>1. ~IsPrefix(p, Root) BY <1>1, PathOrder, PathParent
  <2>2. ~IsPrefix(q, Root) BY <1>3, PathOrder, PathParent, <1>1
  <2> QED BY <1>8, <2>1, <2>2 DEF IsTree
<1>13. ASSUME NEW s \in DOMAIN w, NEW a \in Path, IsPrefix(a, s), a # s
       PROVE  a \in DOMAIN w /\ w[a] = DirIno
  <2>1. CASE ~IsPrefix(q, s)
    <3>1. s \in stay /\ from(s) = s BY <1>8, <1>9, <2>1 DEF from
    <3>2. a \in DOMAIN v /\ v[a] = DirIno BY <1>13, <3>1 DEF IsTree
    <3>3. ~IsPrefix(p, a) /\ ~IsPrefix(q, a) BY <1>1, <1>9, <1>13, <2>1, <3>1, PathOrder
    <3> QED BY <1>8, <3>2, <3>3
  <2>2. CASE IsPrefix(q, s) /\ IsPrefix(q, a)
    <3> DEFINE b == Moved(q, p, a)  t == Moved(q, p, s)
    <3>1. /\ t = from(s) /\ t \in DOMAIN v /\ IsPrefix(b, t) /\ IsPrefix(p, b)
          /\ b \in Seq(Name) /\ Moved(p, q, b) = a
      BY <1>6, <1>7, <1>9, <1>13, <2>2 DEF from
    <3>2. b # t BY <1>9, <1>13, <2>2, <3>1
    <3>3. b \in Path
      <4>1. t \in Path /\ t \in Seq(Name) BY <1>1, <1>4, <3>1
      <4> QED BY <3>1, <4>1, PrefixInPath
    <3>4. b \in DOMAIN v /\ v[b] = DirIno BY <3>1, <3>2, <3>3 DEF IsTree
    <3>5. a \in DOMAIN w BY <1>8, <3>1, <3>4
    <3> QED BY <1>8, <2>2, <3>4, <3>5
  <2>3. CASE IsPrefix(q, s) /\ ~IsPrefix(q, a)
    <3>1. IsPrefix(a, q) /\ a # q BY <1>9, <1>13, <2>3, PathOrder
    <3>2. a = Parent(q) \/ (IsPrefix(a, Parent(q)) /\ a # Parent(q))
      BY <3>1, PathParent, PathOrder
    <3>3. a \in DOMAIN v /\ v[a] = DirIno BY <3>2 DEF IsTree
    <3>4. ~IsPrefix(p, a) BY <1>1, <3>1, PathOrder
    <3> QED BY <1>8, <2>3, <3>3, <3>4
  <2> QED BY <2>1, <2>2, <2>3
<1>14. ASSUME NEW s \in DOMAIN w, NEW t \in DOMAIN w, w[s] # DirIno, w[s] = w[t] PROVE s = t
  <2>1. from(s) = from(t) BY <1>9, <1>14 DEF IsTree
  <2> QED BY <1>9, <2>1 DEF from
<1> QED BY <1>10, <1>11, <1>12, <1>13, <1>14 DEF IsTree, w

-------------------------------------------------------------------------------
(* The handlers *)

LEMMA RequestOK ==
  ASSUME NEW q \in Requests, NEW r, r = Resolved(q)
  PROVE  /\ r.op \in {"write", "upload", "mkdir", "delete", "patch", "copy", "move"} \cup Reads
         /\ r.text \in Seq(Blocks) /\ r.path \in Path /\ r.to \in Path
         /\ r.op \in {"write", "upload"} => r.files \in Seq(Path) \ {<<>>}
         /\ r.op = "move" /\ ~IsPrefix(r.path, r.to) =>
              \A s \in Path : IsPrefix(r.path, s) => Moved(r.path, r.to, s) \in Path
<1>1. r.op = q.op /\ r.text = q.text BY RequestsAssumption DEF Resolved, NoReq
<1>2. /\ q.text \in Seq(Blocks)
      /\ q.op \in {"write", "upload", "mkdir", "delete", "patch", "copy", "move"} \cup Reads
      /\ r.path \in Path /\ r.to \in Path
      /\ q.op \in {"write", "upload"} => r.files \in Seq(Path) \ {<<>>}
  BY RequestsAssumption
<1>3. q.op = "move" /\ ~IsPrefix(r.path, r.to) =>
        \A s \in Path : IsPrefix(r.path, s) => Moved(r.path, r.to, s) \in Path
  BY RequestsAssumption DEF Moved
<1> QED BY <1>1, <1>2, <1>3

LEMMA AskedOK ==
  ASSUME NEW r, Asked(r)
  PROVE  /\ r.text \in Seq(Blocks) /\ r.path \in Path /\ r.to \in Path
         /\ r.op = "move" /\ ~IsPrefix(r.path, r.to) =>
              \A s \in Path : IsPrefix(r.path, s) => Moved(r.path, r.to, s) \in Path
<1>1. CASE r = NoReq
  BY <1>1, FsAssumption, EmptySeq DEF NoReq, Root
<1>2. CASE \E q \in Requests : r = Resolved(q) BY <1>2, RequestOK
<1> QED BY <1>1, <1>2 DEF Asked

LEMMA NoJobOK == JobOK(NoJob)
BY FsAssumption, EmptySeq DEF JobOK, NoJob, Root

LEMMA TargetOK ==
  ASSUME NEW r, r.text \in Seq(Blocks), NEW p \in Path, NEW j, j = Target(r, p)
  PROVE  JobOK(j) /\ j.depth = Len(j.dir)
<1>1. Parent(p) \in Path BY PathParent
<1>2. Len(Parent(p)) \in Nat BY <1>1, FsAssumption, LenProperties
<1> QED BY <1>1, <1>2, FsAssumption, EmptySeq DEF JobOK, Target, NoJob, Root

\* a step of one client
LEMMA StepOf ==
  ASSUME TreeInv, NEW c \in Client, NEW l, NEW j,
         IsTree(tree'), data' \in [Ino -> Seq(Blocks)], req' = req,
         pc' = [pc EXCEPT ![c] = l], job' = [job EXCEPT ![c] = j],
         JobOK(j), AtStep(l, req[c], j)
  PROVE  TreeInv'
<1>1. /\ pc' = [d \in Client |-> pc'[d]] /\ req' = [d \in Client |-> req'[d]]
      /\ job' = [d \in Client |-> job'[d]]
  BY DEF TreeInv
<1>2. ASSUME NEW d \in Client PROVE Asked(req'[d]) /\ JobOK(job'[d]) /\ AtStep(pc'[d], req'[d], job'[d])
  BY DEF TreeInv
<1> QED BY <1>1, <1>2 DEF TreeInv

\* the last step of a client
LEMMA LastStepOf ==
  ASSUME TreeInv, NEW c \in Client, IsTree(tree'), data' \in [Ino -> Seq(Blocks)], req' = req,
         pc' = [pc EXCEPT ![c] = "answered"], job' = [job EXCEPT ![c] = NoJob]
  PROVE  TreeInv'
<1>1. AtStep("answered", req[c], NoJob) BY DEF AtStep
<1> QED BY <1>1, StepOf, NoJobOK

\* a step that makes no change to files or directories
LEMMA ReadStepOf ==
  ASSUME TreeInv, NEW c \in Client, NEW l, NEW j, UNCHANGED <<tree, data, req>>,
         pc' = [pc EXCEPT ![c] = l], job' = [job EXCEPT ![c] = j],
         JobOK(j), AtStep(l, req[c], j)
  PROVE  TreeInv'
BY StepOf DEF TreeInv

LEMMA FinishOf ==
  ASSUME TreeInv, NEW c \in Client, UNCHANGED <<tree, data, req>>, NEW s, NEW b,
         FinishWith(c, s, b) \/ Finish(c, s)
  PROVE  TreeInv'
BY LastStepOf DEF TreeInv, FinishWith, Finish, Answer, AnswerWith, Goto

\* what is left to list or to visit says nothing about the tree
LEMMA GoOnOf ==
  ASSUME TreeInv, NEW c \in Client, UNCHANGED <<tree, data, req>>, NEW rest, NEW found,
         GoOn(c, rest, found), pc[c] # "remove"
  PROVE  TreeInv'
<1>1. CASE rest = <<>> BY <1>1, FinishOf DEF GoOn
<1>2. CASE rest # <<>>
  <2> DEFINE j == [job[c] EXCEPT !.todo = rest, !.found = found]
  <2>1. JobOK(job[c]) /\ AtStep(pc[c], req[c], job[c]) BY DEF TreeInv
  <2>2. JobOK(j) BY <2>1 DEF JobOK, NoJob
  <2>3. AtStep(pc[c], req[c], j) BY <2>1 DEF AtStep, JobOK, NoJob
  <2>4. job' = [job EXCEPT ![c] = j] /\ pc' = [pc EXCEPT ![c] = pc[c]]
    BY <1>2 DEF GoOn, TreeInv
  <2> HIDE DEF j
  <2> QED BY <2>1, <2>2, <2>3, <2>4, ReadStepOf
<1> QED BY <1>1, <1>2

\* MkdirAll has made its last directory
LEMMA MadeDirsOf ==
  ASSUME TreeInv, NEW c \in Client, IsTree(tree'), data' = data, req' = req, MadeDirs(c)
  PROVE  TreeInv'
<1>1. data' \in [Ino -> Seq(Blocks)] BY DEF TreeInv
<1>2. CASE req[c].op = "mkdir"
  BY <1>1, <1>2, LastStepOf DEF MadeDirs, Finish, Answer, AnswerWith, Goto
<1>3. CASE req[c].op # "mkdir"
  <2> DEFINE l == IF req[c].op = "move" THEN "lstat" ELSE "open"
  <2>1. pc' = [pc EXCEPT ![c] = l] /\ job' = [job EXCEPT ![c] = job[c]]
    BY <1>3 DEF MadeDirs, Goto, TreeInv
  <2>2. JobOK(job[c]) BY DEF TreeInv
  <2>3. AtStep(l, req[c], job[c]) BY DEF AtStep
  <2> HIDE DEF l
  <2> QED BY <1>1, <2>1, <2>2, <2>3, StepOf
<1> QED BY <1>2, <1>3

LEMMA JobOf ==
  ASSUME TreeInv, NEW c \in Client
  PROVE  /\ JobOK(job[c]) /\ AtStep(pc[c], req[c], job[c]) /\ Asked(req[c])
         /\ req[c].text \in Seq(Blocks) /\ req[c].path \in Path /\ req[c].to \in Path
BY AskedOK DEF TreeInv

LEMMA StatStep ==
  ASSUME TreeInv, NEW c \in Client, Stat(c)
  PROVE  TreeInv'
<1> DEFINE d == job[c].depth  p == SubSeq(job[c].dir, 1, d)
<1>1. JobOK(job[c]) /\ d \in Nat /\ d <= Len(job[c].dir) /\ pc[c] = "make"
  BY JobOf DEF Stat, AtStep, JobOK
<1>2. UNCHANGED <<tree, data, req>> BY DEF Stat, history
<1>3. IsTree(tree') BY <1>2 DEF TreeInv
<1>4. CASE p \notin DOMAIN tree /\ job' = [job EXCEPT ![c].depth = d - 1] /\ UNCHANGED pc
  <2> DEFINE j == [job[c] EXCEPT !.depth = d - 1]
  <2>1. d # 0
    <3>1. d = 0 => p = Root BY SubSeqEmpty DEF Root
    <3> QED BY <1>4, <3>1 DEF TreeInv, IsTree
  <2>2. d - 1 \in Nat /\ d - 1 <= Len(job[c].dir)
    <3>1. Len(job[c].dir) \in Nat BY <1>1, FsAssumption, LenProperties DEF JobOK
    <3> QED BY <1>1, <2>1, <3>1
  <2>3. JobOK(j) /\ j.depth = d - 1 /\ j.dir = job[c].dir BY <1>1, <2>2 DEF JobOK, NoJob
  <2>4. job' = [job EXCEPT ![c] = j] /\ pc' = [pc EXCEPT ![c] = "make"]
    BY <1>1, <1>4 DEF TreeInv
  <2>5. AtStep("make", req[c], j) BY <2>2, <2>3 DEF AtStep
  <2> HIDE DEF j
  <2> QED BY <1>2, <2>3, <2>4, <2>5, ReadStepOf
<1>5. CASE Finish(c, "error") BY <1>2, <1>5, FinishOf
<1>6. CASE MadeDirs(c) BY <1>2, <1>3, <1>6, MadeDirsOf
<1>7. CASE d < Len(job[c].dir) /\ Goto(c, "mkdir") /\ UNCHANGED job
  <2>1. AtStep("mkdir", req[c], job[c]) BY <1>1, <1>7 DEF AtStep
  <2>2. job' = [job EXCEPT ![c] = job[c]] /\ pc' = [pc EXCEPT ![c] = "mkdir"]
    BY <1>7 DEF Goto, TreeInv
  <2> QED BY <1>1, <1>2, <2>1, <2>2, ReadStepOf
<1> QED BY <1>4, <1>5, <1>6, <1>7 DEF Stat

\* the path that Mkdir makes next
LEMMA MkdirPath ==
  ASSUME TreeInv, NEW c \in Client, pc[c] = "mkdir"
  PROVE  LET d == job[c].depth + 1 IN
         /\ SubSeq(job[c].dir, 1, d) \in Path
         /\ d \in Nat /\ d <= Len(job[c].dir) /\ Len(job[c].dir) \in Nat
<1> DEFINE d == job[c].depth + 1  dir == job[c].dir
<1>1. dir \in Path /\ job[c].depth \in Nat /\ job[c].depth < Len(dir)
  BY JobOf DEF AtStep, JobOK
<1>2. Len(dir) \in Nat BY <1>1, FsAssumption, LenProperties
<1>3. d \in 0 .. Len(dir) BY <1>1, <1>2
<1> QED BY <1>1, <1>2, <1>3, FsAssumption

LEMMA MkdirStep ==
  ASSUME TreeInv, NEW c \in Client, Mkdir(c)
  PROVE  TreeInv'
<1> DEFINE d == job[c].depth + 1  p == SubSeq(job[c].dir, 1, d)
<1>1. pc[c] = "mkdir" /\ data' = data /\ req' = req /\ JobOK(job[c]) BY JobOf DEF Mkdir
<1>2. p \in Path /\ d \in Nat /\ d <= Len(job[c].dir) /\ Len(job[c].dir) \in Nat
  BY <1>1, MkdirPath
<1> HIDE DEF p
<1>3. CASE ~IsDir(Parent(p)) \/ IsFile(p)
  <2>1. Finish(c, Missing(View, p)) /\ UNCHANGED tree BY <1>3 DEF Mkdir, p
  <2> QED BY <1>1, <2>1, FinishOf
<1>4. CASE ~(~IsDir(Parent(p)) \/ IsFile(p))
  <2>1. tree' = With(tree, p, DirIno) BY <1>4 DEF Mkdir, p
  <2>2. IsTree(tree') BY <1>2, <1>4, <2>1, TreeGrows DEF IsDir, IsFile, TreeInv
  <2>3. CASE MadeDirs(c) BY <1>1, <2>2, <2>3, MadeDirsOf
  <2>4. CASE d # Len(job[c].dir) /\ job' = [job EXCEPT ![c].depth = d] /\ UNCHANGED pc
    <3> DEFINE j == [job[c] EXCEPT !.depth = d]
    <3>1. JobOK(j) /\ j.depth = d /\ j.dir = job[c].dir BY <1>1, <1>2 DEF JobOK, NoJob
    <3>2. AtStep("mkdir", req[c], j) BY <1>2, <2>4, <3>1 DEF AtStep
    <3>3. job' = [job EXCEPT ![c] = j] /\ pc' = [pc EXCEPT ![c] = "mkdir"]
      BY <1>1, <2>4 DEF TreeInv
    <3>4. data' \in [Ino -> Seq(Blocks)] BY <1>1 DEF TreeInv
    <3> HIDE DEF j
    <3> QED BY <1>1, <2>2, <3>1, <3>2, <3>3, <3>4, StepOf
  <2> QED BY <1>4, <2>3, <2>4 DEF Mkdir, p
<1> QED BY <1>3, <1>4

LEMMA OpenStep ==
  ASSUME TreeInv, NEW c \in Client, Open(c)
  PROVE  TreeInv'
<1> DEFINE p == job[c].at
<1>1. pc[c] = "open" /\ req' = req /\ JobOK(job[c]) /\ p \in Path
  BY JobOf DEF Open, JobOK
<1>2. CASE UNCHANGED <<tree, data>> /\ \E s : Finish(c, s)
  BY <1>1, <1>2, FinishOf
<1>3. CASE /\ IsDir(Parent(p)) /\ ~IsDir(p)
           /\ \E i \in IF IsFile(p) THEN {tree[p]} ELSE Ino \ InUse :
                /\ tree' = With(tree, p, i)
                /\ data' = Truncated(i)
                /\ job' = [job EXCEPT ![c].fd = i]
           /\ Goto(c, "fill")
  <2>1. PICK i \in IF IsFile(p) THEN {tree[p]} ELSE Ino \ InUse :
          tree' = With(tree, p, i) /\ data' = Truncated(i) /\ job' = [job EXCEPT ![c].fd = i]
    BY <1>3
  <2>2. i \in Ino /\ i # DirIno
    BY FsAssumption DEF TreeInv, IsTree, IsFile
  <2>3. \A q \in DOMAIN tree : tree[q] = i => q = p
    <3>1. CASE IsFile(p)
      <4>1. i = tree[p] /\ p \in DOMAIN tree BY <3>1 DEF IsFile
      <4> QED BY <2>2, <4>1 DEF TreeInv, IsTree
    <3>2. CASE ~IsFile(p)
      <4>1. i \notin InUse BY <3>2
      <4>2. \A q \in DOMAIN tree : tree[q] # i BY <4>1 DEF InUse, Range
      <4> QED BY <4>2
    <3> QED BY <3>1, <3>2
  <2>4. IsTree(tree')
    <3>1. p \in DOMAIN tree => tree[p] # DirIno BY <1>3 DEF IsDir
    <3> QED BY <1>1, <1>3, <2>1, <2>2, <2>3, <3>1, TreeGrows DEF TreeInv, IsDir
  <2>5. data' \in [Ino -> Seq(Blocks)]
    <3>1. <<>> \in Seq(Blocks) BY EmptySeq
    <3> QED BY <2>1, <3>1 DEF Truncated, TreeInv
  <2> DEFINE j == [job[c] EXCEPT !.fd = i]
  <2>6. JobOK(j) BY <1>1, <2>2 DEF JobOK, NoJob
  <2>7. AtStep("fill", req[c], j) BY DEF AtStep
  <2>8. job' = [job EXCEPT ![c] = j] /\ pc' = [pc EXCEPT ![c] = "fill"]
    BY <1>3, <2>1 DEF Goto
  <2> HIDE DEF j
  <2> QED BY <1>1, <2>4, <2>5, <2>6, <2>7, <2>8, StepOf
<1> QED BY <1>2, <1>3 DEF Open

LEMMA OverlayType ==
  ASSUME NEW S, NEW t \in Seq(S), NEW old \in Seq(S)
  PROVE  Overlay(t, old) \in Seq(S)
<1>1. Len(t) \in Nat /\ Len(old) \in Nat BY LenProperties
<1>2. \A i \in Len(t) + 1 .. Len(old) : old[i] \in S BY <1>1, ElementOfSeq
<1>3. SubSeq(old, Len(t) + 1, Len(old)) \in Seq(S) BY <1>1, <1>2, SubSeqProperties
<1> QED BY <1>3, ConcatProperties DEF Overlay

LEMMA FillStep ==
  ASSUME TreeInv, NEW c \in Client, Fill(c)
  PROVE  TreeInv'
<1> DEFINE j == job[c]
           copies == req[c].op = "copy"
           bytes == IF ~copies THEN j.buf ELSE IF j.src = DirIno THEN <<>> ELSE data[j.src]
<1>1. tree' = tree /\ req' = req /\ JobOK(j) /\ data \in [Ino -> Seq(Blocks)] /\ IsTree(tree')
  BY JobOf DEF Fill, TreeInv
<1>2. bytes \in Seq(Blocks)
  <2>1. <<>> \in Seq(Blocks) BY EmptySeq
  <2> QED BY <1>1, <2>1 DEF JobOK
<1>3. data' \in [Ino -> Seq(Blocks)]
  <2>1. data' = [data EXCEPT ![j.fd] = Overlay(bytes, data[j.fd])] BY DEF Fill
  <2>2. j.fd \in Ino => Overlay(bytes, data[j.fd]) \in Seq(Blocks) BY <1>1, <1>2, OverlayType
  <2> HIDE DEF bytes
  <2> QED BY <1>1, <2>1, <2>2
<1>4. CASE j.more # <<>> /\ NextFile(c)
  <2>1. Head(j.more) \in Path /\ Tail(j.more) \in Seq(Path)
    BY <1>1, <1>4, HeadTailProperties DEF JobOK
  <2> DEFINE k == Target(req[c], Head(j.more))  l == [k EXCEPT !.more = Tail(j.more)]
  <2>2. JobOK(k) /\ k.depth = Len(k.dir) BY <2>1, JobOf, TargetOK
  <2>3. job' = [job EXCEPT ![c] = l] /\ pc' = [pc EXCEPT ![c] = "make"]
    BY <1>4 DEF NextFile, Goto
  <2> HIDE DEF k
  <2>4. JobOK(l) /\ l.depth = k.depth /\ l.dir = k.dir BY <2>1, <2>2 DEF JobOK, NoJob
  <2>5. Len(k.dir) \in Nat BY <2>2, FsAssumption, LenProperties DEF JobOK
  <2>6. AtStep("make", req[c], l) BY <2>2, <2>4, <2>5 DEF AtStep
  <2> HIDE DEF l
  <2> QED BY <1>1, <1>3, <2>3, <2>4, <2>6, StepOf
<1>5. CASE \E s : Finish(c, s)
  BY <1>1, <1>3, <1>5, LastStepOf DEF Finish, Answer, AnswerWith, Goto
<1> QED BY <1>4, <1>5 DEF Fill

LEMMA OpenSourceStep ==
  ASSUME TreeInv, NEW c \in Client, OpenSource(c)
  PROVE  TreeInv'
<1> DEFINE p == req[c].path  o == req[c].op
           l == CASE o = "copy" -> "make" [] o = "read" -> "send" [] OTHER -> "size"
           j == [job[c] EXCEPT !.src = tree[p]]
<1>1. UNCHANGED <<tree, data, req>> /\ JobOK(job[c]) BY JobOf DEF OpenSource, history
<1>2. CASE \E s : Finish(c, s) BY <1>1, <1>2, FinishOf
<1>3. CASE /\ p \in DOMAIN tree /\ ~(IsDir(p) /\ o # "copy")
           /\ job' = [job EXCEPT ![c].src = tree[p]] /\ Goto(c, l)
  <2>1. tree[p] \in Ino \cup {DirIno} BY <1>3 DEF TreeInv, IsTree
  <2>2. JobOK(j) /\ j.depth = job[c].depth /\ j.dir = job[c].dir BY <1>1, <2>1 DEF JobOK, NoJob
  <2>3. job' = [job EXCEPT ![c] = j] /\ pc' = [pc EXCEPT ![c] = l] BY <1>3 DEF Goto
  <2>4. AtStep(l, req[c], j)
    <3>1. l \in {"make", "send", "size"} OBVIOUS
    <3>2. job[c].depth <= Len(job[c].dir) BY JobOf DEF AtStep, OpenSource
    <3>3. l = "size" => j.src # DirIno
      <4>1. l = "size" => o # "copy" OBVIOUS
      <4>2. l = "size" => ~IsDir(p) BY <1>3, <4>1
      <4>3. j.src = tree[p] BY <1>1 DEF JobOK, NoJob
      <4> QED BY <1>3, <4>2, <4>3 DEF IsDir
    <3> QED BY <3>1, <3>2, <3>3, <2>2 DEF AtStep
  <2> HIDE DEF j, l
  <2> QED BY <1>1, <2>2, <2>3, <2>4, ReadStepOf
<1> QED BY <1>2, <1>3 DEF OpenSource

LEMMA ReplaceType ==
  ASSUME NEW S, NEW t \in Seq(S), NEW old, NEW new \in Seq(S), Cardinality(Places(t, old)) = 1
  PROVE  Replace(t, old, new) \in Seq(S)
<1> DEFINE i == CHOOSE i \in Places(t, old) : TRUE
<1>1. Places(t, old) # {}
  <2>1. Cardinality({}) = 0 BY FS_EmptySet
  <2>2. ASSUME Places(t, old) = {} PROVE FALSE
    <3>1. Cardinality(Places(t, old)) = Cardinality({}) BY <2>2, Zenon
    <3> QED BY <2>1, <3>1
  <2> QED BY <2>2
<1>2. i \in 1 .. Len(t) BY <1>1 DEF Places
<1> HIDE DEF i
<1>3. Len(t) \in Nat BY LenProperties
<1>4. \A k \in 1 .. Len(t) : t[k] \in S BY ElementOfSeq
<1>5. SubSeq(t, 1, i - 1) \in Seq(S)
  <2>1. \A k \in 1 .. i - 1 : t[k] \in S BY <1>2, <1>3, <1>4
  <2> QED BY <1>2, <1>3, <2>1, SubSeqProperties
<1>6. SubSeq(t, i + 1, Len(t)) \in Seq(S)
  <2>1. \A k \in i + 1 .. Len(t) : t[k] \in S BY <1>2, <1>3, <1>4
  <2> QED BY <1>2, <1>3, <2>1, SubSeqProperties
<1>7. SubSeq(t, 1, i - 1) \o new \in Seq(S) BY <1>5, ConcatProperties
<1>8. SubSeq(t, 1, i - 1) \o new \o SubSeq(t, i + 1, Len(t)) \in Seq(S)
  BY <1>6, <1>7, ConcatProperties
<1> QED BY <1>8 DEF Replace, i

LEMMA ReadOldStep ==
  ASSUME TreeInv, NEW c \in Client, ReadOld(c)
  PROVE  TreeInv'
<1> DEFINE p == req[c].path  t == data[tree[p]]
           new == Replace(t, req[c].old, req[c].text)
           j == [job[c] EXCEPT !.buf = new]
<1>1. UNCHANGED <<tree, data, req>> /\ JobOK(job[c]) BY JobOf DEF ReadOld, history
<1>2. CASE \E s : Finish(c, s) BY <1>1, <1>2, FinishOf
<1>3. CASE /\ p \in DOMAIN tree /\ ~IsDir(p) /\ Cardinality(Places(t, req[c].old)) = 1
           /\ job' = [job EXCEPT ![c].buf = new] /\ Goto(c, "open")
  <2>1. t \in Seq(Blocks) BY <1>3 DEF TreeInv, IsTree, IsDir
  <2>2. new \in Seq(Blocks) BY <1>3, <2>1, JobOf, ReplaceType
  <2>3. JobOK(j) BY <1>1, <2>2 DEF JobOK, NoJob
  <2>4. job' = [job EXCEPT ![c] = j] /\ pc' = [pc EXCEPT ![c] = "open"] BY <1>3 DEF Goto
  <2>5. AtStep("open", req[c], j) BY DEF AtStep
  <2> HIDE DEF j
  <2> QED BY <1>1, <2>3, <2>4, <2>5, ReadStepOf
<1> QED BY <1>2, <1>3 DEF ReadOld

LEMMA LstatStep ==
  ASSUME TreeInv, NEW c \in Client, Lstat(c)
  PROVE  TreeInv'
<1>1. UNCHANGED <<tree, data, req>> /\ JobOK(job[c]) BY JobOf DEF Lstat, history
<1>2. CASE \E s : Finish(c, s) BY <1>1, <1>2, FinishOf
<1>3. CASE Goto(c, "rename") /\ UNCHANGED job
  <2>1. AtStep("rename", req[c], job[c]) BY JobOf DEF AtStep, Lstat
  <2>2. job' = [job EXCEPT ![c] = job[c]] /\ pc' = [pc EXCEPT ![c] = "rename"]
    BY <1>3 DEF Goto, TreeInv
  <2> QED BY <1>1, <2>1, <2>2, ReadStepOf
<1> QED BY <1>2, <1>3 DEF Lstat

\* the handlers that only read
LEMMA SimpleSteps ==
  ASSUME TreeInv, NEW c \in Client, RefuseRoot(c) \/ StatPath(c) \/ Chmod(c) \/ Send(c) \/ Info(c)
  PROVE  TreeInv'
<1>1. UNCHANGED <<tree, data, req>> BY DEF RefuseRoot, StatPath, Chmod, Send, Info, Look, history
<1>2. CASE RefuseRoot(c) \/ StatPath(c) \/ Chmod(c) \/ Send(c)
  <2>1. (\E s : Finish(c, s)) \/ \E s, b : FinishWith(c, s, b)
    BY <1>2 DEF RefuseRoot, StatPath, Chmod, Send, Look
  <2> QED BY <1>1, <2>1, FinishOf
<1>3. CASE Info(c)
  <2>1. pc[c] # "remove" /\ \E rest, found : GoOn(c, rest, found) BY <1>3 DEF Info
  <2> QED BY <1>1, <2>1, GoOnOf
<1> QED BY <1>2, <1>3

LEMMA MeasureStep ==
  ASSUME TreeInv, NEW c \in Client, Measure(c)
  PROVE  TreeInv'
<1> DEFINE n == Len(data[job[c].src])  j == [job[c] EXCEPT !.depth = n]
<1>1. UNCHANGED <<tree, data, req>> /\ JobOK(job[c]) BY JobOf DEF Measure, history
<1>2. n \in Nat
  <2>1. job[c].src \in Ino BY JobOf DEF AtStep, JobOK, Measure
  <2> QED BY <2>1, LenProperties DEF TreeInv
<1>3. JobOK(j) BY <1>1, <1>2 DEF JobOK, NoJob
<1>4. job' = [job EXCEPT ![c] = j] /\ pc' = [pc EXCEPT ![c] = "send"] BY DEF Measure, Goto
<1>5. AtStep("send", req[c], j) BY DEF AtStep
<1> HIDE DEF j
<1> QED BY <1>1, <1>3, <1>4, <1>5, ReadStepOf

\* the handlers that go through a directory
LEMMA WalkSteps ==
  ASSUME TreeInv, NEW c \in Client, ReadDir(c) \/ Walk(c) \/ Visit(c)
  PROVE  TreeInv'
<1>1. UNCHANGED <<tree, data, req>> /\ JobOK(job[c]) BY JobOf DEF ReadDir, Walk, Visit, history
<1>2. CASE \E s, b : FinishWith(c, s, b) \/ Finish(c, s) BY <1>1, <1>2, FinishOf
<1>3. CASE \E todo : job' = [job EXCEPT ![c].todo = todo] /\ (Goto(c, "info") \/ Goto(c, "visit"))
  <2>1. PICK todo : job' = [job EXCEPT ![c].todo = todo] /\ (Goto(c, "info") \/ Goto(c, "visit"))
    BY <1>3
  <2> DEFINE j == [job[c] EXCEPT !.todo = todo]
  <2>2. JobOK(j) BY <1>1 DEF JobOK, NoJob
  <2>3. AtStep("info", req[c], j) /\ AtStep("visit", req[c], j) BY DEF AtStep
  <2>4. job' = [job EXCEPT ![c] = j] BY <2>1
  <2> HIDE DEF j
  <2>5. CASE Goto(c, "info") BY <1>1, <2>2, <2>3, <2>4, <2>5, ReadStepOf DEF Goto
  <2>6. CASE Goto(c, "visit") BY <1>1, <2>2, <2>3, <2>4, <2>6, ReadStepOf DEF Goto
  <2> QED BY <2>1, <2>5, <2>6
<1>4. CASE pc[c] # "remove" /\ \E rest, found : GoOn(c, rest, found)
  BY <1>1, <1>4, GoOnOf
<1>5. CASE ReadDir(c) BY <1>2, <1>3, <1>5 DEF ReadDir
<1>6. CASE Walk(c) BY <1>2, <1>3, <1>6 DEF Walk
<1>7. CASE Visit(c)
  <2>1. pc[c] # "remove" /\ \E rest, found : GoOn(c, rest, found)
    BY <1>7 DEF Visit
  <2> QED BY <1>4, <2>1
<1> QED BY <1>5, <1>6, <1>7

\* as many elements as there were
LEMMA SameLength ==
  ASSUME NEW S, NEW n \in Nat, NEW u \in [1 .. n -> S]
  PROVE  u \in Seq(S) /\ Len(u) = n /\ (n # 0 => u # <<>>)
<1>1. u \in Seq(S) BY SeqDef
<1>2. DOMAIN u = 1 .. n OBVIOUS
<1>3. Len(u) \in Nat /\ DOMAIN u = 1 .. Len(u) BY <1>1, LenProperties
<1>4. \A a, b \in Nat : 1 .. a = 1 .. b => a = b
  <2>1. ASSUME NEW a \in Nat, NEW b \in Nat, 1 .. a = 1 .. b, a < b PROVE FALSE
    <3>1. b \in 1 .. b /\ b \notin 1 .. a BY <2>1
    <3> QED BY <2>1, <3>1
  <2>2. ASSUME NEW a \in Nat, NEW b \in Nat, 1 .. a = 1 .. b PROVE ~(a < b) /\ ~(b < a)
    BY <2>1, <2>2
  <2> QED BY <2>2
<1>5. Len(u) = n BY <1>2, <1>3, <1>4
<1> QED BY <1>1, <1>5, EmptySeq

\* where something is, of what RemoveAll has listed, once p has become q: never Root
LEMMA NowOK ==
  ASSUME NEW S, Nowhere \in Seq(S), Nowhere # Root,
         NEW p \in Seq(S), NEW q \in Seq(S), NEW s \in Seq(S)
  PROVE  Now(p, q, s) \in Seq(S) /\ (s # Root => Now(p, q, s) # Root)
<1> DEFINE w == Moved(p, q, s)
<1>2. CASE ~IsPrefix(p, Parent(s)) BY <1>2 DEF Now
<1>3. CASE IsPrefix(p, Parent(s)) /\ s = Root
  <2>1. IsPrefix(p, s) BY <1>3 DEF Parent
  <2>2. w \in Seq(S) BY <2>1, MovedElements
  <2> QED BY <1>3, <2>2 DEF Now
<1>4. CASE IsPrefix(p, Parent(s)) /\ s # Root
  <2>1. /\ Parent(s) \in Seq(S) /\ IsPrefix(Parent(s), s)
        /\ Len(Parent(s)) = Len(s) - 1
    BY <1>4, ParentIsAbove DEF Root
  <2>2. IsPrefix(p, s) BY <1>4, <2>1, PrefixOrder
  <2>3. Len(p) <= Len(Parent(s)) BY <1>4, <2>1, PrefixDef
  <2>4. w \in Seq(S) /\ HasMoved(p, q, s, w) BY <2>2, MovedElements
  <2> HIDE DEF w
  <2>5. Len(w) = Len(q) + Len(s) - Len(p) BY <2>4 DEF HasMoved
  <2>6. Len(p) \in Nat /\ Len(q) \in Nat /\ Len(s) \in Nat BY LenProperties
  <2>7. Len(w) # 0 BY <2>1, <2>3, <2>5, <2>6
  <2>8. w # Root BY <2>4, <2>7, EmptySeq DEF Root
  <2> QED BY <1>4, <2>4, <2>8 DEF w, Now
<1> QED BY <1>2, <1>3, <1>4

LEMMA NowhereIsAPath == Nowhere \in Seq(Names) /\ Nowhere # Root
<1> DEFINE e == ""
<1>1. e \in Names BY DEF Names
<1> HIDE DEF e
<1>2. <<e>> \in Seq(Names) /\ <<e>> # <<>> BY <1>1
<1> QED BY <1>2 DEF Nowhere, Root, e

LEMMA FollowsOK ==
  ASSUME NEW S, S = Names, NEW p \in Seq(S), NEW q \in Seq(S),
         NEW l, NEW r, NEW j, JobOK(j), AtStep(l, r, j)
  PROVE  JobOK(Follows(j, p, q)) /\ AtStep(l, r, Follows(j, p, q))
<1> DEFINE t == j.todo
           todo == [i \in DOMAIN t |-> [t[i] EXCEPT !.at = Now(p, q, t[i].at)]]
           k == [j EXCEPT !.todo = todo]
           E == [at : Seq(S), listed : BOOLEAN]
<1>1. Follows(j, p, q) = IF j.todo = <<>> \/ ~j.todo[1].listed THEN j ELSE k
  BY DEF Follows
<1>2. \A s \in Seq(S) : Now(p, q, s) \in Seq(S) /\ (s # Root => Now(p, q, s) # Root)
  BY NowOK, NowhereIsAPath
<1>3. JobOK(k) /\ k.todo = todo /\ k.depth = j.depth /\ k.dir = j.dir /\ k.src = j.src
  BY DEF JobOK, NoJob
<1>4. ASSUME Removing(t) PROVE Removing(todo)
  <2>1. t \in Seq(E) /\ t # <<>> /\ \A i \in 2 .. Len(t) : t[i].at # Root
    BY <1>4 DEF Removing
  <2> HIDE DEF t
  <2>2. /\ Len(t) \in Nat /\ DOMAIN t = 1 .. Len(t)
        /\ \A i \in 1 .. Len(t) : t[i] \in E
    BY <2>1, LenProperties, ElementOfSeq
  <2>3. \A i \in 1 .. Len(t) : todo[i] \in E /\ todo[i].at = Now(p, q, t[i].at)
    BY <1>2, <2>2
  <2>4. todo \in [1 .. Len(t) -> E] BY <2>2, <2>3
  <2> HIDE DEF todo, E
  <2>5. todo \in Seq(E) /\ Len(todo) = Len(t) /\ (Len(t) # 0 => todo # <<>>)
    BY <2>2, <2>4, SameLength
  <2>6. Len(t) # 0 BY <2>1, EmptySeq
  <2>7. 2 .. Len(t) \subseteq 1 .. Len(t) BY <2>2
  <2>8. \A i \in 2 .. Len(todo) : todo[i].at # Root
    <3> SUFFICES ASSUME NEW i \in 2 .. Len(t) PROVE todo[i].at # Root BY <2>5
    <3>1. t[i].at \in Seq(S) /\ t[i].at # Root BY <2>1, <2>2, <2>7 DEF E
    <3> QED BY <1>2, <2>3, <2>7, <3>1
  <2> QED BY <2>5, <2>6, <2>8 DEF Removing, E
<1> HIDE DEF todo, k
<1>5. AtStep(l, r, k) BY <1>3, <1>4 DEF AtStep
<1> QED BY <1>1, <1>3, <1>5

\* a step of one client that moves or removes what others have listed
LEMMA MovingStepOf ==
  ASSUME TreeInv, NEW c \in Client, NEW l, NEW j, NEW p \in Seq(Names), NEW q \in Seq(Names),
         IsTree(tree'), data' = data, req' = req, pc' = [pc EXCEPT ![c] = l],
         job' = [d \in Client |-> IF d = c THEN j ELSE Follows(job[d], p, q)],
         JobOK(j), AtStep(l, req[c], j)
  PROVE  TreeInv'
<1>1. ASSUME NEW d \in Client
      PROVE  Asked(req'[d]) /\ JobOK(job'[d]) /\ AtStep(pc'[d], req'[d], job'[d])
  <2>1. JobOK(Follows(job[d], p, q)) /\ AtStep(pc[d], req[d], Follows(job[d], p, q))
    BY JobOf, FollowsOK
  <2> QED BY <2>1 DEF TreeInv
<1>2. /\ pc' = [d \in Client |-> pc'[d]] /\ req' = [d \in Client |-> req'[d]]
      /\ job' = [d \in Client |-> job'[d]]
  BY DEF TreeInv
<1> QED BY <1>1, <1>2 DEF TreeInv

LEMMA PathIsNames == Path \subseteq Seq(Names)
<1>1. Name \subseteq Names BY DEF Names
<1> QED BY <1>1, FsAssumption, SeqMonotonic

LEMMA RenameStep ==
  ASSUME TreeInv, NEW c \in Client, Rename(c)
  PROVE  TreeInv'
<1> DEFINE p == req[c].path  q == req[c].to
           refused ==
             \/ p # q /\ IsPrefix(p, q)
             \/ IsDir(p) /\ (IsFile(q) \/ Children(q) # {})
             \/ IsFile(p) /\ IsDir(q)
<1>1. data' = data /\ req' = req /\ p \in Path /\ q \in Path /\ req[c].op = "move"
  BY JobOf DEF Rename, AtStep
<1>2. CASE UNCHANGED tree /\ \E s : Finish(c, s) BY <1>1, <1>2, FinishOf
<1>3. CASE /\ IsDir(Parent(q)) /\ p \in DOMAIN tree /\ ~refused /\ p # q
           /\ tree' = Relocated(tree, p, q)
           /\ job' = [d \in Client |-> IF d = c THEN NoJob ELSE Follows(job[d], p, q)]
           /\ Answer(c, "ok")
  <2>1. ~IsPrefix(p, q) BY <1>3
  <2>2. \A s \in Path : IsPrefix(p, s) => Moved(p, q, s) \in Path
    BY <1>1, <2>1, AskedOK DEF TreeInv
  <2>3. tree[p] = DirIno => ~(q \in DOMAIN tree /\ tree[q] # DirIno) /\ ChildrenIn(tree, q) = {}
    BY <1>3 DEF IsDir, IsFile, Children
  <2>4. tree[p] # DirIno => ~(q \in DOMAIN tree /\ tree[q] = DirIno)
    BY <1>3 DEF IsDir, IsFile
  <2>5. IsTree(tree') BY <1>1, <1>3, <2>1, <2>2, <2>3, <2>4, TreeMoves DEF TreeInv, IsDir
  <2>6. pc' = [pc EXCEPT ![c] = "answered"] BY <1>3 DEF Answer, AnswerWith, Goto
  <2>7. AtStep("answered", req[c], NoJob) BY DEF AtStep
  <2>8. p \in Seq(Names) /\ q \in Seq(Names) BY <1>1, PathIsNames
  <2> QED BY <1>1, <1>3, <2>5, <2>6, <2>7, <2>8, NoJobOK, MovingStepOf
<1> QED BY <1>2, <1>3 DEF Rename

\* RemoveAll puts the entries of a directory on its stack ...
LEMMA ListStep ==
  ASSUME TreeInv, NEW c \in Client, pc[c] = "remove",
         NEW names \in SetToSeqs(Children(Last(job[c].todo).at)), NEW todo,
         todo = [job[c].todo EXCEPT ![Len(job[c].todo)].listed = TRUE]
                  \o [i \in DOMAIN names |-> [at |-> names[i], listed |-> FALSE]]
  PROVE  Removing(todo)
<1> DEFINE E == [at : Seq(Names), listed : BOOLEAN]
           t == job[c].todo  n == Len(t)  C == Children(Last(t).at)
           u == [t EXCEPT ![n].listed = TRUE]
           w == [i \in DOMAIN names |-> [at |-> names[i], listed |-> FALSE]]
<1>1. t \in Seq(E) /\ t # <<>> /\ \A i \in 2 .. Len(t) : t[i].at # Root
  BY JobOf DEF AtStep, Removing
<1> HIDE DEF t
<1>2. /\ n \in Nat \ {0} /\ DOMAIN t = 1 .. n
      /\ \A i \in 1 .. n : t[i] \in E
  BY <1>1, EmptySeq, LenProperties, ElementOfSeq
<1>3. u \in [1 .. n -> E] /\ \A i \in 1 .. n : u[i].at = t[i].at
  BY <1>2
<1>4. C \subseteq DOMAIN tree /\ \A s \in C : s # Root /\ s \in Seq(Names)
  BY PathIsNames DEF Children, ChildrenIn, TreeInv, IsTree
<1>5. Cardinality(C) \in Nat
  <2>1. IsFiniteSet(C) BY <1>4, FS_Subset DEF TreeInv, IsTree
  <2> QED BY <2>1, FS_CardinalityType
<1> DEFINE m == Cardinality(C)
<1>6. names \in [1 .. m -> C] BY DEF SetToSeqs, t
<1> HIDE DEF C, m
<1>7. w \in [1 .. m -> E] /\ \A i \in 1 .. m : w[i].at # Root BY <1>4, <1>6
<1> HIDE DEF u, w, n, E
<1>8. u \in Seq(E) /\ Len(u) = n BY <1>2, <1>3, SameLength
<1>9. w \in Seq(E) /\ Len(w) = m BY <1>5, <1>7, SameLength DEF m
<1>10. todo = u \o w BY DEF u, w, n, t
<1>11. /\ todo \in Seq(E) /\ Len(todo) = n + m
       /\ \A i \in 1 .. n + m : todo[i] = IF i <= n THEN u[i] ELSE w[i - n]
  <2>1. /\ u \o w \in Seq(E) /\ Len(u \o w) = Len(u) + Len(w)
        /\ \A i \in 1 .. Len(u) + Len(w) : (u \o w)[i] = IF i <= Len(u) THEN u[i] ELSE w[i - Len(u)]
    BY <1>8, <1>9, ConcatProperties
  <2> QED BY <1>8, <1>9, <1>10, <2>1, Zenon
<1>12. m \in Nat BY <1>5 DEF m
<1>13. todo # <<>>
  <2>1. Len(todo) # 0 BY <1>2, <1>11, <1>12
  <2> QED BY <2>1, EmptySeq
<1>14. ASSUME NEW i \in 2 .. Len(todo) PROVE todo[i].at # Root
  <2>1. i \in 1 .. n + m BY <1>2, <1>11, <1>12
  <2>2. CASE i <= n
    <3>1. i \in 2 .. n /\ i \in 1 .. n BY <2>1, <2>2, <1>2, <1>12
    <3> QED BY <1>1, <1>3, <1>11, <2>1, <2>2, <3>1 DEF n
  <2>3. CASE ~(i <= n)
    <3>1. i - n \in 1 .. m BY <2>1, <2>3, <1>2, <1>12
    <3> QED BY <1>7, <1>11, <2>1, <2>3, <3>1
  <2> QED BY <2>2, <2>3
<1> QED BY <1>11, <1>13, <1>14 DEF Removing, E

LEMMA TopOfStack ==
  \A n \in Nat \ {0} : /\ n \in 1 .. n /\ (n = 1 \/ n \in 2 .. n)
                       /\ n > 1 => n - 1 \in 0 .. n /\ n - 1 # 0
OBVIOUS

\* ... and removes what is on top of it
LEMMA RemoveEntryStep ==
  ASSUME TreeInv, NEW c \in Client, RemoveEntry(c)
  PROVE  TreeInv'
<1> DEFINE todo == job[c].todo  p == Last(todo).at  E == [at : Seq(Names), listed : BOOLEAN]
           removed == \/ IsFile(p) /\ ~Last(todo).listed
                      \/ IsDir(p) /\ Children(p) = {}
<1>1. /\ data' = data /\ req' = req /\ pc[c] = "remove" /\ JobOK(job[c])
      /\ todo[1].at # Root
  BY JobOf DEF RemoveEntry
<1>2. todo \in Seq(E) /\ todo # <<>> /\ \A i \in 2 .. Len(todo) : todo[i].at # Root
  BY <1>1, JobOf DEF AtStep, Removing
<1>3. Len(todo) \in Nat \ {0} BY <1>2, EmptySeq
<1>4. p \in Seq(Names) /\ p # Root
  <2>1. Len(todo) \in 1 .. Len(todo) /\ (Len(todo) = 1 \/ Len(todo) \in 2 .. Len(todo))
    BY <1>3, TopOfStack
  <2>2. todo[Len(todo)] \in E BY <1>2, <2>1, ElementOfSeq
  <2> HIDE DEF todo
  <2> QED BY <1>1, <1>2, <2>1, <2>2 DEF Last
<1>5. CASE /\ UNCHANGED <<tree, pc>>
           /\ \E names \in SetToSeqs(Children(p)) :
                job' = [job EXCEPT ![c].todo =
                  [todo EXCEPT ![Len(todo)].listed = TRUE]
                    \o [i \in DOMAIN names |-> [at |-> names[i], listed |-> FALSE]]]
  <2>1. PICK names \in SetToSeqs(Children(p)) :
          job' = [job EXCEPT ![c].todo =
            [todo EXCEPT ![Len(todo)].listed = TRUE]
              \o [i \in DOMAIN names |-> [at |-> names[i], listed |-> FALSE]]]
    BY <1>5
  <2> DEFINE new == [todo EXCEPT ![Len(todo)].listed = TRUE]
                      \o [i \in DOMAIN names |-> [at |-> names[i], listed |-> FALSE]]
             j == [job[c] EXCEPT !.todo = new]
  <2>2. Removing(new) BY <1>1, ListStep
  <2>3. job' = [job EXCEPT ![c] = j] /\ pc' = [pc EXCEPT ![c] = "remove"]
    BY <1>1, <1>5, <2>1 DEF TreeInv
  <2> HIDE DEF new
  <2>4. JobOK(j) /\ j.todo = new BY <1>1 DEF JobOK, NoJob
  <2>5. AtStep("remove", req[c], j) BY <2>2, <2>4 DEF AtStep
  <2> HIDE DEF j
  <2> QED BY <1>1, <1>5, <2>3, <2>4, <2>5, ReadStepOf
<1>6. CASE /\ tree' = IF removed THEN Without(tree, p) ELSE tree
           /\ job' = [d \in Client |->
                IF d = c THEN [job[c] EXCEPT !.todo = Front(@)]
                ELSE IF removed THEN Follows(job[d], Nowhere, p) ELSE job[d]]
           /\ IF Len(todo) > 1 THEN UNCHANGED pc ELSE \E s : Answer(c, s)
  <2> DEFINE j == [job[c] EXCEPT !.todo = Front(todo)]
             l == IF Len(todo) > 1 THEN "remove" ELSE "answered"
  <2>1. IsTree(tree')
    <3>1. CASE ~removed BY <1>6, <3>1 DEF TreeInv
    <3>2. CASE removed
      <4>1. p \in Path BY <3>2 DEF IsFile, IsDir, TreeInv, IsTree
      <4> QED BY <1>4, <1>6, <3>2, <4>1, TreeShrinks DEF TreeInv
    <3> QED BY <3>1, <3>2
  <2>2. pc' = [pc EXCEPT ![c] = l]
    <3>1. CASE Len(todo) > 1 BY <1>1, <1>6, <3>1 DEF TreeInv
    <3>2. CASE ~(Len(todo) > 1) BY <1>6, <3>2 DEF Answer, AnswerWith, Goto
    <3> QED BY <3>1, <3>2
  <2>3. JobOK(j) /\ j.todo = Front(todo) BY <1>1 DEF JobOK, NoJob
  <2>4. AtStep(l, req[c], j)
    <3>1. CASE Len(todo) > 1
      <4>1. Removing(Front(todo))
        <5> HIDE DEF todo, E
        <5> DEFINE t == Front(todo)
        <5>1. Len(todo) - 1 \in 0 .. Len(todo) /\ Len(todo) - 1 # 0
          BY <1>3, <3>1, TopOfStack
        <5>2. t \in Seq(E) /\ Len(t) = Len(todo) - 1 /\ IsPrefix(t, todo)
          BY <1>2, <5>1, FirstNames DEF Front
        <5> HIDE DEF t
        <5>3. \A i \in 1 .. Len(t) : t[i] = todo[i] BY <1>2, <5>2, PrefixDef
        <5>4. \A i \in 2 .. Len(t) : t[i].at # Root BY <1>2, <1>3, <5>1, <5>2, <5>3
        <5>5. t # <<>> BY <5>1, <5>2, EmptySeq
        <5> QED BY <5>2, <5>4, <5>5 DEF Removing, t, E
      <4> QED BY <2>3, <3>1, <4>1 DEF AtStep
    <3>2. CASE ~(Len(todo) > 1) BY <3>2 DEF AtStep
    <3> QED BY <3>1, <3>2
  <2>5. CASE removed
    <3>1. Nowhere \in Seq(Names) BY NowhereIsAPath
    <3>2. job' = [d \in Client |-> IF d = c THEN j ELSE Follows(job[d], Nowhere, p)]
      BY <1>6, <2>5
    <3> HIDE DEF j, l, p
    <3> QED BY <1>1, <1>4, <2>1, <2>2, <2>3, <2>4, <3>1, <3>2, MovingStepOf
  <2>6. CASE ~removed
    <3>1. job' = [job EXCEPT ![c] = j] BY <1>6, <2>6 DEF TreeInv
    <3>2. tree' = tree BY <1>6, <2>6
    <3> HIDE DEF j, l, p, removed
    <3> QED BY <1>1, <2>2, <2>3, <2>4, <3>1, <3>2, ReadStepOf
  <2> QED BY <2>5, <2>6
<1>7. CASE MustList(Last(todo)) BY <1>5, <1>7 DEF RemoveEntry
<1>8. CASE ~MustList(Last(todo)) BY <1>6, <1>8 DEF RemoveEntry
<1> QED BY <1>7, <1>8

LEMMA AcceptStep ==
  ASSUME TreeInv, NEW c \in Client, NEW q \in Requests, Accept(c, q)
  PROVE  TreeInv'
<1> DEFINE r == Resolved(q)
           j == CASE r.op \in {"write", "upload"} -> [Target(r, r.files[1]) EXCEPT !.more = Tail(r.files)]
                  [] r.op = "mkdir" -> [NoJob EXCEPT !.dir = r.path, !.depth = Len(r.path)]
                  [] r.op = "delete" -> [NoJob EXCEPT !.todo = <<[at |-> r.path, listed |-> FALSE]>>]
                  [] r.op = "patch" -> Target(r, r.path)
                  [] r.op \in {"copy", "move"} -> Target(r, r.to)
                  [] r.op \in Reads -> NoJob
           l == CASE r.op \in {"copy", "read", "download", "view"} -> "source"
                  [] r.op = "delete" -> "remove"
                  [] r.op = "patch" /\ r.old # <<>> -> "read"
                  [] r.op \in {"list", "search", "stat", "chmod"} -> r.op
                  [] OTHER -> "make"
<1>1. /\ tree' = tree /\ data' = data /\ req' = [req EXCEPT ![c] = r]
      /\ job' = [job EXCEPT ![c] = j] /\ pc' = [pc EXCEPT ![c] = l]
  BY DEF Accept, Goto
<1>2. /\ r.op \in {"write", "upload", "mkdir", "delete", "patch", "copy", "move"} \cup Reads
      /\ r.text \in Seq(Blocks) /\ r.path \in Path /\ r.to \in Path
      /\ r.op \in {"write", "upload"} => r.files \in Seq(Path) \ {<<>>}
  BY RequestOK
<1>3. Asked(r) BY DEF Asked
<1> HIDE DEF r
<1>4. JobOK(j) /\ AtStep(l, r, j)
  <2>1. CASE r.op \in {"write", "upload"}
    <3> DEFINE k == Target(r, r.files[1])
    <3>1. r.files \in Seq(Path) /\ r.files # <<>> BY <1>2, <2>1
    <3>2. 1 \in 1 .. Len(r.files)
      <4>1. Len(r.files) \in Nat \ {0} BY <3>1, EmptySeq
      <4> QED BY <4>1
    <3>3. r.files[1] \in Path /\ Tail(r.files) \in Seq(Path)
      BY <3>1, <3>2, ElementOfSeq, HeadTailProperties
    <3>4. JobOK(k) /\ k.depth = Len(k.dir) BY <1>2, <3>3, TargetOK
    <3>5. j = [k EXCEPT !.more = Tail(r.files)] /\ l = "make" BY <2>1 DEF Reads
    <3> HIDE DEF k, j, l
    <3>6. JobOK(j) /\ j.depth = k.depth /\ j.dir = k.dir BY <3>3, <3>4, <3>5 DEF JobOK, NoJob
    <3>7. Len(k.dir) \in Nat BY <3>4, FsAssumption, LenProperties DEF JobOK
    <3> QED BY <3>4, <3>5, <3>6, <3>7 DEF AtStep
  <2>2. CASE r.op = "mkdir"
    <3>1. j = [NoJob EXCEPT !.dir = r.path, !.depth = Len(r.path)] /\ l = "make" BY <2>2 DEF Reads
    <3>2. Len(r.path) \in Nat BY <1>2, FsAssumption, LenProperties
    <3> HIDE DEF j, l
    <3>3. JobOK(j) /\ j.dir = r.path /\ j.depth = Len(r.path)
      BY <1>2, <3>1, <3>2, NoJobOK DEF JobOK, NoJob
    <3> QED BY <3>1, <3>2, <3>3 DEF AtStep
  <2>3. CASE r.op = "delete"
    <3> DEFINE e == [at |-> r.path, listed |-> FALSE]
    <3>1. j = [NoJob EXCEPT !.todo = <<e>>] /\ l = "remove" BY <2>3 DEF Reads
    <3>2. Removing(<<e>>)
      <4>1. e \in [at : Seq(Names), listed : BOOLEAN] BY <1>2, PathIsNames
      <4> HIDE DEF e
      <4> QED BY <4>1 DEF Removing
    <3> HIDE DEF j, l, e
    <3>3. JobOK(j) /\ j.todo = <<e>> BY <3>1, NoJobOK DEF JobOK, NoJob
    <3> QED BY <3>1, <3>2, <3>3 DEF AtStep
  <2>4. CASE r.op = "patch"
    <3>1. j = Target(r, r.path) /\ l \in {"read", "make"} BY <2>4 DEF Reads
    <3> HIDE DEF j, l
    <3>2. JobOK(j) /\ j.depth = Len(j.dir) BY <1>2, <3>1, TargetOK
    <3>3. Len(j.dir) \in Nat BY <3>2, FsAssumption, LenProperties DEF JobOK
    <3> QED BY <3>1, <3>2, <3>3 DEF AtStep
  <2>5. CASE r.op \in {"copy", "move"}
    <3>1. j = Target(r, r.to) /\ l \in {"source", "make"} BY <2>5 DEF Reads
    <3> HIDE DEF j, l
    <3>2. JobOK(j) /\ j.depth = Len(j.dir) BY <1>2, <3>1, TargetOK
    <3>3. Len(j.dir) \in Nat BY <3>2, FsAssumption, LenProperties DEF JobOK
    <3> QED BY <3>1, <3>2, <3>3 DEF AtStep
  <2>6. CASE r.op \in Reads
    <3>1. j = NoJob /\ l \in {"source", "list", "search", "stat", "chmod"} BY <2>6 DEF Reads
    <3> HIDE DEF j, l
    <3>2. NoJob.depth <= Len(NoJob.dir)
      <4>1. Len(Root) = 0 BY EmptySeq DEF Root
      <4> QED BY <4>1 DEF NoJob
    <3> QED BY <3>1, <3>2, NoJobOK DEF AtStep
  <2> QED BY <1>2, <2>1, <2>2, <2>3, <2>4, <2>5, <2>6
<1> HIDE DEF j, l
<1>5. ASSUME NEW d \in Client
      PROVE  Asked(req'[d]) /\ JobOK(job'[d]) /\ AtStep(pc'[d], req'[d], job'[d])
  BY <1>1, <1>3, <1>4 DEF TreeInv
<1> QED BY <1>1, <1>5 DEF TreeInv

LEMMA ReturnStep ==
  ASSUME TreeInv, NEW c \in Client, Return(c)
  PROVE  TreeInv'
<1>1. /\ tree' = tree /\ req' = [req EXCEPT ![c] = NoReq] /\ job' = job
      /\ pc' = [pc EXCEPT ![c] = "idle"]
      /\ data' = [i \in Ino |-> IF i \in InUse THEN data[i] ELSE <<>>]
  BY DEF Return, Goto
<1>2. <<>> \in Seq(Blocks) BY EmptySeq
<1>3. data' \in [Ino -> Seq(Blocks)] BY <1>1, <1>2 DEF TreeInv
<1>4. Asked(NoReq) /\ \A j : AtStep("idle", NoReq, j) BY DEF Asked, AtStep
<1>5. ASSUME NEW d \in Client
      PROVE  Asked(req'[d]) /\ JobOK(job'[d]) /\ AtStep(pc'[d], req'[d], job'[d])
  BY <1>1, <1>4 DEF TreeInv
<1> QED BY <1>1, <1>3, <1>5 DEF TreeInv

-------------------------------------------------------------------------------
LEMMA InvInit == Init => TreeInv
<1> SUFFICES ASSUME Init PROVE TreeInv OBVIOUS
<1>1. /\ DOMAIN tree = {Root} /\ tree[Root] = DirIno /\ tree \in [DOMAIN tree -> Ino \cup {DirIno}]
  BY DEF Init
<1>2. IsTree(tree)
  <2>1. \A q \in Path : IsPrefix(q, Root) => q = Root BY PathOrder, PathParent
  <2>2. Root \in Path /\ IsFiniteSet({Root}) BY PathParent, FS_Singleton
  <2> QED BY <1>1, <2>1, <2>2 DEF IsTree
<1>3. data \in [Ino -> Seq(Blocks)]
  <2>1. <<>> \in Seq(Blocks) BY EmptySeq
  <2> QED BY <2>1 DEF Init
<1>4. AtStep("idle", NoReq, NoJob) /\ Asked(NoReq) BY DEF AtStep, Asked
<1> QED BY <1>2, <1>3, <1>4, NoJobOK DEF TreeInv, Init

LEMMA InvNext == TreeInv /\ [Next]_vars => TreeInv'
<1> SUFFICES ASSUME TreeInv, [Next]_vars PROVE TreeInv' OBVIOUS
<1>1. ASSUME NEW c \in Client, Step(c) PROVE TreeInv'
  BY <1>1, StatStep, MkdirStep, OpenStep, FillStep, OpenSourceStep, ReadOldStep, LstatStep,
     RenameStep, RemoveEntryStep, SimpleSteps, MeasureStep, WalkSteps DEF Step
<1>2. ASSUME NEW c \in Client, Return(c) PROVE TreeInv' BY <1>2, ReturnStep
<1>3. ASSUME NEW c \in Client, NEW q \in Requests, Accept(c, q) PROVE TreeInv'
  BY <1>3, AcceptStep
<1>4. CASE UNCHANGED vars BY <1>4 DEF vars, TreeInv
<1> QED BY <1>1, <1>2, <1>3, <1>4 DEF Next

LEMMA TreeCorrect == Spec => []TreeInv
BY InvInit, InvNext, PTL DEF Spec

\* However the system calls of all requests interleave, what is below Root stays a
\* tree: Root is a directory, every entry is in a directory, and no file has two names.
THEOREM TypeCorrect == Spec => []TypeOK
<1>1. TreeInv => TypeOK
  <2> SUFFICES ASSUME TreeInv PROVE TypeOK OBVIOUS
  <2>1. ASSUME NEW p \in DOMAIN tree PROVE IsDir(Parent(p))
    <3>1. p \in Path BY DEF TreeInv, IsTree
    <3>2. CASE p = Root BY <3>2, PathParent DEF TreeInv, IsTree, IsDir
    <3>3. CASE p # Root BY <3>1, <3>3, PathParent DEF TreeInv, IsTree, IsDir
    <3> QED BY <3>2, <3>3
  <2>2. \A c \in Client : job[c].fd \in Ino \cup {DirIno} /\ job[c].src \in Ino \cup {DirIno}
    BY DEF TreeInv, JobOK
  <2> QED BY <2>1, <2>2 DEF TypeOK, TreeInv, IsTree, IsDir, IsFile
<1> QED BY <1>1, TreeCorrect, PTL

-------------------------------------------------------------------------------
(* Readers see what stays: the inductive invariant, of a client at l with its *)
(* request r, its job j and its answer a; v is the View and s is same[c].     *)

\* what is still to be looked at
Stack(todo) ==
  todo \in Seq([at : Path, listed : {FALSE}, dir : BOOLEAN]) /\ todo # <<>>

\* an entry of the directory that stayed has been found, or is looked at later
Listing(v, s, r, todo, found) ==
  \A p \in s : p # Root /\ Parent(p) = r.path =>
    <<p, v[p].dir>> \in found \/ \E i \in DOMAIN todo : todo[i].at = p

\* what is looked at, and what has been found, are parts of the tree apart from each
\* other; a file that stayed has been searched, or is below what is looked at later
Searching(v, s, r, todo, found) ==
  /\ \A i \in DOMAIN todo : todo[i].at \in s => todo[i].dir = v[todo[i].at].dir
  /\ \A i, k \in DOMAIN todo : i # k => ~IsPrefix(todo[i].at, todo[k].at)
  /\ IsFiniteSet(found) /\ Cardinality(found) <= r.limit
  /\ \A h \in found : h[1] \in Path /\ \A i \in DOMAIN todo : ~IsPrefix(todo[i].at, h[1])
  /\ \/ Cardinality(found) = r.limit
     \/ \A p \in s : ~v[p].dir /\ IsPrefix(r.path, p) =>
          \/ HitsIn(p, v[p].text, r) \subseteq found
          \/ \E i \in DOMAIN todo : IsPrefix(todo[i].at, p)

Closed(s) == \A p \in s, q \in Path : IsPrefix(q, p) => q \in s

ReaderOK(v, s, l, r, j, a) ==
  /\ s \subseteq DOMAIN v /\ Closed(s)
  /\ r.op = "list" =>
       /\ l \in {"list", "info", "answered"} /\ (l = "info" => Stack(j.todo))
       /\ r.path \in s /\ v[r.path].dir =>
            /\ l = "info" => Listing(v, s, r, j.todo, j.found)
            /\ l = "answered" =>
                 a.status = "ok" /\ \A p \in s : p # Root /\ Parent(p) = r.path => <<p, v[p].dir>> \in a.body
  /\ r.op = "search" =>
       /\ l \in {"search", "visit", "answered"} /\ (l = "search" => j.found = {})
       /\ l = "visit" => Stack(j.todo) /\ Searching(v, s, r, j.todo, j.found)
       /\ l = "answered" =>
            \/ Cardinality(a.body) = r.limit
            \/ \A p \in s : ~v[p].dir /\ IsPrefix(r.path, p) => HitsIn(p, v[p].text, r) \subseteq a.body

ReaderInv ==
  /\ same = [c \in Client |-> same[c]] /\ answer = [c \in Client |-> answer[c]]
  /\ \A c \in Client : ReaderOK(View, same[c], pc[c], req[c], job[c], answer[c])

-------------------------------------------------------------------------------
(* The reader's view of the tree *)

\* as IsTree, of a view
IsView(v) ==
  /\ DOMAIN v \subseteq Path
  /\ \A p \in DOMAIN v : v[p].dir \in BOOLEAN
  /\ \A p \in DOMAIN v, q \in Path : IsPrefix(q, p) /\ q # p => q \in DOMAIN v /\ v[q] = Dir

LEMMA ViewOfTree ==
  ASSUME NEW t, NEW d, IsTree(t), NEW v,
         v = [p \in DOMAIN t |-> IF t[p] = DirIno THEN Dir ELSE File(d[t[p]])]
  PROVE  /\ IsView(v) /\ DOMAIN v = DOMAIN t
         /\ \A p \in DOMAIN t : v[p].dir = (t[p] = DirIno)
         /\ \A p \in DOMAIN t : t[p] # DirIno => v[p].text = d[t[p]]
<1>1. ASSUME NEW p \in DOMAIN t
      PROVE  v[p].dir = (t[p] = DirIno) /\ (t[p] # DirIno => v[p].text = d[t[p]])
  <2>1. CASE t[p] = DirIno
    <3>1. v[p] = Dir /\ Dir.dir = TRUE BY <2>1 DEF Dir
    <3> QED BY <2>1, <3>1, Zenon
  <2>2. CASE t[p] # DirIno
    <3>1. v[p] = File(d[t[p]]) BY <2>2
    <3>2. File(d[t[p]]).dir = FALSE /\ File(d[t[p]]).text = d[t[p]] BY DEF File
    <3> QED BY <2>2, <3>1, <3>2, Zenon
  <2> QED BY <2>1, <2>2
<1>2. \A p \in DOMAIN t : v[p].dir \in BOOLEAN
  <2> SUFFICES ASSUME NEW p \in DOMAIN t PROVE v[p].dir \in BOOLEAN OBVIOUS
  <2>1. (t[p] = DirIno) \in BOOLEAN OBVIOUS
  <2> QED BY <1>1, <2>1, Zenon
<1>3. \A p \in DOMAIN v, q \in Path : IsPrefix(q, p) /\ q # p => q \in DOMAIN v /\ v[q] = Dir
  BY DEF IsTree
<1>4. DOMAIN v = DOMAIN t /\ DOMAIN v \subseteq Path BY DEF IsTree
<1> QED BY <1>1, <1>2, <1>3, <1>4 DEF IsView

LEMMA ViewIs ==
  ASSUME IsTree(tree)
  PROVE  /\ IsView(View) /\ DOMAIN View = DOMAIN tree
         /\ \A p \in DOMAIN tree : View[p].dir = IsDir(p)
         /\ \A p \in DOMAIN tree : ~IsDir(p) => View[p].text = data[tree[p]]
<1>1. View = [p \in DOMAIN tree |-> IF tree[p] = DirIno THEN Dir ELSE File(data[tree[p]])]
  BY DEF View
<1>2. /\ IsView(View) /\ DOMAIN View = DOMAIN tree
      /\ \A p \in DOMAIN tree : View[p].dir = (tree[p] = DirIno)
      /\ \A p \in DOMAIN tree : tree[p] # DirIno => View[p].text = data[tree[p]]
  BY <1>1, ViewOfTree
<1>3. \A p \in DOMAIN tree : IsDir(p) = (tree[p] = DirIno) BY DEF IsDir
<1> QED BY <1>2, <1>3, Zenon

\* what is in a directory of a view
LEMMA TreeIsClosed == ASSUME IsTree(tree) PROVE Closed(DOMAIN tree)
BY DEF IsTree, Closed

\* What others do to the tree takes from what has stayed, and from nothing else.
LEMMA StillOK ==
  ASSUME NEW v, NEW w, IsView(v), IsView(w), NEW s, NEW u,
         u = {p \in s : p \in DOMAIN w /\ w[p] = v[p]},
         NEW l, NEW r, NEW j, NEW a, ReaderOK(v, s, l, r, j, a)
  PROVE  ReaderOK(w, u, l, r, j, a)
<1>1. s \subseteq DOMAIN v /\ Closed(s) BY DEF ReaderOK
<1>2. u \subseteq s /\ u \subseteq DOMAIN w /\ \A p \in u : w[p] = v[p] OBVIOUS
<1>3. Closed(u)
  <2> SUFFICES ASSUME NEW p \in u, NEW q \in Path, IsPrefix(q, p), q # p PROVE q \in u
    BY DEF Closed
  <2>1. q \in s BY <1>1, <1>2 DEF Closed
  <2>2. v[q] = Dir /\ q \in DOMAIN w /\ w[q] = Dir BY <1>1, <1>2 DEF IsView
  <2> QED BY <2>1, <2>2
<1>4. ASSUME NEW todo, NEW found, Listing(v, s, r, todo, found) PROVE Listing(w, u, r, todo, found)
  BY <1>2, <1>4 DEF Listing
<1>5. ASSUME NEW todo, NEW found, Searching(v, s, r, todo, found) PROVE Searching(w, u, r, todo, found)
  BY <1>2, <1>5 DEF Searching
<1>6. r.op = "list" =>
       /\ l \in {"list", "info", "answered"} /\ (l = "info" => Stack(j.todo))
       /\ r.path \in u /\ w[r.path].dir =>
            /\ l = "info" => Listing(w, u, r, j.todo, j.found)
            /\ l = "answered" =>
                 a.status = "ok" /\ \A p \in u : p # Root /\ Parent(p) = r.path => <<p, w[p].dir>> \in a.body
  BY <1>2, <1>4 DEF ReaderOK
<1>7. r.op = "search" =>
       /\ l \in {"search", "visit", "answered"} /\ (l = "search" => j.found = {})
       /\ l = "visit" => Stack(j.todo) /\ Searching(w, u, r, j.todo, j.found)
       /\ l = "answered" =>
            \/ Cardinality(a.body) = r.limit
            \/ \A p \in u : ~w[p].dir /\ IsPrefix(r.path, p) => HitsIn(p, w[p].text, r) \subseteq a.body
  BY <1>2, <1>5 DEF ReaderOK
<1> QED BY <1>2, <1>3, <1>6, <1>7 DEF ReaderOK

\* a deletion's stack that moves is none of a reader
LEMMA FollowsReader ==
  ASSUME NEW v, NEW s, NEW l, NEW r, NEW j, NEW a, ReaderOK(v, s, l, r, j, a), JobOK(j),
         NEW p, NEW q
  PROVE  ReaderOK(v, s, l, r, Follows(j, p, q), a)
<1> DEFINE k == Follows(j, p, q)
<1>1. k.found = j.found BY DEF Follows, JobOK, NoJob
<1>2. Stack(j.todo) => k = j
  <2> SUFFICES ASSUME Stack(j.todo) PROVE ~j.todo[1].listed BY DEF Follows
  <2>1. Len(j.todo) \in Nat \ {0} BY EmptySeq DEF Stack
  <2>2. 1 \in 1 .. Len(j.todo) BY <2>1
  <2> DEFINE E == [at : Path, listed : {FALSE}, dir : BOOLEAN]
  <2>3. j.todo[1] \in E BY <2>2, ElementOfSeq DEF Stack
  <2> QED BY <2>3
<1> HIDE DEF k
<1> QED BY <1>1, <1>2 DEF ReaderOK, k

-------------------------------------------------------------------------------
(* Directories as they are read, and hits as they are counted *)

LEMMA OnceEach ==
  ASSUME NEW C, IsFiniteSet(C), NEW f, f = SetToSeq(C)
  PROVE  /\ Cardinality(C) \in Nat /\ f \in [1 .. Cardinality(C) -> C]
         /\ \A i, k \in 1 .. Cardinality(C) : f[i] = f[k] => i = k
         /\ \A x \in C : \E i \in 1 .. Cardinality(C) : f[i] = x
<1> DEFINE n == Cardinality(C)  I == 1 .. n
<1>1. n \in Nat /\ ExistsBijection(I, C) BY FS_CardinalityType
<1>2. \E g \in [I -> C] : IsInjective(g) BY <1>1 DEF ExistsBijection, Bijection, Injection
<1>3. f \in [I -> C] /\ IsInjective(f) BY <1>2 DEF SetToSeq
<1>4. Cardinality(I) = n /\ 1 \in Int /\ n \in Int
  <2>1. 1 \in Int /\ n \in Int BY <1>1
  <2>2. Cardinality(1 .. n) = IF 1 > n THEN 0 ELSE n - 1 + 1 BY <2>1, FS_Interval
  <2> QED BY <1>1, <2>1, <2>2
<1>5. f \in Injection(I, C) BY <1>3 DEF Injection
<1>6. f \in Surjection(I, C) BY <1>4, <1>5, FS_Injection
<1> QED BY <1>1, <1>3, <1>6 DEF IsInjective, Surjection

\* the first n of the hits of a file are n, or all
LEMMA FirstHits ==
  ASSUME NEW H, IsFiniteSet(H), \A h \in H : h[2] \in Nat, \A g, h \in H : g[2] = h[2] => g = h,
         NEW n \in Nat, n # 0
  PROVE  /\ First(n, H) \subseteq H /\ IsFiniteSet(First(n, H))
         /\ Cardinality(First(n, H)) <= n
         /\ Cardinality(First(n, H)) = n \/ First(n, H) = H
<1> DEFINE m == Cardinality(H)
           below(h) == {g \in H : g[2] < h[2]}
           rank == [h \in H |-> Cardinality(below(h))]
           F == First(n, H)
<1>1. m \in Nat BY FS_CardinalityType
<1>2. \A h \in H : IsFiniteSet(below(h)) /\ Cardinality(below(h)) \in Nat
  BY FS_Subset, FS_CardinalityType
<1>3. ASSUME NEW h \in H PROVE rank[h] \in 0 .. m - 1
  <2>1. IsFiniteSet(H \ {h}) /\ Cardinality(H \ {h}) = m - 1 BY FS_RemoveElement
  <2>2. below(h) \in SUBSET (H \ {h}) OBVIOUS
  <2>3. Cardinality(below(h)) <= Cardinality(H \ {h}) BY <2>1, <2>2, FS_Subset
  <2>4. rank[h] = Cardinality(below(h)) /\ rank[h] \in Nat BY <1>2
  <2>5. rank[h] <= m - 1 BY <2>1, <2>3, <2>4
  <2> HIDE DEF rank
  <2> QED BY <1>1, <2>4, <2>5
<1>4. ASSUME NEW g \in H, NEW h \in H, g[2] < h[2] PROVE rank[g] < rank[h]
  <2>1. IsFiniteSet(below(h) \ {g}) /\ Cardinality(below(h) \ {g}) = Cardinality(below(h)) - 1
    BY <1>2, <1>4, FS_RemoveElement
  <2>2. below(g) \in SUBSET (below(h) \ {g}) BY <1>4
  <2>3. Cardinality(below(g)) <= Cardinality(below(h) \ {g}) BY <2>1, <2>2, FS_Subset
  <2> QED BY <1>2, <2>1, <2>3, SMTT(40)
<1>5. \A g, h \in H : rank[g] = rank[h] => g = h
  <2> SUFFICES ASSUME NEW g \in H, NEW h \in H, g # h PROVE rank[g] # rank[h] OBVIOUS
  <2>1. g[2] < h[2] \/ h[2] < g[2] OBVIOUS
  <2>2. rank[g] \in 0 .. m - 1 /\ rank[h] \in 0 .. m - 1 BY <1>3
  <2>3. rank[g] < rank[h] \/ rank[h] < rank[g] BY <1>4, <2>1
  <2> HIDE DEF rank
  <2> QED BY <1>1, <2>2, <2>3
<1>6. DOMAIN rank = H /\ F = {h \in H : rank[h] < n} BY DEF First
<1> HIDE DEF rank
<1>7. F \subseteq H /\ IsFiniteSet(F) BY <1>6, FS_Subset
<1>8. CASE m <= n
  <2>1. F = H BY <1>1, <1>3, <1>6, <1>8
  <2> QED BY <1>7, <1>8, <2>1
<1>9. CASE n < m
  <2>1. rank \in Injection(H, 0 .. m - 1) BY <1>3, <1>5, <1>6 DEF Injection, IsInjective, rank
  <2>2. IsFiniteSet(0 .. m - 1) /\ Cardinality(0 .. m - 1) = m
        /\ IsFiniteSet(0 .. n - 1) /\ Cardinality(0 .. n - 1) = n
    <3>1. 0 \in Int /\ m - 1 \in Int /\ n - 1 \in Int BY <1>1
    <3>2. /\ Cardinality(0 .. m - 1) = IF 0 > m - 1 THEN 0 ELSE m - 1 - 0 + 1
          /\ Cardinality(0 .. n - 1) = IF 0 > n - 1 THEN 0 ELSE n - 1 - 0 + 1
          /\ IsFiniteSet(0 .. m - 1) /\ IsFiniteSet(0 .. n - 1)
      BY <3>1, FS_Interval
    <3> QED BY <1>1, <1>9, <3>2
  <2>3. rank \in Surjection(H, 0 .. m - 1) BY <2>1, <2>2, FS_Injection
  <2>4. \A k \in 0 .. n - 1 : \E h \in F : rank[h] = k
    <3> SUFFICES ASSUME NEW k \in 0 .. n - 1 PROVE \E h \in F : rank[h] = k OBVIOUS
    <3>1. k \in 0 .. m - 1 /\ k < n BY <1>1, <1>9
    <3> QED BY <1>6, <2>3, <3>1 DEF Surjection
  <2> DEFINE rankF == [h \in F |-> rank[h]]
  <2>5. \A h \in F : rank[h] \in 0 .. n - 1
    <3> SUFFICES ASSUME NEW h \in F PROVE rank[h] \in 0 .. n - 1 OBVIOUS
    <3>1. rank[h] \in 0 .. m - 1 /\ rank[h] < n BY <1>3, <1>6
    <3> QED BY <1>1, <3>1
  <2>6. rankF \in Injection(F, 0 .. n - 1) BY <1>5, <1>7, <2>5 DEF Injection, IsInjective
  <2>7. rankF \in Surjection(F, 0 .. n - 1) BY <2>4, <2>5 DEF Surjection
  <2> HIDE DEF rankF, F
  <2>8. Cardinality(F) = n BY <2>2, <2>6, <2>7, FS_Injection
  <2> QED BY <1>7, <2>8 DEF F
<1> QED BY <1>1, <1>8, <1>9

LEMMA HitsAre ==
  ASSUME NEW p, NEW t, Len(t) \in Nat, NEW r
  PROVE  /\ IsFiniteSet(HitsIn(p, t, r))
         /\ \A h \in HitsIn(p, t, r) : h[1] = p /\ h[2] \in Nat
         /\ \A g, h \in HitsIn(p, t, r) : g[2] = h[2] => g = h
<1> DEFINE Q == Places(t, r.old)  f == [i \in Q |-> <<p, i>>]  T == {<<p, i>> : i \in Q}
<1>1. Q \subseteq 1 .. Len(t) BY DEF Places
<1>2. IsFiniteSet(Q)
  <2>1. 1 \in Int /\ Len(t) \in Int OBVIOUS
  <2>2. IsFiniteSet(1 .. Len(t)) BY <2>1, FS_Interval
  <2> QED BY <1>1, <2>2, FS_Subset
<1> HIDE DEF Q
<1>3. f \in Surjection(Q, T) BY DEF Surjection
<1>4. IsFiniteSet(T) BY <1>2, <1>3, FS_Surjection
<1>5. IsFiniteSet({}) /\ IsFiniteSet({<<p, 0>>}) BY FS_EmptySet, FS_Singleton
<1>6. Matches(p, t, r) \in {{}, {<<p, 0>>}, T} BY DEF Matches, Q
<1>7. HitsIn(p, t, r) \subseteq Matches(p, t, r) BY DEF HitsIn
<1>8. IsFiniteSet(HitsIn(p, t, r)) BY <1>4, <1>5, <1>6, <1>7, FS_Subset
<1>9. \A h \in HitsIn(p, t, r) : \E i \in Nat : h = <<p, i>>
  <2>1. \A i \in Q : i \in Nat BY <1>1
  <2>2. \A h \in T : \E i \in Nat : h = <<p, i>> BY <2>1
  <2> HIDE DEF T
  <2> QED BY <1>6, <1>7, <2>2
<1> QED BY <1>8, <1>9

\* a file that is found by its name is found whatever is in it
LEMMA HitByName ==
  ASSUME NEW p, NEW t, NEW r, r.old = <<>>
  PROVE  HitsIn(p, t, r) = Matches(p, <<>>, r)
<1>1. Matches(p, t, r) = Matches(p, <<>>, r) BY DEF Matches
<1>2. \A h \in Matches(p, t, r) : h[2] = 0 BY DEF Matches
<1>3. \A i \in 1 .. 0 : FALSE OBVIOUS
<1> QED BY <1>1, <1>2, <1>3 DEF HitsIn

\* the scanner delivers the lines before the first that is too long
LEMMA ScannedIs ==
  ASSUME NEW S, NEW t \in Seq(S)
  PROVE  \E n \in 0 .. Len(t) :
           /\ Scanned(t) = SubSeq(t, 1, n)
           /\ \A i \in 1 .. n : t[i] \notin TooLong
           /\ n = Len(t) \/ t[n + 1] \in TooLong
<1> DEFINE ends(n) == (\A i \in 1 .. n : t[i] \notin TooLong) /\ (n = Len(t) \/ t[n + 1] \in TooLong)
           R == OpToRel(<, Nat)
           T == {n \in 0 .. Len(t) : n = Len(t) \/ t[n + 1] \in TooLong}
<1>1. Len(t) \in Nat BY LenProperties
<1>2. Len(t) \in T /\ T \subseteq Nat BY <1>1
<1>3. IsWellFoundedOn(R, Nat) BY NatLessThanWellFounded
<1>4. \E n \in T : \A m \in T : <<m, n>> \notin R
  <2> HIDE DEF R, T
  <2> QED BY <1>2, <1>3, WFMin
<1>5. PICK n \in T : \A m \in T : <<m, n>> \notin R BY <1>4
<1>6. n \in 0 .. Len(t) /\ \A m \in T : ~(m < n) BY <1>2, <1>5 DEF OpToRel
<1>7. \A i \in 1 .. n : t[i] \notin TooLong
  <2> SUFFICES ASSUME NEW i \in 1 .. n, t[i] \in TooLong PROVE FALSE OBVIOUS
  <2>1. i - 1 \in 0 .. Len(t) /\ i - 1 + 1 = i /\ i - 1 < n
    <3> HIDE DEF R, T
    <3> QED BY <1>1, <1>6
  <2>2. i - 1 \in T BY <2>1
  <2> QED BY <1>6, <2>1, <2>2
<1>8. n \in 0 .. Len(t) /\ ends(n) BY <1>5, <1>6, <1>7
<1> DEFINE m == CHOOSE m \in 0 .. Len(t) : ends(m)
<1>9. m \in 0 .. Len(t) /\ ends(m) BY <1>8
<1>10. Scanned(t) = SubSeq(t, 1, m) BY DEF Scanned
<1> HIDE DEF m
<1> QED BY <1>9, <1>10

\* so that what matches in them are the hits that are promised
LEMMA ScannedMatches ==
  ASSUME NEW S, NEW t \in Seq(S), NEW p, NEW r
  PROVE  Matches(p, Scanned(t), r) = HitsIn(p, t, r)
<1>1. CASE r.old = <<>>
  <2>1. Matches(p, Scanned(t), r) = Matches(p, <<>>, r) BY <1>1 DEF Matches
  <2> QED BY <1>1, <2>1, HitByName
<1>2. CASE r.old # <<>>
  <2> DEFINE u == Scanned(t)
  <2>1. PICK n \in 0 .. Len(t) : /\ u = SubSeq(t, 1, n)
                                 /\ \A i \in 1 .. n : t[i] \notin TooLong
                                 /\ n = Len(t) \/ t[n + 1] \in TooLong
    BY ScannedIs
  <2>2. Len(t) \in Nat BY LenProperties
  <2>3. \A i \in 1 .. n : t[i] \in S BY <2>2, ElementOfSeq
  <2>4. Len(u) = n /\ \A i \in 1 .. n : u[i] = t[i] BY <2>1, <2>2, <2>3, SubSeqProperties
  <2> HIDE DEF u
  <2>5. \A k : (k \in Places(u, r.old) <=>
                  k \in Places(t, r.old) /\ \A i \in 1 .. k : t[i] \notin TooLong)
    <3> SUFFICES ASSUME NEW k
                 PROVE  k \in Places(u, r.old) <=>
                          k \in Places(t, r.old) /\ \A i \in 1 .. k : t[i] \notin TooLong
      OBVIOUS
    <3>1. ASSUME k \in Places(u, r.old)
          PROVE  k \in Places(t, r.old) /\ \A i \in 1 .. k : t[i] \notin TooLong
      BY <2>1, <2>2, <2>4, <3>1 DEF Places
    <3>2. ASSUME k \in Places(t, r.old), \A i \in 1 .. k : t[i] \notin TooLong
          PROVE  k \in Places(u, r.old)
      <4>1. k \in 1 .. Len(t) /\ <<t[k]>> = r.old BY <3>2 DEF Places
      <4>2. k <= n
        <5>1. ASSUME k > n PROVE FALSE
          <6>1. n + 1 \in 1 .. k /\ n # Len(t) BY <2>2, <4>1, <5>1
          <6> QED BY <2>1, <3>2, <6>1
        <5> QED BY <4>1, <5>1
      <4> QED BY <2>4, <4>1, <4>2 DEF Places
    <3> QED BY <3>1, <3>2
  <2>6. CASE r.files # <<>> /\ Last(p) \notin Range(r.files)
    BY <2>6 DEF Matches, HitsIn, u
  <2>7. CASE ~(r.files # <<>> /\ Last(p) \notin Range(r.files))
    <3>1. Matches(p, u, r) = {<<p, i>> : i \in Places(u, r.old)} BY <1>2, <2>7 DEF Matches
    <3>2. Matches(p, t, r) = {<<p, i>> : i \in Places(t, r.old)} BY <1>2, <2>7 DEF Matches
    <3>3. \A h : (h \in Matches(p, u, r) <=> h \in HitsIn(p, t, r))
      BY <2>5, <3>1, <3>2 DEF HitsIn
    <3> QED BY <3>3 DEF u
  <2> QED BY <2>6, <2>7
<1> QED BY <1>1, <1>2

LEMMA EntriesAre ==
  ASSUME IsTree(tree), NEW p, NEW es, es = Entries(p)
  PROVE  /\ es \in Seq([at : Path, listed : {FALSE}, dir : BOOLEAN])
         /\ Children(p) # {} => es # <<>>
         /\ \A i \in DOMAIN es : es[i].at \in Children(p) /\ es[i].dir = IsDir(es[i].at)
         /\ \A i, k \in DOMAIN es : es[i].at = es[k].at => i = k
         /\ \A q \in Children(p) : \E i \in DOMAIN es : es[i].at = q
<1> DEFINE C == Children(p)  n == Cardinality(C)  f == SetToSeq(C)
           E == [at : Path, listed : {FALSE}, dir : BOOLEAN]
<1>1. C \subseteq DOMAIN tree /\ C \subseteq Path /\ IsFiniteSet(C)
  BY FS_Subset DEF Children, ChildrenIn, IsTree
<1>2. /\ n \in Nat /\ f \in [1 .. n -> C]
      /\ \A i, k \in 1 .. n : f[i] = f[k] => i = k
      /\ \A x \in C : \E i \in 1 .. n : f[i] = x
  BY <1>1, OnceEach
<1>3. C = {} <=> n = 0 BY <1>1, FS_EmptySet
<1>4. es = [i \in DOMAIN f |-> Entry(f[i])] BY DEF Entries
<1> HIDE DEF C, n, f
<1>5. DOMAIN es = 1 .. n /\ \A i \in 1 .. n : es[i] = Entry(f[i]) BY <1>2, <1>4
<1>6. \A i \in 1 .. n : es[i].at = f[i] /\ es[i].dir = IsDir(f[i]) /\ es[i].listed = FALSE
  BY <1>5 DEF Entry
<1>7. \A i \in 1 .. n : es[i] \in E
  <2>1. \A q : IsDir(q) \in BOOLEAN BY DEF IsDir
  <2>2. \A q \in Path : Entry(q) \in E BY <2>1 DEF Entry
  <2> HIDE DEF E
  <2>3. \A i \in 1 .. n : f[i] \in Path BY <1>1, <1>2
  <2> QED BY <1>5, <2>2, <2>3
<1>8. es \in [1 .. n -> E] BY <1>2, <1>4, <1>5, <1>7
<1> HIDE DEF E
<1>9. es \in Seq(E) /\ (n # 0 => es # <<>>) BY <1>2, <1>8, SameLength
<1> QED BY <1>2, <1>3, <1>5, <1>6, <1>9 DEF C, E

-------------------------------------------------------------------------------
(* Steps *)

LEMMA QuietIsWatched ==
  ASSUME ReaderInv, UNCHANGED <<tree, data, same>>
  PROVE  Watch /\ View' = View
<1>1. View' = View BY DEF View
<1>2. \A c \in Client : same[c] \subseteq DOMAIN View BY DEF ReaderInv, ReaderOK
<1>3. \A c \in Client : {p \in same[c] : p \in DOMAIN View /\ View[p] = View[p]} = same[c] BY <1>2
<1>4. same = [c \in Client |-> same[c]] BY DEF ReaderInv
<1>5. same = [c \in Client |-> {p \in same[c] : p \in DOMAIN View /\ View[p] = View[p]}] BY <1>3, <1>4
<1> QED BY <1>1, <1>5 DEF Watch

\* a step of one client
LEMMA ReaderStepOf ==
  ASSUME TreeInv, TreeInv', ReaderInv, NEW c \in Client, Watch, req' = req,
         answer' = [d \in Client |-> answer'[d]],
         \A d \in Client \ {c} : pc'[d] = pc[d] /\ answer'[d] = answer[d],
         \A d \in Client \ {c} : job'[d] = job[d] \/ \E p, q : job'[d] = Follows(job[d], p, q),
         ReaderOK(View, same[c], pc'[c], req[c], job'[c], answer'[c])
  PROVE  ReaderInv'
<1> DEFINE v == View  w == View'
           u(d) == {p \in same[d] : p \in DOMAIN w /\ w[p] = v[p]}
<1>1. IsView(v) /\ IsView(w)
  <2>1. IsTree(tree) /\ IsTree(tree)' BY DEF TreeInv
  <2>2. IsView(View) BY <2>1, ViewIs
  <2>3. w = [p \in DOMAIN tree' |-> IF tree'[p] = DirIno THEN Dir ELSE File(data'[tree'[p]])]
    BY DEF View
  <2>4. IsTree(tree') BY <2>1
  <2> HIDE DEF w
  <2>5. IsView(w) BY <2>3, <2>4, ViewOfTree
  <2> QED BY <2>2, <2>5
<1>2. same' = [d \in Client |-> u(d)] BY DEF Watch
<1> HIDE DEF v, w
<1>3. ASSUME NEW d \in Client PROVE ReaderOK(w, same'[d], pc'[d], req'[d], job'[d], answer'[d])
  <2>1. ReaderOK(v, same[d], pc'[d], req[d], job'[d], answer'[d])
    <3>1. CASE d = c BY <3>1 DEF v
    <3>2. CASE d # c
      <4>1. ReaderOK(v, same[d], pc'[d], req[d], job[d], answer'[d]) /\ JobOK(job[d])
        BY <3>2 DEF ReaderInv, v, TreeInv
      <4>2. \A p, q : ReaderOK(v, same[d], pc'[d], req[d], Follows(job[d], p, q), answer'[d])
        BY <4>1, FollowsReader
      <4> QED BY <3>2, <4>1, <4>2
    <3> QED BY <3>1, <3>2
  <2>2. same'[d] = u(d) BY <1>2
  <2>3. ReaderOK(w, u(d), pc'[d], req[d], job'[d], answer'[d]) BY <1>1, <2>1, StillOK
  <2> QED BY <2>2, <2>3
<1>4. same' = [d \in Client |-> same'[d]] BY <1>2
<1> QED BY <1>3, <1>4 DEF ReaderInv, w

\* what a step of c leaves alone
OnlyOf(c) ==
  /\ answer' = [d \in Client |-> answer'[d]]
  /\ \A d \in Client \ {c} :
       /\ pc'[d] = pc[d] /\ answer'[d] = answer[d]
       /\ job'[d] = job[d] \/ \E p, q : job'[d] = Follows(job[d], p, q)

\* a step of a client that neither lists nor searches
LEMMA OtherStepOf ==
  ASSUME TreeInv, TreeInv', ReaderInv, NEW c \in Client, Watch, req' = req, OnlyOf(c),
         pc[c] \notin {"list", "info", "search", "visit", "answered"}
  PROVE  ReaderInv'
<1>1. /\ same[c] \subseteq DOMAIN View /\ Closed(same[c])
      /\ req[c].op # "list" /\ req[c].op # "search"
  BY DEF ReaderInv, ReaderOK
<1>2. ReaderOK(View, same[c], pc'[c], req[c], job'[c], answer'[c]) BY <1>1 DEF ReaderOK
<1> QED BY <1>2, ReaderStepOf DEF OnlyOf

LEMMA OnlyFinish ==
  ASSUME TreeInv, ReaderInv, NEW c \in Client, NEW s, NEW b, Finish(c, s) \/ FinishWith(c, s, b)
  PROVE  OnlyOf(c)
BY DEF OnlyOf, TreeInv, ReaderInv, Finish, FinishWith, Answer, AnswerWith, Goto

LEMMA OnlyMoves ==
  ASSUME TreeInv, ReaderInv, NEW c \in Client, NEW l, NEW j, Goto(c, l) \/ pc' = pc,
         job' = job \/ job' = [job EXCEPT ![c] = j], answer' = answer
  PROVE  OnlyOf(c)
BY DEF OnlyOf, TreeInv, ReaderInv, Goto

LEMMA OnlyMadeDirs ==
  ASSUME TreeInv, ReaderInv, NEW c \in Client, MadeDirs(c)
  PROVE  OnlyOf(c)
BY OnlyFinish, OnlyMoves DEF MadeDirs

\* the calls that make no change to the tree
LEMMA QuietSteps ==
  ASSUME TreeInv, TreeInv', ReaderInv, NEW c \in Client,
         \/ Stat(c) \/ OpenSource(c) \/ ReadOld(c) \/ Lstat(c) \/ RefuseRoot(c)
         \/ StatPath(c) \/ Chmod(c) \/ Measure(c) \/ Send(c)
  PROVE  ReaderInv'
<1>1. /\ UNCHANGED <<tree, data, req, same>>
      /\ pc[c] \in {"make", "source", "read", "lstat", "remove", "stat", "chmod", "size", "send"}
  BY DEF Stat, OpenSource, ReadOld, Lstat, RefuseRoot, StatPath, Chmod, Measure, Send, Look, history
<1>2. Watch BY <1>1, QuietIsWatched
<1>3. OnlyOf(c)
  <2>1. CASE \E s, b : Finish(c, s) \/ FinishWith(c, s, b) BY <2>1, OnlyFinish
  <2>2. CASE \E l, j : /\ Goto(c, l) \/ pc' = pc
                       /\ job' = job \/ job' = [job EXCEPT ![c] = j]
                       /\ answer' = answer
    BY <2>2, OnlyMoves
  <2>3. CASE Stat(c) BY <2>1, <2>2, <2>3, OnlyMadeDirs DEF Stat
  <2>4. CASE OpenSource(c) BY <2>1, <2>2, <2>4 DEF OpenSource
  <2>5. CASE ReadOld(c) BY <2>1, <2>2, <2>5 DEF ReadOld
  <2>6. CASE Lstat(c) BY <2>1, <2>2, <2>6 DEF Lstat
  <2>7. CASE RefuseRoot(c) \/ StatPath(c) \/ Chmod(c) \/ Send(c)
    BY <2>1, <2>7 DEF RefuseRoot, StatPath, Chmod, Send, Look
  <2>8. CASE Measure(c) BY <2>2, <2>8 DEF Measure
  <2> QED BY <2>3, <2>4, <2>5, <2>6, <2>7, <2>8
<1> QED BY <1>1, <1>2, <1>3, OtherStepOf

\* the calls that change it
LEMMA ChangingSteps ==
  ASSUME TreeInv, TreeInv', ReaderInv, NEW c \in Client,
         Mkdir(c) \/ Open(c) \/ Fill(c) \/ Rename(c) \/ RemoveEntry(c)
  PROVE  ReaderInv'
<1>1. Watch /\ req' = req /\ pc[c] \in {"mkdir", "open", "fill", "rename", "remove"}
  BY DEF Mkdir, Open, Fill, Rename, RemoveEntry
<1>2. OnlyOf(c)
  <2>1. CASE \E s, b : Finish(c, s) \/ FinishWith(c, s, b) BY <2>1, OnlyFinish
  <2>2. CASE \E l, j : /\ Goto(c, l) \/ pc' = pc
                       /\ job' = job \/ job' = [job EXCEPT ![c] = j]
                       /\ answer' = answer
    BY <2>2, OnlyMoves
  <2>3. CASE Mkdir(c) BY <2>1, <2>2, <2>3, OnlyMadeDirs DEF Mkdir
  <2>4. CASE Open(c) BY <2>1, <2>2, <2>4 DEF Open
  <2>5. CASE Fill(c) BY <2>1, <2>2, <2>5 DEF Fill, NextFile
  <2>6. CASE Rename(c)
    <3> DEFINE p == req[c].path  q == req[c].to
    <3>1. CASE /\ job' = [d \in Client |-> IF d = c THEN NoJob ELSE Follows(job[d], p, q)]
               /\ Answer(c, "ok")
      <4>1. \A d \in Client \ {c} : job'[d] = Follows(job[d], p, q) BY <3>1
      <4> QED BY <3>1, <4>1 DEF OnlyOf, TreeInv, ReaderInv, Answer, AnswerWith, Goto
    <3> QED BY <2>1, <2>6, <3>1 DEF Rename
  <2>7. CASE RemoveEntry(c)
    <3> DEFINE todo == job[c].todo  p == Last(todo).at
               removed == \/ IsFile(p) /\ ~Last(todo).listed
                          \/ IsDir(p) /\ Children(p) = {}
               j == [job[c] EXCEPT !.todo = Front(todo)]
    <3>1. CASE MustList(Last(todo)) BY <2>2, <2>7, <3>1 DEF RemoveEntry
    <3>2. CASE ~MustList(Last(todo))
      <4>1. /\ job' = [d \in Client |-> IF d = c THEN j
                         ELSE IF removed THEN Follows(job[d], Nowhere, p) ELSE job[d]]
            /\ UNCHANGED <<pc, answer>> \/ \E s : Answer(c, s)
        BY <2>7, <3>2 DEF RemoveEntry
      <4> HIDE DEF j, removed
      <4>2. \A d \in Client \ {c} : job'[d] = Follows(job[d], Nowhere, p) \/ job'[d] = job[d]
        BY <4>1
      <4> HIDE DEF p, todo
      <4> QED BY <4>1, <4>2 DEF OnlyOf, TreeInv, ReaderInv, Answer, AnswerWith, Goto
    <3> QED BY <3>1, <3>2
  <2> QED BY <2>3, <2>4, <2>5, <2>6, <2>7
<1> QED BY <1>1, <1>2, OtherStepOf

LEMMA ReturnReader ==
  ASSUME TreeInv, ReaderInv, NEW c \in Client, Return(c)
  PROVE  ReaderInv'
<1>1. /\ tree' = tree /\ req' = [req EXCEPT ![c] = NoReq] /\ job' = job
      /\ pc' = [pc EXCEPT ![c] = "idle"] /\ same' = [same EXCEPT ![c] = {}]
      /\ answer' = [answer EXCEPT ![c] = NoAnswer]
      /\ data' = [i \in Ino |-> IF i \in InUse THEN data[i] ELSE <<>>]
  BY DEF Return, Goto
<1>2. View' = View
  <2>1. ASSUME NEW p \in DOMAIN tree, tree[p] # DirIno PROVE data'[tree[p]] = data[tree[p]]
    <3>1. tree[p] \in Ino BY <2>1 DEF TreeInv, IsTree
    <3>2. tree[p] \in InUse BY DEF InUse, Range
    <3> QED BY <1>1, <3>1, <3>2
  <2>2. \A p \in DOMAIN tree : (IF tree[p] = DirIno THEN Dir ELSE File(data'[tree[p]]))
                               = IF tree[p] = DirIno THEN Dir ELSE File(data[tree[p]])
    BY <2>1
  <2> QED BY <1>1, <2>2 DEF View
<1>3. ASSUME NEW d \in Client
      PROVE  ReaderOK(View, same'[d], pc'[d], req'[d], job'[d], answer'[d])
  <2>1. CASE d = c
    <3>1. same'[c] = {} /\ req'[c] = NoReq BY <1>1 DEF ReaderInv, TreeInv
    <3>2. NoReq.op = "none" BY DEF NoReq
    <3>3. Closed({}) BY DEF Closed
    <3> QED BY <2>1, <3>1, <3>2, <3>3 DEF ReaderOK
  <2>2. CASE d # c
    BY <1>1, <2>2 DEF ReaderInv, TreeInv
  <2> QED BY <2>1, <2>2
<1>4. same' = [d \in Client |-> same'[d]] /\ answer' = [d \in Client |-> answer'[d]]
  BY <1>1 DEF ReaderInv
<1> QED BY <1>2, <1>3, <1>4 DEF ReaderInv

LEMMA AcceptReader ==
  ASSUME TreeInv, ReaderInv, NEW c \in Client, NEW q \in Requests, Accept(c, q)
  PROVE  ReaderInv'
<1> DEFINE r == Resolved(q)
<1>1. /\ UNCHANGED <<tree, data, answer>> /\ req' = [req EXCEPT ![c] = r]
      /\ same' = [same EXCEPT ![c] = IF r.op \in {"list", "search"} THEN DOMAIN tree ELSE {}]
      /\ \A d \in Client \ {c} : pc'[d] = pc[d] /\ job'[d] = job[d]
  BY DEF Accept, Goto, TreeInv
<1>2. r.op \in {"list", "search"} => pc'[c] = r.op /\ job'[c] = NoJob
  BY DEF Accept, Goto, TreeInv, Reads
<1> HIDE DEF r
<1>3. View' = View BY <1>1 DEF View
<1>4. ASSUME NEW d \in Client
      PROVE  ReaderOK(View, same'[d], pc'[d], req'[d], job'[d], answer[d])
  <2>1. CASE d = c
    <3>1. same'[c] \subseteq DOMAIN View /\ Closed(same'[c])
      <4>1. DOMAIN View = DOMAIN tree /\ Closed(DOMAIN tree) BY ViewIs, TreeIsClosed DEF TreeInv
      <4>2. Closed({}) BY DEF Closed
      <4> QED BY <1>1, <4>1, <4>2 DEF ReaderInv
    <3>2. req'[c] = r BY <1>1 DEF TreeInv
    <3>3. r.op = "search" => job'[c].found = {} BY <1>2 DEF NoJob
    <3> QED BY <1>2, <2>1, <3>1, <3>2, <3>3 DEF ReaderOK
  <2>2. CASE d # c
    BY <1>1, <2>2 DEF ReaderInv, TreeInv
  <2> QED BY <2>1, <2>2
<1>5. same' = [d \in Client |-> same'[d]] /\ answer' = [d \in Client |-> answer'[d]]
  BY <1>1 DEF ReaderInv
<1> QED BY <1>1, <1>3, <1>4, <1>5 DEF ReaderInv

-------------------------------------------------------------------------------
(* The steps of a reader *)

LEMMA LimitOK == ASSUME NEW r, Asked(r) PROVE r.limit \in Nat
<1>1. CASE r = NoReq BY <1>1 DEF NoReq, DefaultLimit
<1>2. CASE \E q \in Requests : r = Resolved(q)
  <2>1. PICK q \in Requests : r = Resolved(q) BY <1>2
  <2>2. r.limit = IF q.limit > 0 THEN q.limit ELSE DefaultLimit
    BY <2>1, RequestsAssumption DEF Resolved, NoReq
  <2>3. q.limit \in Int BY RequestsAssumption
  <2> QED BY <2>2, <2>3 DEF DefaultLimit
<1> QED BY <1>1, <1>2 DEF Asked

\* on to the next entry, or the answer
LEMMA GoOnReader ==
  ASSUME TreeInv, TreeInv', ReaderInv, NEW c \in Client, NEW rest, NEW found,
         UNCHANGED <<tree, data, req, same>>, GoOn(c, rest, found), rest # <<>> => Stack(rest),
         \/ /\ pc[c] = "info" /\ req[c].op = "list"
            /\ req[c].path \in same[c] /\ View[req[c].path].dir =>
                 Listing(View, same[c], req[c], rest, found)
         \/ /\ pc[c] = "visit" /\ req[c].op = "search"
            /\ \/ Searching(View, same[c], req[c], rest, found)
               \/ rest = <<>> /\ Cardinality(found) = req[c].limit
  PROVE  ReaderInv'
<1> DEFINE v == View  s == same[c]  r == req[c]
<1>1. Watch BY QuietIsWatched
<1>2. OnlyOf(c)
  <2>1. CASE rest = <<>> BY <2>1, OnlyFinish DEF GoOn
  <2>2. CASE rest # <<>>
    <3> DEFINE j == [job[c] EXCEPT !.todo = rest, !.found = found]
    <3>1. job' = [job EXCEPT ![c] = j] /\ UNCHANGED <<pc, answer>> BY <2>2 DEF GoOn
    <3> HIDE DEF j
    <3> QED BY <3>1, OnlyMoves
  <2> QED BY <2>1, <2>2
<1>3. s \subseteq DOMAIN v /\ Closed(s) BY DEF ReaderInv, ReaderOK
<1> HIDE DEF v
<1>4. ReaderOK(v, s, pc'[c], r, job'[c], answer'[c])
  <2>1. CASE rest = <<>>
    <3>1. pc'[c] = "answered" /\ answer'[c].status = "ok" /\ answer'[c].body = found
      BY <2>1 DEF GoOn, FinishWith, AnswerWith, Goto, TreeInv, ReaderInv
    <3>2. DOMAIN rest = {} BY <2>1
    <3>3. CASE r.op = "list"
      <4>1. r.path \in s /\ v[r.path].dir => Listing(v, s, r, rest, found) BY <3>3 DEF v
      <4> QED BY <1>3, <3>1, <3>2, <3>3, <4>1 DEF ReaderOK, Listing
    <3>4. CASE r.op = "search"
      <4>1. Searching(v, s, r, rest, found) \/ Cardinality(found) = r.limit BY <3>4 DEF v
      <4> QED BY <1>3, <3>1, <3>2, <3>4, <4>1 DEF ReaderOK, Searching
    <3> QED BY <3>3, <3>4
  <2>2. CASE rest # <<>>
    <3>1. pc' = pc /\ job'[c] = [job[c] EXCEPT !.todo = rest, !.found = found]
      BY <2>2 DEF GoOn, TreeInv
    <3>2. job'[c].todo = rest /\ job'[c].found = found
      BY <3>1 DEF TreeInv, JobOK, NoJob
    <3> QED BY <1>3, <2>2, <3>1, <3>2 DEF ReaderOK, v
  <2> QED BY <2>1, <2>2
<1> QED BY <1>1, <1>2, <1>4, ReaderStepOf DEF OnlyOf, v

LEMMA ReadDirReader ==
  ASSUME TreeInv, TreeInv', ReaderInv, NEW c \in Client, ReadDir(c)
  PROVE  ReaderInv'
<1> DEFINE v == View  s == same[c]  r == req[c]  p == r.path
<1>1. pc[c] = "list" /\ UNCHANGED <<tree, data, req, same>> BY DEF ReadDir, history
<1>2. Watch BY <1>1, QuietIsWatched
<1>3. /\ s \subseteq DOMAIN v /\ Closed(s) /\ r.op # "search" /\ DOMAIN v = DOMAIN tree
      /\ \A q \in DOMAIN tree : v[q].dir = IsDir(q)
  BY <1>1, ViewIs DEF ReaderInv, ReaderOK, TreeInv
<1>4. \A q \in s : q # Root /\ Parent(q) = p => q \in Children(p)
  BY <1>3 DEF Children, ChildrenIn
<1> HIDE DEF v
<1>5. CASE Children(p) # {} /\ job' = [job EXCEPT ![c].todo = Entries(p)] /\ Goto(c, "info") /\ UNCHANGED answer
  <2> DEFINE j == [job[c] EXCEPT !.todo = Entries(p)]
  <2>1. job' = [job EXCEPT ![c] = j] BY <1>5
  <2>2. job'[c] = j /\ j.todo = Entries(p) BY <2>1 DEF TreeInv, JobOK, NoJob
  <2> HIDE DEF j
  <2>3. OnlyOf(c) BY <1>5, <2>1, OnlyMoves
  <2> DEFINE es == Entries(p)
  <2>4. /\ es \in Seq([at : Path, listed : {FALSE}, dir : BOOLEAN])
        /\ Children(p) # {} => es # <<>>
        /\ \A q \in Children(p) : \E i \in DOMAIN es : es[i].at = q
    <3>1. IsTree(tree) /\ es = Entries(p) BY DEF TreeInv
    <3> HIDE DEF p, es
    <3> QED BY <3>1, EntriesAre, ZenonT(60)
  <2> HIDE DEF es
  <2>5. Stack(es) BY <1>5, <2>4 DEF Stack
  <2>6. Listing(v, s, r, es, j.found) BY <1>4, <2>4 DEF Listing
  <2>7. pc'[c] = "info" BY <1>5 DEF Goto, TreeInv
  <2>8. j.todo = es BY <2>2 DEF es
  <2>9. ReaderOK(v, s, pc'[c], r, job'[c], answer'[c])
    BY <1>3, <2>2, <2>5, <2>6, <2>7, <2>8 DEF ReaderOK
  <2> QED BY <1>1, <1>2, <2>3, <2>9, ReaderStepOf DEF OnlyOf, v
<1>6. CASE \/ (p \notin DOMAIN tree \/ IsFile(p)) /\ \E st : Finish(c, st)
           \/ Children(p) = {} /\ FinishWith(c, "ok", {})
  <2>1. OnlyOf(c) BY <1>6, OnlyFinish
  <2>2. pc'[c] = "answered" /\ (Children(p) = {} /\ FinishWith(c, "ok", {}) => answer'[c].status = "ok")
    BY <1>6 DEF Finish, Answer, FinishWith, AnswerWith, Goto, TreeInv, ReaderInv
  <2>3. p \notin DOMAIN tree \/ IsFile(p) => ~(p \in s /\ v[p].dir)
    BY <1>3 DEF IsFile, IsDir
  <2>4. ReaderOK(v, s, pc'[c], r, job'[c], answer'[c])
    BY <1>3, <1>4, <1>6, <2>2, <2>3 DEF ReaderOK
  <2> QED BY <1>1, <1>2, <2>1, <2>4, ReaderStepOf DEF OnlyOf, v
<1> QED BY <1>5, <1>6 DEF ReadDir

\* taking an entry off a stack
LEMMA StackTail ==
  ASSUME NEW todo, Stack(todo)
  PROVE  /\ Len(todo) \in Nat \ {0} /\ DOMAIN todo = 1 .. Len(todo) /\ Head(todo) = todo[1]
         /\ Tail(todo) \in Seq([at : Path, listed : {FALSE}, dir : BOOLEAN])
         /\ Tail(todo) # <<>> => Stack(Tail(todo))
         /\ DOMAIN Tail(todo) = 1 .. Len(todo) - 1
         /\ \A i \in DOMAIN Tail(todo) : i + 1 \in DOMAIN todo /\ i + 1 # 1 /\ Tail(todo)[i] = todo[i + 1]
         /\ \A i \in DOMAIN todo : i # 1 => i - 1 \in DOMAIN Tail(todo) /\ Tail(todo)[i - 1] = todo[i]
         /\ \A i \in DOMAIN todo : todo[i].at \in Path /\ todo[i].dir \in BOOLEAN
<1> DEFINE E == [at : Path, listed : {FALSE}, dir : BOOLEAN]  t == Tail(todo)  n == Len(todo)
<1>1. todo \in Seq(E) /\ todo # <<>> BY DEF Stack
<1>2. \A e \in E : e.at \in Path /\ e.dir \in BOOLEAN OBVIOUS
<1>3. Stack(t) <=> t \in Seq(E) /\ t # <<>> BY DEF Stack
<1> HIDE DEF E
<1>4. n \in Nat \ {0} /\ DOMAIN todo = 1 .. n /\ Head(todo) = todo[1]
  BY <1>1, EmptySeq, LenProperties
<1>5. /\ t \in Seq(E) /\ Len(t) = n - 1
      /\ \A i \in 1 .. Len(t) : t[i] = todo[i + 1]
  BY <1>1, HeadTailProperties
<1> HIDE DEF t
<1>6. DOMAIN t = 1 .. n - 1 BY <1>5, LenProperties
<1>7. \A i \in 1 .. n : todo[i] \in E BY <1>1, ElementOfSeq
<1> HIDE DEF n
<1>8. \A i \in 1 .. n - 1 : i + 1 \in 1 .. n /\ i + 1 # 1 BY <1>4
<1>9. \A i \in 1 .. n : i # 1 => i - 1 \in 1 .. n - 1 /\ (i - 1) + 1 = i BY <1>4
<1>10. \A i \in 1 .. n - 1 : t[i] = todo[i + 1] BY <1>5
<1>11. \A i \in 1 .. n : i # 1 => t[i - 1] = todo[i] BY <1>9, <1>10
<1> QED BY <1>2, <1>3, <1>4, <1>5, <1>6, <1>7, <1>8, <1>9, <1>10, <1>11 DEF t, n, E

LEMMA InfoReader ==
  ASSUME TreeInv, TreeInv', ReaderInv, NEW c \in Client, Info(c)
  PROVE  ReaderInv'
<1> DEFINE v == View  s == same[c]  r == req[c]  j == job[c]  p == Head(j.todo).at
           found == j.found \cup IF p \in DOMAIN tree THEN {<<p, IsDir(p)>>} ELSE {}
<1>1. pc[c] = "info" /\ UNCHANGED <<tree, data, req, same>> /\ GoOn(c, Tail(j.todo), found)
  BY DEF Info, history
<1>2. r.op # "search" /\ s \subseteq DOMAIN v /\ Closed(s)
  BY <1>1 DEF ReaderInv, ReaderOK
<1>3. CASE r.op # "list"
  <2>1. Watch BY <1>1, QuietIsWatched
  <2>2. ReaderOK(View, same[c], pc'[c], req[c], job'[c], answer'[c]) BY <1>2, <1>3 DEF ReaderOK
  <2>3. OnlyOf(c)
    <3>1. CASE Tail(j.todo) = <<>> BY <1>1, <3>1, OnlyFinish DEF GoOn
    <3>2. CASE Tail(j.todo) # <<>>
      <4> DEFINE k == [job[c] EXCEPT !.todo = Tail(j.todo), !.found = found]
      <4>1. job' = [job EXCEPT ![c] = k] /\ UNCHANGED <<pc, answer>> BY <1>1, <3>2 DEF GoOn
      <4> HIDE DEF k
      <4> QED BY <4>1, OnlyMoves
    <3> QED BY <3>1, <3>2
  <2> QED BY <1>1, <2>1, <2>2, <2>3, ReaderStepOf DEF OnlyOf
<1>4. CASE r.op = "list"
  <2>1. Stack(j.todo) /\ (r.path \in s /\ v[r.path].dir => Listing(v, s, r, j.todo, j.found))
    BY <1>1, <1>4 DEF ReaderInv, ReaderOK
  <2>2. /\ Head(j.todo) = j.todo[1] /\ (Tail(j.todo) # <<>> => Stack(Tail(j.todo)))
        /\ \A i \in DOMAIN j.todo : i # 1 =>
             i - 1 \in DOMAIN Tail(j.todo) /\ Tail(j.todo)[i - 1] = j.todo[i]
    BY <2>1, StackTail
  <2>3. DOMAIN v = DOMAIN tree /\ \A q \in DOMAIN tree : v[q].dir = IsDir(q)
    BY ViewIs DEF TreeInv
  <2> HIDE DEF v
  <2>4. ASSUME r.path \in s, v[r.path].dir PROVE Listing(v, s, r, Tail(j.todo), found)
    <3> SUFFICES ASSUME NEW q \in s, q # Root, Parent(q) = r.path
                 PROVE  <<q, v[q].dir>> \in found \/ \E i \in DOMAIN Tail(j.todo) : Tail(j.todo)[i].at = q
      BY DEF Listing
    <3>1. CASE <<q, v[q].dir>> \in j.found BY <3>1
    <3>2. CASE \E i \in DOMAIN j.todo : j.todo[i].at = q
      <4>1. PICK i \in DOMAIN j.todo : j.todo[i].at = q BY <3>2
      <4>2. CASE i = 1
        <5>1. q = p /\ p \in DOMAIN tree BY <1>2, <2>2, <2>3, <4>1, <4>2
        <5>2. v[q].dir = IsDir(p) BY <2>3, <5>1
        <5>3. <<p, IsDir(p)>> \in found BY <5>1
        <5> QED BY <5>1, <5>2, <5>3, Zenon
      <4>3. CASE i # 1 BY <2>2, <4>1, <4>3
      <4> QED BY <4>2, <4>3
    <3> QED BY <2>1, <2>4, <3>1, <3>2 DEF Listing
  <2> HIDE DEF found
  <2> QED BY <1>1, <1>4, <2>2, <2>4, GoOnReader DEF v
<1> QED BY <1>3, <1>4

LEMMA WalkReader ==
  ASSUME TreeInv, TreeInv', ReaderInv, NEW c \in Client, Walk(c)
  PROVE  ReaderInv'
<1> DEFINE v == View  s == same[c]  r == req[c]  p == r.path  e == Entry(p)
<1>1. pc[c] = "search" /\ UNCHANGED <<tree, data, req, same>> BY DEF Walk, history
<1>2. Watch BY <1>1, QuietIsWatched
<1>3. /\ s \subseteq DOMAIN v /\ Closed(s) /\ r.op # "list" /\ DOMAIN v = DOMAIN tree
      /\ \A q \in DOMAIN tree : v[q].dir = IsDir(q)
      /\ r.op = "search" => job[c].found = {}
      /\ p \in Path /\ r.limit \in Nat
  BY <1>1, ViewIs, JobOf, LimitOK DEF ReaderInv, ReaderOK, TreeInv
<1> HIDE DEF v
<1>4. CASE p \notin DOMAIN tree /\ FinishWith(c, "ok", {})
  <2>1. OnlyOf(c) BY <1>4, OnlyFinish
  <2>2. pc'[c] = "answered" BY <1>4 DEF FinishWith, AnswerWith, Goto, TreeInv
  <2>3. \A q \in s : ~IsPrefix(p, q) BY <1>3, <1>4 DEF Closed
  <2>4. ReaderOK(v, s, pc'[c], r, job'[c], answer'[c]) BY <1>3, <2>2, <2>3 DEF ReaderOK
  <2> QED BY <1>1, <1>2, <2>1, <2>4, ReaderStepOf DEF OnlyOf, v
<1>5. CASE job' = [job EXCEPT ![c].todo = <<e>>] /\ Goto(c, "visit") /\ UNCHANGED answer
           /\ p \in DOMAIN tree
  <2> DEFINE j == [job[c] EXCEPT !.todo = <<e>>]
  <2>1. job' = [job EXCEPT ![c] = j] BY <1>5
  <2>2. job'[c] = j /\ j.todo = <<e>> /\ j.found = job[c].found BY <2>1 DEF TreeInv, JobOK, NoJob
  <2> HIDE DEF j
  <2>3. OnlyOf(c) BY <1>5, <2>1, OnlyMoves
  <2>4. e.at = p /\ e.dir = IsDir(p) /\ e \in [at : Path, listed : {FALSE}, dir : BOOLEAN]
    <3>1. IsDir(p) \in BOOLEAN BY DEF IsDir
    <3> QED BY <1>3, <3>1 DEF Entry
  <2> HIDE DEF e
  <2> DEFINE todo == <<e>>
  <2>5. Stack(todo) /\ DOMAIN todo = {1} /\ todo[1] = e
    <3> DEFINE E == [at : Path, listed : {FALSE}, dir : BOOLEAN]
    <3>1. Stack(todo) <=> todo \in Seq(E) /\ todo # <<>> BY DEF Stack
    <3>2. e \in E BY <2>4
    <3> HIDE DEF E
    <3> QED BY <3>1, <3>2
  <2> HIDE DEF todo
  <2>6. IsFiniteSet({}) /\ Cardinality({}) = 0 BY FS_EmptySet
  <2>7. p \in s => e.dir = v[p].dir BY <1>3, <2>4, Zenon
  <2>8. Searching(v, s, r, todo, {})
    BY <1>3, <2>4, <2>5, <2>6, <2>7 DEF Searching
  <2>9. pc'[c] = "visit" BY <1>5 DEF Goto, TreeInv
  <2>10. ReaderOK(v, s, pc'[c], r, job'[c], answer'[c])
    BY <1>3, <2>2, <2>5, <2>8, <2>9 DEF ReaderOK, todo
  <2> QED BY <1>1, <1>2, <2>3, <2>10, ReaderStepOf DEF OnlyOf, v
<1> QED BY <1>4, <1>5 DEF Walk

\* where what is in a concatenation comes from
LEMMA ConcatParts ==
  ASSUME NEW E, NEW a \in Seq(E), NEW b \in Seq(E)
  PROVE  /\ a \o b \in Seq(E) /\ Len(a) \in Nat /\ DOMAIN a = 1 .. Len(a)
         /\ \A i \in DOMAIN a : i \in DOMAIN (a \o b) /\ (a \o b)[i] = a[i]
         /\ \A k \in DOMAIN b : Len(a) + k \in DOMAIN (a \o b) /\ (a \o b)[Len(a) + k] = b[k]
         /\ \A i \in DOMAIN (a \o b) :
              \/ i \in DOMAIN a /\ (a \o b)[i] = a[i]
              \/ \E k \in DOMAIN b : i = Len(a) + k /\ (a \o b)[i] = b[k]
<1> DEFINE u == a \o b  m == Len(a)  n == Len(b)
<1>1. /\ u \in Seq(E) /\ Len(u) = m + n
      /\ \A i \in 1 .. m + n : u[i] = IF i <= m THEN a[i] ELSE b[i - m]
  BY ConcatProperties
<1> HIDE DEF u
<1>2. m \in Nat /\ n \in Nat /\ DOMAIN a = 1 .. m /\ DOMAIN b = 1 .. n /\ DOMAIN u = 1 .. m + n
  BY <1>1, LenProperties
<1> HIDE DEF m, n
<1>3. \A i \in 1 .. m : i \in 1 .. m + n /\ u[i] = a[i] BY <1>1, <1>2
<1>4. \A k \in 1 .. n : m + k \in 1 .. m + n /\ u[m + k] = b[k]
  <2> SUFFICES ASSUME NEW k \in 1 .. n PROVE m + k \in 1 .. m + n /\ u[m + k] = b[k] OBVIOUS
  <2>1. m + k \in 1 .. m + n /\ ~(m + k <= m) /\ (m + k) - m = k BY <1>2
  <2> QED BY <1>1, <2>1
<1>5. ASSUME NEW i \in 1 .. m + n
      PROVE  \/ i \in 1 .. m /\ u[i] = a[i]
             \/ \E k \in 1 .. n : i = m + k /\ u[i] = b[k]
  <2>1. CASE i <= m BY <1>1, <1>2, <2>1
  <2>2. CASE ~(i <= m)
    <3>1. i - m \in 1 .. n /\ i = m + (i - m) BY <1>2, <2>2
    <3> QED BY <1>1, <2>2, <3>1
  <2> QED BY <2>1, <2>2
<1> QED BY <1>1, <1>2, <1>3, <1>4, <1>5 DEF u, m

LEMMA PathChild ==
  ASSUME NEW e \in Path, NEW p \in Path, IsPrefix(e, p), e # p
  PROVE  \E q \in Path : q # Root /\ Parent(q) = e /\ IsPrefix(q, p)
<1>1. e \in Seq(Name) /\ p \in Seq(Name) BY FsAssumption
<1>2. PICK n \in 1 .. Len(p) : SubSeq(p, 1, n) # <<>> /\ Parent(SubSeq(p, 1, n)) = e
  BY <1>1, ChildOnTheWay
<1>3. Len(p) \in Nat BY <1>1, LenProperties
<1>4. n \in 0 .. Len(p) BY <1>3
<1>5. SubSeq(p, 1, n) \in Path /\ IsPrefix(SubSeq(p, 1, n), p)
  BY <1>1, <1>4, FirstNames, FsAssumption
<1> QED BY <1>2, <1>5 DEF Root

\* children of one directory, and what is apart from it
LEMMA ChildrenApart ==
  ASSUME NEW e \in Path, NEW a \in Path, a # Root, Parent(a) = e
  PROVE  /\ IsPrefix(e, a)
         /\ \A b \in Path : ~IsPrefix(e, b) => ~IsPrefix(a, b)
         /\ \A b \in Path : ~IsPrefix(e, b) /\ ~IsPrefix(b, e) => ~IsPrefix(b, a)
         /\ \A b \in Path : b # Root /\ Parent(b) = e /\ IsPrefix(a, b) => a = b
<1>1. e # a /\ IsPrefix(e, a) /\ \A q \in Path : IsPrefix(q, a) /\ q # a => IsPrefix(q, e)
  BY PathParent
<1>2. \A b \in Path : IsPrefix(a, b) => IsPrefix(e, b) BY <1>1, PathOrder
<1>3. \A b \in Path : IsPrefix(b, a) => b = a \/ IsPrefix(b, e) BY <1>1
<1>4. ASSUME NEW b \in Path, b # Root, Parent(b) = e, IsPrefix(a, b), a # b PROVE FALSE
  <2>1. IsPrefix(a, e) BY <1>4, PathParent
  <2> QED BY <1>1, <2>1, PathOrder
<1> QED BY <1>1, <1>2, <1>3, <1>4

\* es is all that a search finds in the directory d, every entry once
ReadWhole(v, s, d, es) ==
  /\ es \in Seq([at : Path, listed : {FALSE}, dir : BOOLEAN])
  /\ \A i \in DOMAIN es : /\ es[i].at \in Path /\ es[i].at # Root /\ Parent(es[i].at) = d
                          /\ es[i].at \in s => es[i].dir = v[es[i].at].dir
  /\ \A i, k \in DOMAIN es : es[i].at = es[k].at => i = k
  /\ \A q \in s : q # Root /\ Parent(q) = d => \E i \in DOMAIN es : es[i].at = q

\* a directory that is searched: its entries are looked at before what is left
LEMMA SearchDir ==
  ASSUME NEW v, IsView(v), NEW s, s \subseteq DOMAIN v, Closed(s), NEW r, NEW todo, NEW found,
         Stack(todo), Searching(v, s, r, todo, found), todo[1].dir,
         NEW es, ReadWhole(v, s, todo[1].at, es), NEW later, later = es \o Tail(todo)
  PROVE  Searching(v, s, r, later, found) /\ (later # <<>> => Stack(later))
<1> DEFINE E == [at : Path, listed : {FALSE}, dir : BOOLEAN]
           t == Tail(todo)  rest == es \o t  m == Len(es)  e == todo[1].at
<1>0. 1 \in DOMAIN todo
  <2>1. Len(todo) \in Nat \ {0} /\ DOMAIN todo = 1 .. Len(todo) BY StackTail
  <2> QED BY <2>1
<1>1. /\ 1 \in DOMAIN todo /\ t \in Seq(E)
      /\ \A i \in DOMAIN t : i + 1 \in DOMAIN todo /\ i + 1 # 1 /\ t[i] = todo[i + 1]
      /\ \A i \in DOMAIN todo : i # 1 => i - 1 \in DOMAIN t /\ t[i - 1] = todo[i]
      /\ \A i \in DOMAIN todo : todo[i].at \in Path /\ todo[i].dir \in BOOLEAN
  BY <1>0, StackTail
<1>2. es \in Seq(E) /\ \A x : Stack(x) <=> x \in Seq(E) /\ x # <<>>
  <2>1. es \in Seq(E) BY DEF ReadWhole
  <2>2. \A x : Stack(x) <=> x \in Seq(E) /\ x # <<>> BY DEF Stack
  <2> QED BY <2>1, <2>2
<1>3. e = todo[1].at /\ later = rest OBVIOUS
<1> HIDE DEF e
<1>4. /\ \A i \in DOMAIN es : /\ es[i].at \in Path /\ es[i].at # Root /\ Parent(es[i].at) = e
                              /\ es[i].at \in s => es[i].dir = v[es[i].at].dir
      /\ \A i, k \in DOMAIN es : es[i].at = es[k].at => i = k
      /\ \A q \in s : q # Root /\ Parent(q) = e => \E i \in DOMAIN es : es[i].at = q
  <2>1. ReadWhole(v, s, e, es) BY <1>3
  <2> QED BY <2>1 DEF ReadWhole
<1>5. e \in Path BY <1>1, <1>3
<1> HIDE DEF E, t
<1>6. /\ rest \in Seq(E)
      /\ \A i \in DOMAIN es : i \in DOMAIN rest /\ rest[i] = es[i]
      /\ \A k \in DOMAIN t : m + k \in DOMAIN rest /\ rest[m + k] = t[k]
      /\ \A i \in DOMAIN rest : \/ i \in DOMAIN es /\ rest[i] = es[i]
                                \/ \E k \in DOMAIN t : i = m + k /\ rest[i] = t[k]
  BY <1>1, <1>2, ConcatParts, SMTT(40)
<1>7. \A k \in DOMAIN t : m + k \in DOMAIN rest BY <1>6
<1> HIDE DEF rest, m
<1>8. /\ \A i \in DOMAIN todo : todo[i].at \in s => todo[i].dir = v[todo[i].at].dir
      /\ \A i, k \in DOMAIN todo : i # k => ~IsPrefix(todo[i].at, todo[k].at)
      /\ IsFiniteSet(found) /\ Cardinality(found) <= r.limit
      /\ \A h \in found : h[1] \in Path /\ \A i \in DOMAIN todo : ~IsPrefix(todo[i].at, h[1])
  BY DEF Searching
<1>9. ASSUME NEW k \in DOMAIN t
      PROVE  /\ t[k].at \in Path /\ ~IsPrefix(e, t[k].at) /\ ~IsPrefix(t[k].at, e)
             /\ t[k].at \in s => t[k].dir = v[t[k].at].dir
             /\ \A h \in found : ~IsPrefix(t[k].at, h[1])
  BY <1>1, <1>3, <1>8
<1>10. \A i, k \in DOMAIN t : i # k => ~IsPrefix(t[i].at, t[k].at)
  <2> SUFFICES ASSUME NEW i \in DOMAIN t, NEW k \in DOMAIN t, i # k
               PROVE  ~IsPrefix(t[i].at, t[k].at)
    OBVIOUS
  <2>1. i + 1 # k + 1 BY <1>1
  <2> QED BY <1>1, <1>8, <2>1
<1>11. ASSUME NEW i \in DOMAIN rest
      PROVE  /\ rest[i].at \in s => rest[i].dir = v[rest[i].at].dir
             /\ \A h \in found : ~IsPrefix(rest[i].at, h[1])
  <2>1. CASE i \in DOMAIN es /\ rest[i] = es[i]
    <3>1. \A h \in found : h[1] \in Path /\ ~IsPrefix(e, h[1]) BY <1>1, <1>3, <1>8
    <3> QED BY <1>4, <1>5, <2>1, <3>1, ChildrenApart
  <2>2. CASE \E k \in DOMAIN t : i = m + k /\ rest[i] = t[k] BY <1>9, <2>2
  <2> QED BY <1>6, <2>1, <2>2
<1>12. ASSUME NEW i \in DOMAIN rest, NEW k \in DOMAIN rest, i # k
       PROVE  ~IsPrefix(rest[i].at, rest[k].at)
  <2>1. CASE /\ i \in DOMAIN es /\ rest[i] = es[i]
             /\ k \in DOMAIN es /\ rest[k] = es[k]
    <3>1. es[i].at # es[k].at BY <1>4, <1>12, <2>1
    <3> QED BY <1>4, <1>5, <2>1, <3>1, ChildrenApart
  <2>2. CASE /\ i \in DOMAIN es /\ rest[i] = es[i]
             /\ \E x \in DOMAIN t : rest[k] = t[x]
    BY <1>4, <1>5, <1>9, <2>2, ChildrenApart
  <2>3. CASE /\ k \in DOMAIN es /\ rest[k] = es[k]
             /\ \E x \in DOMAIN t : rest[i] = t[x]
    BY <1>4, <1>5, <1>9, <2>3, ChildrenApart
  <2>4. CASE \E x, y \in DOMAIN t : x # y /\ rest[i] = t[x] /\ rest[k] = t[y]
    BY <1>10, <2>4
  <2> QED BY <1>6, <1>12, <2>1, <2>2, <2>3, <2>4
<1>13. ASSUME Cardinality(found) # r.limit, NEW p \in s, ~v[p].dir, IsPrefix(r.path, p),
              ~(HitsIn(p, v[p].text, r) \subseteq found)
       PROVE  \E i \in DOMAIN rest : IsPrefix(rest[i].at, p)
  <2>1. PICK i \in DOMAIN todo : IsPrefix(todo[i].at, p) BY <1>13 DEF Searching
  <2>2. CASE i = 1
    <3>1. p \in Path /\ IsPrefix(e, p) BY <1>3, <2>1, <2>2 DEF IsView
    <3>2. e \in s BY <1>5, <3>1 DEF Closed
    <3>3. e # p BY <1>1, <1>3, <1>8, <1>13, <3>2
    <3>4. PICK q \in Path : q # Root /\ Parent(q) = e /\ IsPrefix(q, p)
      BY <1>5, <3>1, <3>3, PathChild
    <3>5. q \in s BY <3>4 DEF Closed
    <3> QED BY <1>4, <1>6, <3>4, <3>5
  <2>3. CASE i # 1
    <3>1. i - 1 \in DOMAIN t /\ t[i - 1] = todo[i] BY <1>1, <2>3
    <3>2. m + (i - 1) \in DOMAIN rest /\ rest[m + (i - 1)] = t[i - 1] BY <1>6, <3>1
    <3> QED BY <2>1, <3>1, <3>2
  <2> QED BY <2>2, <2>3
<1>14. Searching(v, s, r, rest, found)
  BY <1>8, <1>11, <1>12, <1>13 DEF Searching
<1> QED BY <1>2, <1>3, <1>6, <1>14

\* a file that is searched
LEMMA SearchFile ==
  ASSUME NEW v, IsView(v), NEW s, s \subseteq DOMAIN v, Closed(s),
         NEW r, r.limit \in Nat, NEW todo, NEW found,
         Stack(todo), Searching(v, s, r, todo, found), ~todo[1].dir, NEW e, e = todo[1].at,
         NEW left, left = r.limit - Cardinality(found), left # 0,
         NEW H, IsFiniteSet(H), \A h \in H : h[1] = e /\ h[2] \in Nat,
         \A g, h \in H : g[2] = h[2] => g = h,
         e \in s => HitsIn(e, v[e].text, r) = H
  PROVE  Searching(v, s, r, Tail(todo), found \cup First(left, H))
<1> DEFINE t == Tail(todo)  F == First(left, H)  new == found \cup F
<1>0. 1 \in DOMAIN todo
  <2>1. Len(todo) \in Nat \ {0} /\ DOMAIN todo = 1 .. Len(todo) BY StackTail
  <2> QED BY <2>1
<1>1. /\ \A i \in DOMAIN t : i + 1 \in DOMAIN todo /\ i + 1 # 1 /\ t[i] = todo[i + 1] /\ i \in Int
      /\ \A i \in DOMAIN todo : i # 1 => i - 1 \in DOMAIN t /\ t[i - 1] = todo[i]
      /\ \A i \in DOMAIN todo : todo[i].at \in Path /\ todo[i].dir \in BOOLEAN
  BY StackTail
<1>2. /\ \A i \in DOMAIN todo : todo[i].at \in s => todo[i].dir = v[todo[i].at].dir
      /\ \A i, k \in DOMAIN todo : i # k => ~IsPrefix(todo[i].at, todo[k].at)
      /\ IsFiniteSet(found) /\ Cardinality(found) <= r.limit
      /\ \A h \in found : h[1] \in Path /\ \A i \in DOMAIN todo : ~IsPrefix(todo[i].at, h[1])
  BY DEF Searching
<1>3. e \in Path /\ IsPrefix(e, e) BY <1>0, <1>1, PathOrder
<1>4. Cardinality(found) \in Nat /\ left \in Nat
  <2>1. Cardinality(found) \in Nat BY <1>2, FS_CardinalityType
  <2> QED BY <1>2, <2>1
<1>5. /\ F \subseteq H /\ IsFiniteSet(F) /\ Cardinality(F) <= left
      /\ Cardinality(F) = left \/ F = H
  BY <1>4, FirstHits
<1> HIDE DEF t, F
<1>6. found \cap F = {}
  <2> SUFFICES ASSUME NEW h \in found, h \in F PROVE FALSE OBVIOUS
  <2>1. h[1] = e BY <1>5
  <2>2. ~IsPrefix(e, h[1]) BY <1>0, <1>2
  <2> QED BY <1>3, <2>1, <2>2
<1>7. IsFiniteSet(new) /\ Cardinality(new) = Cardinality(found) + Cardinality(F) /\ Cardinality(F) \in Nat
  <2>1. Cardinality(found \cap F) = 0 BY <1>6, FS_EmptySet
  <2>2. Cardinality(F) \in Nat BY <1>5, FS_CardinalityType
  <2>3. /\ IsFiniteSet(new)
        /\ Cardinality(new) = Cardinality(found) + Cardinality(F) - Cardinality(found \cap F)
    BY <1>2, <1>5, FS_Union
  <2> QED BY <1>4, <2>1, <2>2, <2>3
<1>8. Cardinality(new) <= r.limit /\ (Cardinality(F) = left => Cardinality(new) = r.limit)
  BY <1>2, <1>4, <1>5, <1>7
<1>9. \A h \in new : h[1] \in Path /\ \A i \in DOMAIN t : ~IsPrefix(t[i].at, h[1])
  <2> SUFFICES ASSUME NEW h \in new
               PROVE  h[1] \in Path /\ \A i \in DOMAIN t : ~IsPrefix(t[i].at, h[1])
    OBVIOUS
  <2>1. CASE h \in found BY <1>1, <1>2, <2>1
  <2>2. CASE h \in F
    <3>1. h[1] = e BY <1>5, <2>2
    <3> QED BY <1>0, <1>1, <1>2, <1>3, <3>1
  <2> QED BY <2>1, <2>2
<1>10. \A i \in DOMAIN t : t[i].at \in s => t[i].dir = v[t[i].at].dir BY <1>1, <1>2
<1>11. \A i, k \in DOMAIN t : i # k => ~IsPrefix(t[i].at, t[k].at)
  <2> SUFFICES ASSUME NEW i \in DOMAIN t, NEW k \in DOMAIN t, i # k
               PROVE  ~IsPrefix(t[i].at, t[k].at)
    OBVIOUS
  <2>1. i + 1 # k + 1 BY <1>1
  <2> QED BY <1>1, <1>2, <2>1
<1>12. ASSUME Cardinality(new) # r.limit, NEW p \in s, ~v[p].dir, IsPrefix(r.path, p)
       PROVE  HitsIn(p, v[p].text, r) \subseteq new \/ \E i \in DOMAIN t : IsPrefix(t[i].at, p)
  <2>1. F = H BY <1>5, <1>8, <1>12
  <2>2. Cardinality(found) # r.limit BY <1>4
  <2>3. CASE HitsIn(p, v[p].text, r) \subseteq found BY <2>3
  <2>4. CASE \E i \in DOMAIN todo : i # 1 /\ IsPrefix(todo[i].at, p) BY <1>1, <2>4
  <2>5. CASE IsPrefix(e, p)
    <3>1. p \in Path BY DEF IsView
    <3>2. e \in s BY <1>3, <2>5 DEF Closed
    <3>3. ~v[e].dir BY <1>0, <1>2, <3>2
    <3>4. e = p
      <4>1. e # p => v[e] = Dir BY <1>3, <2>5 DEF IsView
      <4>2. Dir.dir BY DEF Dir
      <4> QED BY <3>3, <4>1, <4>2
    <3> QED BY <2>1, <3>2, <3>4
  <2> QED BY <1>12, <2>2, <2>3, <2>4, <2>5 DEF Searching
<1> QED BY <1>7, <1>8, <1>9, <1>10, <1>11, <1>12 DEF Searching, t, F

\* a visit, in the words of what is promised
LEMMA VisitIs ==
  ASSUME TreeInv, NEW c \in Client, Visit(c)
  PROVE  LET j == job[c]  r == req[c]  e == Head(j.todo)  left == r.limit - Cardinality(j.found)
             text == IF r.old # <<>> /\ IsFile(e.at) THEN data[tree[e.at]] ELSE <<>>
         IN /\ pc[c] = "visit" /\ UNCHANGED <<tree, data, req, history>>
            /\ text \in Seq(Blocks)
            /\ IF e.dir
                 THEN GoOn(c, (IF IsDir(e.at) THEN Entries(e.at) ELSE <<>>) \o Tail(j.todo), j.found)
               ELSE IF left = 0 THEN GoOn(c, <<>>, j.found)
               ELSE GoOn(c, Tail(j.todo), j.found \cup First(left, HitsIn(e.at, text, r)))
<1> DEFINE j == job[c]  r == req[c]  e == Head(j.todo)  left == r.limit - Cardinality(j.found)
           text == IF r.old # <<>> /\ IsFile(e.at) THEN data[tree[e.at]] ELSE <<>>
           hits == Matches(e.at, Scanned(text), r)
<1>1. text \in Seq(Blocks)
  <2>1. IsFile(e.at) => data[tree[e.at]] \in Seq(Blocks) BY DEF IsFile, TreeInv, IsTree
  <2> QED BY <2>1, EmptySeq
<1>2. /\ pc[c] = "visit" /\ UNCHANGED <<tree, data, req, history>>
      /\ IF e.dir
           THEN GoOn(c, (IF IsDir(e.at) THEN Entries(e.at) ELSE <<>>) \o Tail(j.todo), j.found)
         ELSE IF left = 0 THEN GoOn(c, <<>>, j.found)
         ELSE GoOn(c, Tail(j.todo), j.found \cup First(left, hits))
  BY DEF Visit
<1> HIDE DEF text
<1>3. hits = HitsIn(e.at, text, r) BY <1>1, ScannedMatches
<1> HIDE DEF hits
<1> QED BY <1>1, <1>2, <1>3 DEF text

LEMMA VisitReader ==
  ASSUME TreeInv, TreeInv', ReaderInv, NEW c \in Client, Visit(c)
  PROVE  ReaderInv'
<1> DEFINE v == View  s == same[c]  r == req[c]  j == job[c]  e == Head(j.todo)
           left == r.limit - Cardinality(j.found)
           text == IF r.old # <<>> /\ IsFile(e.at) THEN data[tree[e.at]] ELSE <<>>
           es == IF IsDir(e.at) THEN Entries(e.at) ELSE <<>>
           H == HitsIn(e.at, text, r)
<1>1. /\ pc[c] = "visit" /\ UNCHANGED <<tree, data, req, same>>
      /\ IF e.dir THEN GoOn(c, es \o Tail(j.todo), j.found)
         ELSE IF left = 0 THEN GoOn(c, <<>>, j.found)
         ELSE GoOn(c, Tail(j.todo), j.found \cup First(left, H))
  BY VisitIs DEF history
<1>2. r.op # "list" /\ s \subseteq DOMAIN v /\ Closed(s)
  BY <1>1 DEF ReaderInv, ReaderOK
<1>3. CASE r.op # "search"
  <2>1. Watch BY <1>1, QuietIsWatched
  <2>2. ReaderOK(View, same[c], pc'[c], req[c], job'[c], answer'[c]) BY <1>2, <1>3 DEF ReaderOK
  <2>3. OnlyOf(c)
    <3>1. PICK rest, found : GoOn(c, rest, found) BY <1>1
    <3>2. CASE rest = <<>> BY <3>1, <3>2, OnlyFinish DEF GoOn
    <3>3. CASE rest # <<>>
      <4> DEFINE k == [job[c] EXCEPT !.todo = rest, !.found = found]
      <4>1. job' = [job EXCEPT ![c] = k] /\ UNCHANGED <<pc, answer>> BY <3>1, <3>3 DEF GoOn
      <4> HIDE DEF k
      <4> QED BY <4>1, OnlyMoves
    <3> QED BY <3>2, <3>3
  <2> QED BY <1>1, <2>1, <2>2, <2>3, ReaderStepOf DEF OnlyOf
<1>4. CASE r.op = "search"
  <2>1. Stack(j.todo) /\ Searching(v, s, r, j.todo, j.found)
    BY <1>1, <1>4 DEF ReaderInv, ReaderOK
  <2>2. /\ e = j.todo[1] /\ (Tail(j.todo) # <<>> => Stack(Tail(j.todo)))
        /\ e.at \in Path /\ e.dir \in BOOLEAN
    <3>1. 1 \in DOMAIN j.todo
      <4>1. Len(j.todo) \in Nat \ {0} /\ DOMAIN j.todo = 1 .. Len(j.todo) BY <2>1, StackTail
      <4> QED BY <4>1
    <3> QED BY <2>1, <3>1, StackTail
  <2>3. /\ IsView(v) /\ DOMAIN v = DOMAIN tree
        /\ \A q \in DOMAIN tree : v[q].dir = IsDir(q)
        /\ \A q \in DOMAIN tree : ~IsDir(q) => v[q].text = data[tree[q]]
    BY ViewIs DEF TreeInv
  <2>4. e.at \in s => e.dir = v[e.at].dir
    <3>1. 1 \in DOMAIN j.todo
      <4>1. Len(j.todo) \in Nat \ {0} /\ DOMAIN j.todo = 1 .. Len(j.todo) BY <2>1, StackTail
      <4> QED BY <4>1
    <3> QED BY <2>1, <2>2, <3>1 DEF Searching
  <2> HIDE DEF v
  <2>5. e.at \in s => e.dir = IsDir(e.at) BY <1>2, <2>3, <2>4, Zenon
  <2>6. CASE e.dir
    <3> DEFINE d == e.at  rest == es \o Tail(j.todo)
    <3> DEFINE E == [at : Path, listed : {FALSE}, dir : BOOLEAN]
    <3>1. es \in Seq(E)
      <4>1. ASSUME IsDir(d) PROVE Entries(d) \in Seq(E)
        <5>1. IsTree(tree) BY DEF TreeInv
        <5> HIDE DEF d
        <5> QED BY <4>1, <5>1, EntriesAre
      <4> HIDE DEF E
      <4>2. <<>> \in Seq(E) BY EmptySeq
      <4> HIDE DEF e
      <4> QED BY <4>1, <4>2
    <3>2. ASSUME NEW i \in DOMAIN es
          PROVE  /\ es[i].at \in Path /\ es[i].at # Root /\ Parent(es[i].at) = d
                 /\ es[i].at \in s => es[i].dir = v[es[i].at].dir
      <4>1. es = Entries(d) BY <3>2
      <4>2. es[i].at \in Children(d) /\ es[i].dir = IsDir(es[i].at)
        BY <3>2, <4>1, EntriesAre DEF TreeInv
      <4> HIDE DEF es
      <4>3. /\ es[i].at \in DOMAIN tree /\ es[i].at \in Path
            /\ es[i].at # Root /\ Parent(es[i].at) = d
        BY <4>2 DEF Children, ChildrenIn, TreeInv, IsTree
      <4>4. es[i].dir = v[es[i].at].dir BY <2>3, <4>2, <4>3, Zenon
      <4> QED BY <4>3, <4>4
    <3>3. \A i, k \in DOMAIN es : es[i].at = es[k].at => i = k
      <4>1. CASE IsDir(d) BY <4>1, EntriesAre DEF TreeInv
      <4>2. CASE ~IsDir(d) BY <4>2
      <4> QED BY <4>1, <4>2
    <3>4. ASSUME NEW q \in s, q # Root, Parent(q) = d PROVE \E i \in DOMAIN es : es[i].at = q
      <4>1. q \in DOMAIN tree /\ q \in Path BY <1>2, <2>3 DEF TreeInv, IsTree
      <4>2. q \in Children(d) BY <3>4, <4>1 DEF Children, ChildrenIn
      <4>3. d \in s BY <1>2, <2>2, <3>4, <4>1, PathParent DEF Closed
      <4>4. IsDir(d) BY <2>5, <2>6, <4>3
      <4>5. es = Entries(d) BY <4>4
      <4> QED BY <4>2, <4>5, EntriesAre DEF TreeInv
    <3> HIDE DEF es
    <3>5. Searching(v, s, r, rest, j.found) /\ (rest # <<>> => Stack(rest))
      <4>1. ReadWhole(v, s, d, es) BY <3>1, <3>2, <3>3, <3>4 DEF ReadWhole, E
      <4>2. j.todo[1].dir /\ d = j.todo[1].at BY <2>2, <2>6
      <4> HIDE DEF d, j, s, r, e
      <4>3. ReadWhole(v, s, j.todo[1].at, es) BY <4>1, <4>2
      <4>4. rest = es \o Tail(j.todo) OBVIOUS
      <4> HIDE DEF rest
      <4> QED BY <1>2, <2>1, <2>3, <4>2, <4>3, <4>4, SearchDir
    <3>6. GoOn(c, rest, j.found) BY <1>1, <2>6
    <3> HIDE DEF rest
    <3> QED BY <1>1, <1>4, <3>5, <3>6, GoOnReader DEF v
  <2>7. CASE ~e.dir /\ left = 0
    <3>1. GoOn(c, <<>>, j.found) BY <1>1, <2>7
    <3>2. Cardinality(j.found) = r.limit
      <4>1. IsFiniteSet(j.found) BY <2>1 DEF Searching
      <4>2. Cardinality(j.found) \in Nat /\ r.limit \in Nat
        BY <4>1, FS_CardinalityType, JobOf, LimitOK
      <4> QED BY <2>7, <4>2
    <3> QED BY <1>1, <1>4, <3>1, <3>2, GoOnReader
  <2>8. CASE ~e.dir /\ left # 0
    <3>1. GoOn(c, Tail(j.todo), j.found \cup First(left, H)) BY <1>1, <2>8
    <3>2. r.limit \in Nat BY JobOf, LimitOK
    <3>3. Len(text) \in Nat
      <4>1. text \in Seq(Blocks) BY VisitIs
      <4> QED BY <4>1, LenProperties
    <3> HIDE DEF text
    <3>4. /\ IsFiniteSet(H) /\ \A h \in H : h[1] = e.at /\ h[2] \in Nat
          /\ \A g, h \in H : g[2] = h[2] => g = h
      BY <3>3, HitsAre
    <3>5. ASSUME e.at \in s PROVE HitsIn(e.at, v[e.at].text, r) = H
      <4>1. ~IsDir(e.at) /\ e.at \in DOMAIN tree BY <1>2, <2>3, <2>5, <2>8, <3>5
      <4>2. CASE r.old # <<>>
        <5>1. text = v[e.at].text BY <2>3, <4>1, <4>2 DEF IsFile, IsDir, text
        <5> QED BY <5>1
      <4>3. CASE r.old = <<>> BY <4>3, HitByName
      <4> QED BY <4>2, <4>3
    <3> HIDE DEF H, left
    <3> DEFINE new == j.found \cup First(left, H)
    <3>6. Searching(v, s, r, Tail(j.todo), new)
      BY <1>2, <2>1, <2>2, <2>3, <2>8, <3>2, <3>4, <3>5, SearchFile DEF left
    <3>7. GoOn(c, Tail(j.todo), new) BY <3>1
    <3> HIDE DEF new
    <3> QED BY <1>1, <1>4, <2>2, <3>6, <3>7, GoOnReader DEF v
  <2> QED BY <2>2, <2>6, <2>7, <2>8
<1> QED BY <1>3, <1>4

-------------------------------------------------------------------------------
LEMMA ReaderInit == Init => ReaderInv
<1> SUFFICES ASSUME Init PROVE ReaderInv OBVIOUS
<1>1. NoReq.op = "none" /\ Closed({}) BY DEF NoReq, Closed
<1>2. ASSUME NEW c \in Client PROVE ReaderOK(View, same[c], pc[c], req[c], job[c], answer[c])
  <2>1. same[c] = {} /\ req[c] = NoReq BY DEF Init
  <2> QED BY <1>1, <2>1 DEF ReaderOK
<1>3. same = [c \in Client |-> same[c]] /\ answer = [c \in Client |-> answer[c]] BY DEF Init
<1> QED BY <1>2, <1>3 DEF ReaderInv

LEMMA ReaderNext == TreeInv /\ TreeInv' /\ ReaderInv /\ [Next]_vars => ReaderInv'
<1> SUFFICES ASSUME TreeInv, TreeInv', ReaderInv, [Next]_vars PROVE ReaderInv' OBVIOUS
<1>1. ASSUME NEW c \in Client, Step(c) PROVE ReaderInv'
  BY <1>1, QuietSteps, ChangingSteps, ReadDirReader, InfoReader, WalkReader, VisitReader DEF Step
<1>2. ASSUME NEW c \in Client, Return(c) PROVE ReaderInv' BY <1>2, ReturnReader
<1>3. ASSUME NEW c \in Client, NEW q \in Requests, Accept(c, q) PROVE ReaderInv'
  BY <1>3, AcceptReader
<1>4. CASE UNCHANGED vars
  <2>1. View' = View BY <1>4 DEF vars, View
  <2> QED BY <1>4, <2>1 DEF vars, ReaderInv
<1> QED BY <1>1, <1>2, <1>3, <1>4 DEF Next

\* Whatever other requests do to a tree while it is listed or searched, nothing is
\* missed that stayed where and as it was, unless the search has met its limit.  A file is
\* searched up to the first line above 1 MiB (ops.go:118), and those after it all the same.
THEOREM ReadersMissNothing == Spec => []ReadersSeeWhatStays
<1>1. TreeInv /\ ReaderInv => ReadersSeeWhatStays
  <2> SUFFICES ASSUME TreeInv, ReaderInv, NEW c \in Client, pc[c] = "answered"
               PROVE  LET r == req[c]
                          stayed == [p \in same[c] \cap DOMAIN View |-> View[p]]
                      IN /\ r.op = "list" /\ r.path \in DOMAIN stayed /\ stayed[r.path].dir =>
                              /\ answer[c].status = "ok"
                              /\ \A p \in ChildrenIn(stayed, r.path) : <<p, stayed[p].dir>> \in answer[c].body
                         /\ r.op = "search" =>
                              \/ Hits(stayed, r) \subseteq answer[c].body
                              \/ Cardinality(answer[c].body) = r.limit
    BY DEF ReadersSeeWhatStays
  <2> DEFINE v == View  s == same[c]  r == req[c]  a == answer[c]
             stayed == [p \in s \cap DOMAIN v |-> v[p]]
  <2>1. ReaderOK(v, s, "answered", r, job[c], a) BY DEF ReaderInv
  <2> HIDE DEF v
  <2>2. DOMAIN stayed = s /\ \A p \in s : stayed[p] = v[p] BY <2>1 DEF ReaderOK
  <2> HIDE DEF stayed
  <2>3. ASSUME r.op = "list", r.path \in s, v[r.path].dir
        PROVE  a.status = "ok" /\ \A p \in ChildrenIn(stayed, r.path) : <<p, stayed[p].dir>> \in a.body
    BY <2>1, <2>2, <2>3 DEF ReaderOK, ChildrenIn
  <2>4. ASSUME r.op = "search", Cardinality(a.body) # r.limit PROVE Hits(stayed, r) \subseteq a.body
    <3>1. \A p \in s : ~v[p].dir /\ IsPrefix(r.path, p) => HitsIn(p, v[p].text, r) \subseteq a.body
      BY <2>1, <2>4 DEF ReaderOK
    <3> QED BY <2>2, <3>1 DEF Hits, Searched
  <2> QED BY <2>2, <2>3, <2>4 DEF stayed, v
<1> QED BY <1>1, ReaderInit, ReaderNext, TreeCorrect, PTL DEF Spec

===============================================================================
