---------------------------- MODULE PromiseProofs ----------------------------
(***************************************************************************)
(* Proofs about FsApi, continued: requests that share no path do not       *)
(* disturb each other, for any number of clients and any requests, however *)
(* their system calls interleave.                                          *)
(***************************************************************************)
EXTENDS FsApiProofs

-------------------------------------------------------------------------------
(* What a request sees of the tree *)

Below(p, N)    == \E n \in N : IsPrefix(n, p)
OnTheWay(p, N) == \E n \in N : IsPrefix(p, n)

\* w shows what v does of the paths in N and below them, and of the way there;
\* directories may have come on the way
Sees(w, v, N) ==
  /\ \A s \in Path : Below(s, N) =>
       (s \in DOMAIN w <=> s \in DOMAIN v) /\ (s \in DOMAIN v => w[s] = v[s])
  /\ \A s \in Path : OnTheWay(s, N) =>
       /\ s \in DOMAIN v => s \in DOMAIN w /\ w[s].dir = v[s].dir
       /\ s \in DOMAIN w /\ s \notin DOMAIN v => w[s].dir

-------------------------------------------------------------------------------
(* Where a request is, and what it reaches *)

\* which operations come to a system call
AtOp(l, r) ==
  /\ l \in {"make", "mkdir"} => r.op \in {"write", "upload", "mkdir", "patch", "copy", "move"}
  /\ l \in {"open", "fill"} => r.op \in {"write", "upload", "patch", "copy"}
  /\ l \in {"lstat", "rename"} => r.op = "move"
  /\ l = "remove" => r.op = "delete"
  /\ l = "read" => r.op = "patch" /\ r.old # <<>>
  /\ l = "source" => r.op \in {"copy", "read", "download", "view"}
  /\ l = "size" => r.op \in {"download", "view"}
  /\ l = "send" => r.op \in {"read", "download", "view"}
  /\ l = "stat" => r.op = "stat"
  /\ l = "chmod" => r.op = "chmod"
  /\ l \in {"list", "info"} => r.op = "list"
  /\ l \in {"search", "visit"} => r.op = "search"

\* the file that is written, or the directory that is made, is one that it names
InHand(r, j) ==
  /\ r.op \in {"write", "upload", "patch", "copy", "move"} =>
       /\ j.at \in Named(r) /\ j.dir = Parent(j.at)
       /\ \A i \in DOMAIN j.more : j.more[i] \in Named(r)
  /\ r.op = "mkdir" => j.dir = r.path

\* a request works on what it reaches: R
WorksIn(t, R, l, r, j) ==
  /\ AtOp(l, r) /\ R \subseteq Path
  /\ l # "idle" => Named(r) \subseteq R
  /\ l \notin {"idle", "answered"} => InHand(r, j)
  /\ l = "fill" => j.fd # DirIno /\ \A s \in DOMAIN t : t[s] = j.fd => Below(s, R)
  /\ l = "remove" => \A i \in DOMAIN j.todo :
       \/ j.todo[i].at = Nowhere
       \/ j.todo[i].at \in Path /\ Below(j.todo[i].at, R)

\* a request whose base is kept shares no path with one that changes the tree
ReachInv ==
  /\ base = [c \in Client |-> base[c]] /\ reach = [c \in Client |-> reach[c]]
  /\ \A c \in Client : WorksIn(tree, reach[c], pc[c], req[c], job[c])
  /\ \A c \in Client : pc[c] = "idle" => base[c] = NoView
  /\ \A c, d \in Client : /\ c # d /\ base[c] # NoView
                          /\ d \in Active /\ req[d].op \notin Reads
                          => ~Meet(reach[c], reach[d])

-------------------------------------------------------------------------------
(* What a request has done of what it promises *)

\* the view of a tree that is there
Whole(w) ==
  /\ IsView(w) /\ Root \in DOMAIN w /\ w[Root] = Dir
  /\ \A p \in DOMAIN w : w[p].dir => w[p] = Dir

\* MkdirAll: w with the directories down to j.dir, of which those down to j.depth are there
Making(v, w, l, j, N) ==
  /\ l = "make" => /\ Sees(v, w, N)
                   /\ \A n \in j.depth + 1 .. Len(j.dir) :
                        SubSeq(j.dir, 1, n) \in DOMAIN v => v[SubSeq(j.dir, 1, n)].dir
  /\ l = "mkdir" => Sees(v, WithDirs(w, SubSeq(j.dir, 1, j.depth)), N) /\ ~Blocked(w, j.dir)
  /\ l \in {"open", "lstat", "rename"} => Sees(v, WithDirs(w, j.dir), N) /\ ~Blocked(w, j.dir)

\* ... and then the file j.at, which is empty so far
Writing(v, t, w, l, j, N) ==
  /\ Whole(w) /\ Making(v, w, l, j, N)
  /\ l = "fill" => /\ ~Blocked(w, j.dir) /\ ~(j.at \in DOMAIN w /\ w[j.at].dir)
                   /\ j.at \in DOMAIN t /\ t[j.at] = j.fd
                   /\ Sees(v, With(WithDirs(w, j.dir), j.at, File(<<>>)), N)

\* the first n files have been put where they belong
AllFit(b, ps, n, t) ==
  \A i \in 1 .. n : Put(WithFiles(b, ps, i - 1, t), ps[i], t).status = "ok"

Uploading(v, t, b, l, r, j, k) ==
  /\ j.at = r.files[k] /\ j.more = SubSeq(r.files, k + 1, Len(r.files)) /\ j.buf = r.text
  /\ AllFit(b, r.files, k - 1, r.text)
  /\ Writing(v, t, WithFiles(b, r.files, k - 1, r.text), l, j, Named(r))

\* RemoveAll: what is left of a directory that was listed is on the stack
Deleting(v, b, r, todo) ==
  /\ todo[1].at = r.path
  /\ r.path = Root => Sees(v, b, Named(r))
  /\ Sees(Without(v, r.path), Without(b, r.path), Named(r))
  /\ \A i \in DOMAIN todo :
       /\ todo[i].at \in Path /\ IsPrefix(r.path, todo[i].at)
       /\ todo[i].listed =>
            /\ todo[i].at \in DOMAIN v => v[todo[i].at].dir
            /\ \A s \in ChildrenIn(v, todo[i].at) : \E k \in DOMAIN todo : i < k /\ todo[k].at = s

\* the answer to a request that began when the tree was b; that a list or a search
\* is complete is what ReaderInv says
Kept(v, b, r, a) ==
  LET promised == Promise(b, r)
  IN /\ a.status = promised.status /\ (a.recorded => a.status = "ok")
     /\ Sees(v, promised.view, Named(r))
     /\ a.body \subseteq promised.body
     /\ r.op \notin {"list", "search"} => a.body = promised.body
     /\ r.op = "search" => IsFiniteSet(a.body) /\ Cardinality(a.body) <= r.limit

\* the entries of the directory p
EntriesIn(v, p) == {<<q, v[q].dir>> : q \in ChildrenIn(v, p)}

PromiseOK(v, t, s, b, l, r, j, a) ==
  /\ Whole(b)
  /\ l = "answered" => Kept(v, b, r, a)
  /\ r.op \in {"write", "upload"} /\ l # "answered" =>
       \E k \in 1 .. Len(r.files) : Uploading(v, t, b, l, r, j, k)
  /\ r.op \in {"mkdir", "move"} => Making(v, b, l, j, Named(r))
  /\ r.op = "move" /\ l # "answered" =>
       j.at = r.to /\ (l = "rename" => ~(r.to \in DOMAIN v /\ v[r.to].dir))
  /\ r.op = "patch" /\ l # "answered" =>
       /\ j.at = r.path /\ j.more = <<>>
       /\ l = "read" => Sees(v, b, Named(r))
       /\ l # "read" => Writing(v, t, b, l, j, Named(r)) /\ Promise(b, r) = Put(b, r.path, j.buf)
  /\ r.op = "copy" /\ l # "answered" =>
       /\ j.at = r.to /\ j.more = <<>>
       /\ l = "source" => Sees(v, b, Named(r)) /\ j.depth = Len(j.dir)
       /\ l # "source" => /\ Writing(v, t, b, l, j, Named(r))
                          /\ r.path \in DOMAIN b /\ r.path \in DOMAIN t /\ t[r.path] = j.src
  /\ r.op = "delete" /\ l # "answered" => l = "remove" /\ Deleting(v, b, r, j.todo)
  /\ r.op \in Reads => Sees(v, b, Named(r))
  /\ r.op \in {"read", "download", "view"} /\ l \in {"size", "send"} =>
       /\ r.path \in DOMAIN t /\ t[r.path] = j.src /\ j.src # DirIno
       /\ l = "send" /\ r.op # "read" => j.depth = Len(b[r.path].text)
  /\ r.op \in {"list", "search"} =>
       /\ \A p \in DOMAIN v : IsPrefix(r.path, p) => p \in s
       /\ l \in {"list", "search"} => j.found = {}
  /\ r.op = "list" /\ l = "info" =>
       /\ r.path \in DOMAIN b /\ b[r.path].dir
       /\ j.found \subseteq EntriesIn(b, r.path)
       /\ \A i \in DOMAIN j.todo : j.todo[i].at \in ChildrenIn(b, r.path)
  /\ r.op = "search" /\ l = "visit" =>
       /\ j.found \subseteq Hits(b, r)
       /\ \A i \in DOMAIN j.todo : LET p == j.todo[i].at IN
            IsPrefix(r.path, p) /\ p \in DOMAIN b /\ (~j.todo[i].dir => ~b[p].dir)

PromiseInv ==
  \A c \in Client : base[c] # NoView /\ ~CopiesOntoItself(req[c]) =>
    PromiseOK(View, tree, same[c], base[c], pc[c], req[c], job[c], answer[c])

-------------------------------------------------------------------------------
(* Sets of paths *)

LEMMA MeetIsSymmetric == \A P, Q : Meet(P, Q) <=> Meet(Q, P)
BY DEF Meet

\* what is reached from R has nothing to do with N
LEMMA Apart ==
  ASSUME NEW N, NEW R, N \subseteq Path, R \subseteq Path, ~Meet(N, R), NEW s \in Path
  PROVE  /\ Below(s, R) => ~Below(s, N) /\ ~OnTheWay(s, N)
         /\ OnTheWay(s, R) => ~Below(s, N)
<1>1. ASSUME NEW r \in R, NEW n \in N PROVE ~IsPrefix(r, n) /\ ~IsPrefix(n, r)
  BY DEF Meet
<1>2. ASSUME NEW r \in R, IsPrefix(r, s), NEW n \in N
      PROVE  ~IsPrefix(n, s) /\ ~IsPrefix(s, n)
  <2>1. r \in Path /\ n \in Path OBVIOUS
  <2> QED BY <1>1, <1>2, <2>1, PathOrder
<1>3. ASSUME NEW r \in R, IsPrefix(s, r), NEW n \in N PROVE ~IsPrefix(n, s)
  <2>1. r \in Path /\ n \in Path OBVIOUS
  <2> QED BY <1>1, <1>3, <2>1, PathOrder
<1> QED BY <1>2, <1>3 DEF Below, OnTheWay

LEMMA SeesItself == \A v, N : Sees(v, v, N)
BY DEF Sees

LEMMA SeesThrough ==
  ASSUME NEW u, NEW v, NEW w, NEW N, Sees(w, v, N), Sees(v, u, N)
  PROVE  Sees(w, u, N)
<1>1. ASSUME NEW s \in Path, Below(s, N)
      PROVE  (s \in DOMAIN w <=> s \in DOMAIN u) /\ (s \in DOMAIN u => w[s] = u[s])
  BY <1>1 DEF Sees
<1>2. ASSUME NEW s \in Path, OnTheWay(s, N)
      PROVE  /\ s \in DOMAIN u => s \in DOMAIN w /\ w[s].dir = u[s].dir
             /\ s \in DOMAIN w /\ s \notin DOMAIN u => w[s].dir
  BY <1>2 DEF Sees
<1> QED BY <1>1, <1>2 DEF Sees

LEMMA BlockedToo ==
  ASSUME NEW v, NEW w, NEW N, Sees(w, v, N), DOMAIN v \subseteq Path, DOMAIN w \subseteq Path,
         N \subseteq Path, NEW p \in Path, OnTheWay(p, N)
  PROVE  (Blocked(w, p) <=> Blocked(v, p)) /\ Missing(w, p) = Missing(v, p)
<1>1. ASSUME NEW q \in Path, IsPrefix(q, p) PROVE OnTheWay(q, N)
  BY <1>1, PathOrder DEF OnTheWay
<1>2. Blocked(w, p) <=> Blocked(v, p)
  <2>1. ASSUME NEW q \in DOMAIN w, IsPrefix(q, p), ~w[q].dir PROVE q \in DOMAIN v /\ ~v[q].dir
    BY <1>1, <2>1 DEF Sees
  <2>2. ASSUME NEW q \in DOMAIN v, IsPrefix(q, p), ~v[q].dir PROVE q \in DOMAIN w /\ ~w[q].dir
    BY <1>1, <2>2 DEF Sees
  <2> QED BY <2>1, <2>2 DEF Blocked
<1> QED BY <1>2 DEF Missing

-------------------------------------------------------------------------------
(* What a step changes *)

\* from t with content d to u with content e: nothing but what is in R or below, and
\* directories that come on the way there
Confined(t, d, u, e, R) ==
  \A s \in Path : ~Below(s, R) =>
    /\ s \in DOMAIN t => /\ s \in DOMAIN u /\ u[s] = t[s]
                         /\ t[s] # DirIno => e[t[s]] = d[t[s]]
    /\ s \in DOMAIN u /\ s \notin DOMAIN t => u[s] = DirIno /\ OnTheWay(s, R)

ViewOf(t, d) == [p \in DOMAIN t |-> IF t[p] = DirIno THEN Dir ELSE File(d[t[p]])]

LEMMA ViewIsOf == View = ViewOf(tree, data) /\ View' = ViewOf(tree', data')
BY DEF View, ViewOf

LEMMA Undisturbed ==
  ASSUME NEW t, NEW d, NEW u, NEW e, NEW N, NEW R, Confined(t, d, u, e, R),
         N \subseteq Path, R \subseteq Path, ~Meet(N, R)
  PROVE  /\ Sees(ViewOf(u, e), ViewOf(t, d), N)
         /\ \A s \in Path : Below(s, N) =>
              (s \in DOMAIN u <=> s \in DOMAIN t) /\ (s \in DOMAIN t => u[s] = t[s])
<1> DEFINE v == ViewOf(t, d)  w == ViewOf(u, e)
<1>1. DOMAIN v = DOMAIN t /\ DOMAIN w = DOMAIN u BY DEF ViewOf
<1>2. ASSUME NEW s \in DOMAIN t, s \in DOMAIN u, u[s] = t[s], t[s] # DirIno => e[t[s]] = d[t[s]]
      PROVE  w[s] = v[s]
  BY <1>2 DEF ViewOf
<1>3. ASSUME NEW s \in DOMAIN u, u[s] = DirIno PROVE w[s].dir
  <2>1. w[s] = Dir BY <1>3 DEF ViewOf
  <2> QED BY <2>1 DEF Dir
<1> HIDE DEF v, w
<1>4. ASSUME NEW s \in Path, Below(s, N)
      PROVE  /\ s \in DOMAIN u <=> s \in DOMAIN t
             /\ s \in DOMAIN t => u[s] = t[s] /\ w[s] = v[s]
  <2>1. ~Below(s, R) /\ ~OnTheWay(s, R) BY <1>4, Apart
  <2> QED BY <1>2, <2>1 DEF Confined
<1>5. ASSUME NEW s \in Path, OnTheWay(s, N)
      PROVE  /\ s \in DOMAIN v => s \in DOMAIN w /\ w[s].dir = v[s].dir
             /\ s \in DOMAIN w /\ s \notin DOMAIN v => w[s].dir
  <2>1. ~Below(s, R) BY <1>5, Apart
  <2> QED BY <1>1, <1>2, <1>3, <2>1 DEF Confined
<1>6. Sees(w, v, N) BY <1>1, <1>4, <1>5 DEF Sees
<1> QED BY <1>4, <1>6 DEF v, w

LEMMA NamedInPath == ASSUME NEW r, Asked(r) PROVE Named(r) \subseteq Path
<1>1. r.path \in Path /\ r.to \in Path BY AskedOK
<1>2. r.op \in {"write", "upload"} => Range(r.files) \subseteq Path
  <2>1. CASE r = NoReq BY <2>1 DEF NoReq
  <2>2. CASE \E q \in Requests : r = Resolved(q)
    <3>1. r.op \in {"write", "upload"} => r.files \in Seq(Path) BY <2>2, RequestOK
    <3> QED BY <3>1, ElementOfSeq, LenProperties DEF Range
  <2> QED BY <2>1, <2>2 DEF Asked
<1> QED BY <1>1, <1>2 DEF Named

-------------------------------------------------------------------------------
(* Each step changes what its request reaches *)

LEMMA NowhereIsNone ==
  /\ Nowhere \notin Path /\ Parent(Nowhere) = Root
  /\ \A p \in Path : ~IsPrefix(Nowhere, p) /\ (IsPrefix(p, Nowhere) => p = Root)
<1> DEFINE e == ""
<1>1. e \notin Name /\ e \in Names
  <2>1. e \in Stay BY Zenon DEF Stay
  <2>2. e \in Names BY Zenon DEF Names
  <2> HIDE DEF e
  <2> QED BY <2>1, <2>2, PathJailAssumption
<1> HIDE DEF e
<1>2. Nowhere = <<e>> BY DEF Nowhere, e
<1>3. Nowhere \in Seq(Names) /\ Len(Nowhere) = 1 /\ Nowhere[1] = e BY <1>1, <1>2
<1>4. \A p \in Path : p \in Seq(Name) /\ p \in Seq(Names) BY FsAssumption, PathIsNames
<1>5. ASSUME NEW p \in Path, IsPrefix(Nowhere, p) PROVE FALSE
  <2>0. Len(Nowhere) <= Len(p) /\ \A i \in 1 .. Len(Nowhere) : Nowhere[i] = p[i]
    <3>1. Nowhere \in Seq(Names) /\ p \in Seq(Names) BY <1>3, <1>4
    <3> QED BY <1>5, <3>1, PrefixDef
  <2>1. 1 <= Len(p) /\ Nowhere[1] = p[1] BY <1>3, <2>0
  <2>2. 1 \in 1 .. Len(p) BY <2>1, <1>4, LenProperties
  <2>3. p[1] \in Name BY <1>4, <2>2, ElementOfSeq
  <2> QED BY <1>1, <1>3, <2>1, <2>3
<1>6. ASSUME NEW p \in Path, IsPrefix(p, Nowhere) PROVE p = Root
  <2>1. Len(p) <= 1 /\ \A i \in 1 .. Len(p) : p[i] = Nowhere[i] BY <1>3, <1>4, <1>6, PrefixDef
  <2>2. Len(p) \in Nat BY <1>4, LenProperties
  <2>3. CASE Len(p) = 0 BY <1>4, <2>3, EmptySeq DEF Root
  <2>4. CASE Len(p) = 1
    <3>1. IsPrefix(Nowhere, p) BY <1>3, <1>4, <2>1, <2>4, PrefixDef
    <3> QED BY <1>5, <3>1
  <2> QED BY <2>1, <2>2, <2>3, <2>4
<1>7. Nowhere \notin Path
  <2>1. ASSUME Nowhere \in Path PROVE FALSE
    <3>1. IsPrefix(Nowhere, Nowhere) BY <2>1, PathOrder
    <3> QED BY <1>5, <2>1, <3>1
  <2> QED BY <2>1
<1>8. Parent(Nowhere) = Root
  <2>1. Nowhere # Root BY NowhereIsAPath
  <2>2. Parent(Nowhere) \in Seq(Names) /\ Len(Parent(Nowhere)) = 0
    BY <1>3, <2>1, ParentIsAbove DEF Root
  <2> QED BY <2>2, EmptySeq DEF Root
<1> QED BY <1>5, <1>6, <1>7, <1>8

\* what InHand says of a step, in terms of paths
LEMMA InReach ==
  ASSUME TreeInv, ReachInv, NEW c \in Client
  PROVE  /\ reach[c] \subseteq Path /\ AtOp(pc[c], req[c])
         /\ pc[c] \in {"make", "mkdir"} => job[c].dir \in Path /\ OnTheWay(job[c].dir, reach[c])
         /\ pc[c] = "open" => job[c].at \in reach[c]
         /\ pc[c] = "rename" => req[c].path \in reach[c] /\ req[c].to \in reach[c]
<1>1. WorksIn(tree, reach[c], pc[c], req[c], job[c]) BY DEF ReachInv
<1>2. JobOK(job[c]) /\ Asked(req[c]) BY JobOf
<1>3. Named(req[c]) \subseteq Path BY <1>2, NamedInPath
<1>4. reach[c] \subseteq Path /\ AtOp(pc[c], req[c]) BY <1>1 DEF WorksIn
<1>5. ASSUME pc[c] \in {"make", "mkdir"}
      PROVE  job[c].dir \in Path /\ OnTheWay(job[c].dir, reach[c])
  <2>1. Named(req[c]) \subseteq reach[c] /\ InHand(req[c], job[c]) BY <1>1, <1>5 DEF WorksIn
  <2>2. job[c].dir \in Path BY <1>2 DEF JobOK
  <2>3. CASE req[c].op = "mkdir"
    <3>1. job[c].dir = req[c].path /\ req[c].path \in Named(req[c])
      BY <2>1, <2>3 DEF InHand, Named
    <3> QED BY <2>1, <2>2, <3>1, PathOrder DEF OnTheWay
  <2>4. CASE req[c].op # "mkdir"
    <3>1. job[c].at \in Named(req[c]) /\ job[c].dir = Parent(job[c].at)
      BY <1>4, <1>5, <2>1, <2>4 DEF AtOp, InHand
    <3>2. IsPrefix(Parent(job[c].at), job[c].at)
      <4>1. job[c].at \in Path BY <1>2 DEF JobOK
      <4> QED BY <4>1, PathParent, PathOrder
    <3> QED BY <2>1, <2>2, <3>1, <3>2 DEF OnTheWay
  <2> QED BY <2>3, <2>4
<1>6. ASSUME pc[c] = "open" PROVE job[c].at \in reach[c]
  BY <1>1, <1>6 DEF WorksIn, InHand, AtOp
<1>7. ASSUME pc[c] = "rename" PROVE req[c].path \in reach[c] /\ req[c].to \in reach[c]
  BY <1>1, <1>7 DEF WorksIn, AtOp, Named
<1> QED BY <1>4, <1>5, <1>6, <1>7

LEMMA MkdirConfined ==
  ASSUME TreeInv, ReachInv, NEW c \in Client, Mkdir(c)
  PROVE  Confined(tree, data, tree', data', reach[c])
<1> DEFINE d == job[c].depth + 1  p == SubSeq(job[c].dir, 1, d)
<1>1. pc[c] = "mkdir" /\ data' = data BY DEF Mkdir
<1>2. p \in Path /\ d \in Nat /\ d <= Len(job[c].dir) /\ Len(job[c].dir) \in Nat
  BY <1>1, MkdirPath
<1>3. OnTheWay(p, reach[c])
  <2>1. reach[c] \subseteq Path /\ job[c].dir \in Path /\ OnTheWay(job[c].dir, reach[c])
    BY <1>1, InReach
  <2>2. d \in 0 .. Len(job[c].dir) /\ job[c].dir \in Seq(Name) BY <1>2, <2>1, FsAssumption
  <2>3. IsPrefix(p, job[c].dir) BY <2>2, FirstNames
  <2> HIDE DEF p
  <2> QED BY <1>2, <2>1, <2>3, PathOrder DEF OnTheWay
<1>4. CASE UNCHANGED tree BY <1>1, <1>4 DEF Confined
<1>5. CASE ~IsFile(p) /\ tree' = With(tree, p, DirIno)
  <2> HIDE DEF p
  <2> QED BY <1>1, <1>3, <1>5 DEF Confined, With, IsFile
<1> QED BY <1>4, <1>5 DEF Mkdir

LEMMA OpenConfined ==
  ASSUME TreeInv, ReachInv, NEW c \in Client, Open(c)
  PROVE  Confined(tree, data, tree', data', reach[c])
<1> DEFINE p == job[c].at
<1>1. p \in reach[c] /\ p \in Path BY InReach, JobOf DEF Open, JobOK
<1>2. Below(p, reach[c]) BY <1>1, PathOrder DEF Below
<1>3. CASE UNCHANGED <<tree, data>> BY <1>3 DEF Confined
<1>4. CASE \E i \in IF IsFile(p) THEN {tree[p]} ELSE Ino \ InUse :
             tree' = With(tree, p, i) /\ data' = Truncated(i)
  <2>1. PICK i \in IF IsFile(p) THEN {tree[p]} ELSE Ino \ InUse :
          tree' = With(tree, p, i) /\ data' = Truncated(i)
    BY <1>4
  <2>2. \A s \in DOMAIN tree : tree[s] # DirIno /\ tree[s] = i => s = p
    <3>1. CASE IsFile(p)
      <4>1. i = tree[p] /\ p \in DOMAIN tree BY <2>1, <3>1 DEF IsFile
      <4> QED BY <4>1 DEF TreeInv, IsTree
    <3>2. CASE ~IsFile(p) BY <2>1, <3>2 DEF InUse, Range
    <3> QED BY <3>1, <3>2
  <2>3. \A k \in Ino : k # i => data'[k] = data[k] BY <2>1 DEF Truncated, TreeInv
  <2>4. \A s \in DOMAIN tree : tree[s] # DirIno => tree[s] \in Ino BY DEF TreeInv, IsTree
  <2> HIDE DEF p
  <2> QED BY <1>2, <2>1, <2>2, <2>3, <2>4 DEF Confined, With
<1> QED BY <1>3, <1>4 DEF Open

LEMMA FillConfined ==
  ASSUME TreeInv, ReachInv, NEW c \in Client, Fill(c)
  PROVE  Confined(tree, data, tree', data', reach[c])
<1>1. pc[c] = "fill" /\ tree' = tree /\ \E x : data' = [data EXCEPT ![job[c].fd] = x]
  BY DEF Fill
<1>2. \A s \in DOMAIN tree : tree[s] = job[c].fd => Below(s, reach[c])
  BY <1>1 DEF ReachInv, WorksIn
<1>3. \A s \in DOMAIN tree : tree[s] # DirIno => tree[s] \in Ino BY DEF TreeInv, IsTree
<1>4. \A k \in Ino : k # job[c].fd => data'[k] = data[k] BY <1>1 DEF TreeInv
<1> QED BY <1>1, <1>2, <1>3, <1>4 DEF Confined

LEMMA RenameConfined ==
  ASSUME TreeInv, ReachInv, NEW c \in Client, Rename(c)
  PROVE  Confined(tree, data, tree', data', reach[c])
<1> DEFINE p == req[c].path  q == req[c].to
<1>1. p \in reach[c] /\ q \in reach[c] /\ p \in Path /\ q \in Path /\ data' = data
  BY InReach, JobOf DEF Rename
<1>2. CASE UNCHANGED tree BY <1>1, <1>2 DEF Confined
<1>3. CASE tree' = Relocated(tree, p, q)
  <2>1. \A m \in DOMAIN tree : IsPrefix(p, m) => IsPrefix(q, Moved(p, q, m))
    <3>1. p \in Seq(Name) /\ q \in Seq(Name) /\ DOMAIN tree \subseteq Seq(Name)
      BY <1>1, FsAssumption DEF TreeInv, IsTree
    <3> QED BY <3>1, MovedOrder
  <2>2. ASSUME NEW s \in Path, ~Below(s, reach[c]) PROVE ~IsPrefix(p, s) /\ ~IsPrefix(q, s)
    BY <1>1, <2>2 DEF Below
  <2> HIDE DEF p, q
  <2> DEFINE rest == Without(tree, p)  moved == {s \in DOMAIN tree : IsPrefix(p, s)}
  <2>3. /\ DOMAIN tree' = DOMAIN rest \cup {Moved(p, q, m) : m \in moved}
        /\ \A s \in DOMAIN tree' : ~IsPrefix(q, s) => tree'[s] = rest[s]
    BY <1>3 DEF Relocated
  <2>4. /\ \A s \in DOMAIN rest : s \in DOMAIN tree /\ rest[s] = tree[s]
        /\ \A s \in DOMAIN tree : ~IsPrefix(p, s) => s \in DOMAIN rest
    BY DEF Without, Within
  <2> HIDE DEF rest
  <2>5. ASSUME NEW s \in Path, ~Below(s, reach[c])
        PROVE  s \in DOMAIN tree' <=> s \in DOMAIN tree
    BY <2>1, <2>2, <2>3, <2>4, <2>5
  <2>6. ASSUME NEW s \in Path, ~Below(s, reach[c]), s \in DOMAIN tree
        PROVE  tree'[s] = tree[s]
    BY <2>2, <2>3, <2>4, <2>5, <2>6
  <2> QED BY <1>1, <2>5, <2>6 DEF Confined
<1> QED BY <1>2, <1>3 DEF Rename

\* what is on top of a deletion's stack
LEMMA TopEntry ==
  ASSUME TreeInv, ReachInv, NEW c \in Client, pc[c] = "remove"
  PROVE  LET todo == job[c].todo  p == Last(todo).at IN
         /\ todo # <<>> /\ Len(todo) \in Nat \ {0} /\ DOMAIN todo = 1 .. Len(todo)
         /\ Len(todo) \in DOMAIN todo /\ p = todo[Len(todo)].at /\ p \in Seq(Names)
         /\ p = Nowhere \/ (p \in Path /\ Below(p, reach[c]))
<1> DEFINE todo == job[c].todo  E == [at : Seq(Names), listed : BOOLEAN]
<1>1. todo \in Seq(E) /\ todo # <<>> BY JobOf DEF AtStep, Removing
<1>2. \A i \in DOMAIN todo : todo[i].at = Nowhere \/ (todo[i].at \in Path /\ Below(todo[i].at, reach[c]))
  BY DEF ReachInv, WorksIn
<1> HIDE DEF todo
<1>3. Len(todo) \in Nat \ {0} /\ DOMAIN todo = 1 .. Len(todo) BY <1>1, EmptySeq, LenProperties
<1>4. Len(todo) \in 1 .. Len(todo) BY <1>3
<1>5. todo[Len(todo)] \in E BY <1>1, <1>4, ElementOfSeq
<1> QED BY <1>1, <1>2, <1>3, <1>4, <1>5 DEF Last, todo

LEMMA RemoveConfined ==
  ASSUME TreeInv, ReachInv, NEW c \in Client, RemoveEntry(c)
  PROVE  Confined(tree, data, tree', data', reach[c])
<1> DEFINE todo == job[c].todo  p == Last(todo).at
<1>1. pc[c] = "remove" /\ data' = data BY DEF RemoveEntry
<1>2. p = Nowhere \/ (p \in Path /\ Below(p, reach[c])) BY <1>1, TopEntry
<1>3. CASE UNCHANGED tree BY <1>1, <1>3 DEF Confined
<1>4. CASE p \in DOMAIN tree /\ tree' = Without(tree, p)
  <2>1. Below(p, reach[c]) /\ p \in Path
    <3>1. p \in Path BY <1>4 DEF TreeInv, IsTree
    <3> HIDE DEF p
    <3> QED BY <1>2, <3>1, NowhereIsNone
  <2>2. reach[c] \subseteq Path BY InReach
  <2> HIDE DEF p
  <2>3. ASSUME NEW s \in Path, ~Below(s, reach[c]) PROVE ~IsPrefix(p, s)
    BY <2>1, <2>2, <2>3, PathOrder DEF Below
  <2> QED BY <1>1, <1>4, <2>3 DEF Confined, Without, Within
<1> QED BY <1>3, <1>4 DEF RemoveEntry, IsFile, IsDir

-------------------------------------------------------------------------------
(* Requests whose base is kept share no path with one that changes the tree *)

LEMMA BelowMore ==
  ASSUME NEW s, NEW R, NEW Q, R \subseteq Q, Below(s, R)
  PROVE  Below(s, Q)
BY DEF Below

\* what others work in is still theirs
LEMMA StillTheirs ==
  ASSUME NEW t, NEW u, NEW R, NEW Q, R \subseteq Q, Q \subseteq Path, NEW l, NEW r, NEW j,
         WorksIn(t, R, l, r, j),
         l = "fill" /\ j.fd # DirIno => \A s \in DOMAIN u : u[s] = j.fd => Below(s, Q)
  PROVE  WorksIn(u, Q, l, r, j)
BY BelowMore DEF WorksIn

\* a step of c that moves nothing
LEMMA ReachStepOf ==
  ASSUME TreeInv, ReachInv, NEW c \in Client, NEW l, pc' = [pc EXCEPT ![c] = l],
         pc[c] \notin {"idle", "answered"}, l # "idle",
         UNCHANGED <<req, base, reach>>, \A d \in Client \ {c} : job'[d] = job[d],
         \A s \in DOMAIN tree' : \/ tree'[s] = DirIno \/ tree'[s] \notin InUse
                                 \/ s \in DOMAIN tree /\ tree'[s] = tree[s],
         WorksIn(tree', reach[c], l, req[c], job'[c])
  PROVE  ReachInv'
<1>1. \A d \in Client : pc'[d] = IF d = c THEN l ELSE pc[d] BY DEF TreeInv
<1>2. ASSUME NEW d \in Client PROVE WorksIn(tree', reach'[d], pc'[d], req'[d], job'[d])
  <2>1. CASE d = c BY <1>1, <2>1
  <2>2. CASE d # c
    <3>1. WorksIn(tree, reach[d], pc[d], req[d], job[d]) /\ reach[d] \subseteq Path
      BY DEF ReachInv, WorksIn
    <3>2. ASSUME pc[d] = "fill", job[d].fd # DirIno,
                 NEW s \in DOMAIN tree', tree'[s] = job[d].fd
          PROVE  Below(s, reach[d])
      <4>1. job[d].fd \in InUse BY DEF InUse
      <4>2. s \in DOMAIN tree /\ tree'[s] = tree[s] BY <3>2, <4>1
      <4> QED BY <3>1, <3>2, <4>2 DEF WorksIn
    <3>3. WorksIn(tree', reach[d], pc[d], req[d], job[d]) BY <3>1, <3>2, StillTheirs
    <3> QED BY <1>1, <2>2, <3>3
  <2> QED BY <2>1, <2>2
<1>3. \A d \in Client : d \in Active' => d \in Active BY <1>1 DEF Active
<1>4. \A d \in Client : pc'[d] = "idle" => base'[d] = NoView BY <1>1 DEF ReachInv
<1> QED BY <1>2, <1>3, <1>4 DEF ReachInv

\* the last step of a request that moves nothing
LEMMA ReachFinish ==
  ASSUME TreeInv, ReachInv, NEW c \in Client, UNCHANGED <<tree, req, base, reach>>,
         pc[c] \notin {"idle", "answered"}, NEW s, NEW b, Finish(c, s) \/ FinishWith(c, s, b)
  PROVE  ReachInv'
<1>1. pc' = [pc EXCEPT ![c] = "answered"] /\ job' = [job EXCEPT ![c] = NoJob]
  BY DEF Finish, FinishWith, Answer, AnswerWith, Goto
<1>2. \A d \in Client \ {c} : job'[d] = job[d] BY <1>1 DEF TreeInv
<1>3. WorksIn(tree, reach[c], pc[c], req[c], job[c]) BY DEF ReachInv
<1>4. WorksIn(tree', reach[c], "answered", req[c], job'[c]) BY <1>3 DEF WorksIn, AtOp
<1> QED BY <1>1, <1>2, <1>4, ReachStepOf

\* a step that leaves the tree as it is, and the names of what is written
LEMMA ReachMoves ==
  ASSUME TreeInv, ReachInv, NEW c \in Client, UNCHANGED <<tree, req, base, reach>>,
         NEW l, pc' = [pc EXCEPT ![c] = l],
         pc[c] \notin {"idle", "answered"}, l \notin {"idle", "fill", "remove"}, AtOp(l, req[c]),
         \A d \in Client \ {c} : job'[d] = job[d],
         job'[c].at = job[c].at, job'[c].dir = job[c].dir, job'[c].more = job[c].more
  PROVE  ReachInv'
<1>1. WorksIn(tree, reach[c], pc[c], req[c], job[c]) BY DEF ReachInv
<1>2. WorksIn(tree', reach[c], l, req[c], job'[c]) BY <1>1 DEF WorksIn, InHand
<1> QED BY <1>2, ReachStepOf

LEMMA ReachMadeDirs ==
  ASSUME TreeInv, ReachInv, NEW c \in Client, UNCHANGED <<req, base, reach>>, MadeDirs(c),
         pc[c] \in {"make", "mkdir"},
         \A s \in DOMAIN tree' : tree'[s] = DirIno \/ (s \in DOMAIN tree /\ tree'[s] = tree[s])
  PROVE  ReachInv'
<1>1. WorksIn(tree, reach[c], pc[c], req[c], job[c]) BY DEF ReachInv
<1>2. CASE req[c].op = "mkdir"
  <2>1. pc' = [pc EXCEPT ![c] = "answered"] /\ job' = [job EXCEPT ![c] = NoJob]
    BY <1>2 DEF MadeDirs, Finish, Answer, AnswerWith, Goto
  <2>2. \A d \in Client \ {c} : job'[d] = job[d] BY <2>1 DEF TreeInv
  <2>3. WorksIn(tree', reach[c], "answered", req[c], job'[c]) BY <1>1 DEF WorksIn, AtOp
  <2> QED BY <2>1, <2>2, <2>3, ReachStepOf
<1>3. CASE req[c].op # "mkdir"
  <2> DEFINE l == IF req[c].op = "move" THEN "lstat" ELSE "open"
  <2>1. pc' = [pc EXCEPT ![c] = l] /\ job' = job BY <1>3 DEF MadeDirs, Goto
  <2>2. AtOp(l, req[c]) BY <1>1, <1>3 DEF WorksIn, AtOp
  <2>3. l \notin {"idle", "answered", "fill", "remove"} OBVIOUS
  <2> HIDE DEF l
  <2>4. WorksIn(tree', reach[c], l, req[c], job[c]) BY <1>1, <2>2, <2>3 DEF WorksIn
  <2> QED BY <2>1, <2>3, <2>4, ReachStepOf
<1> QED BY <1>2, <1>3

LEMMA StatReach ==
  ASSUME TreeInv, ReachInv, NEW c \in Client, Stat(c)
  PROVE  ReachInv'
<1> DEFINE d == job[c].depth
<1>1. pc[c] = "make" /\ UNCHANGED <<tree, data, req, base, reach>> BY DEF Stat, history
<1>2. CASE Finish(c, "error") BY <1>1, <1>2, ReachFinish
<1>3. CASE MadeDirs(c) BY <1>1, <1>3, ReachMadeDirs
<1>4. CASE \/ job' = [job EXCEPT ![c].depth = d - 1] /\ UNCHANGED pc
           \/ Goto(c, "mkdir") /\ UNCHANGED job
  <2>1. \E l \in {"make", "mkdir"} : pc' = [pc EXCEPT ![c] = l]
    <3>1. pc = [pc EXCEPT ![c] = "make"] BY <1>1 DEF TreeInv
    <3> QED BY <1>4, <3>1 DEF Goto
  <2>2. \A x \in Client \ {c} : job'[x] = job[x] BY <1>4 DEF TreeInv
  <2>3. job'[c].at = job[c].at /\ job'[c].dir = job[c].dir /\ job'[c].more = job[c].more
    BY <1>4 DEF TreeInv, JobOK, NoJob
  <2>4. \A l \in {"make", "mkdir"} : AtOp(l, req[c]) BY <1>1 DEF ReachInv, WorksIn, AtOp
  <2> QED BY <1>1, <2>1, <2>2, <2>3, <2>4, ReachMoves
<1> QED BY <1>2, <1>3, <1>4 DEF Stat

LEMMA MkdirReach ==
  ASSUME TreeInv, ReachInv, NEW c \in Client, Mkdir(c)
  PROVE  ReachInv'
<1> DEFINE d == job[c].depth + 1  p == SubSeq(job[c].dir, 1, d)
<1>1. pc[c] = "mkdir" /\ UNCHANGED <<data, req, base, reach>> BY DEF Mkdir
<1>2. CASE UNCHANGED tree /\ \E s : Finish(c, s) BY <1>1, <1>2, ReachFinish
<1>3. CASE tree' = With(tree, p, DirIno)
  <2>1. \A s \in DOMAIN tree' : tree'[s] = DirIno \/ (s \in DOMAIN tree /\ tree'[s] = tree[s])
    <3> HIDE DEF p
    <3> QED BY <1>3 DEF With
  <2>2. CASE MadeDirs(c) BY <1>1, <2>1, <2>2, ReachMadeDirs
  <2>3. CASE job' = [job EXCEPT ![c].depth = d] /\ UNCHANGED pc
    <3>1. pc' = [pc EXCEPT ![c] = "mkdir"] BY <1>1, <2>3 DEF TreeInv
    <3>2. \A x \in Client \ {c} : job'[x] = job[x] BY <2>3 DEF TreeInv
    <3>3. job'[c].at = job[c].at /\ job'[c].dir = job[c].dir /\ job'[c].more = job[c].more
      BY <2>3 DEF TreeInv, JobOK, NoJob
    <3>4. WorksIn(tree, reach[c], "mkdir", req[c], job[c]) BY <1>1 DEF ReachInv
    <3>5. WorksIn(tree', reach[c], "mkdir", req[c], job'[c]) BY <3>3, <3>4 DEF WorksIn, InHand
    <3> QED BY <1>1, <2>1, <3>1, <3>2, <3>5, ReachStepOf
  <2> QED BY <1>3, <2>2, <2>3, <1>2 DEF Mkdir
<1> QED BY <1>2, <1>3 DEF Mkdir

LEMMA OpenReach ==
  ASSUME TreeInv, ReachInv, NEW c \in Client, Open(c)
  PROVE  ReachInv'
<1> DEFINE p == job[c].at
<1>1. pc[c] = "open" /\ UNCHANGED <<req, base, reach>> BY DEF Open
<1>2. CASE UNCHANGED tree /\ \E s : Finish(c, s) BY <1>1, <1>2, ReachFinish
<1>3. CASE /\ \E i \in IF IsFile(p) THEN {tree[p]} ELSE Ino \ InUse :
                /\ tree' = With(tree, p, i)
                /\ job' = [job EXCEPT ![c].fd = i]
           /\ Goto(c, "fill")
  <2>1. PICK i \in IF IsFile(p) THEN {tree[p]} ELSE Ino \ InUse :
          tree' = With(tree, p, i) /\ job' = [job EXCEPT ![c].fd = i]
    BY <1>3
  <2>2. i # DirIno BY FsAssumption DEF IsFile
  <2>3. \A q \in DOMAIN tree : tree[q] = i => q = p
    <3>1. CASE IsFile(p)
      <4>1. i = tree[p] /\ p \in DOMAIN tree BY <3>1 DEF IsFile
      <4> QED BY <2>2, <4>1 DEF TreeInv, IsTree
    <3>2. CASE ~IsFile(p) BY <3>2 DEF InUse, Range
    <3> QED BY <3>1, <3>2
  <2>4. \A s \in DOMAIN tree' : \/ tree'[s] = DirIno \/ tree'[s] \notin InUse
                                \/ s \in DOMAIN tree /\ tree'[s] = tree[s]
    <3>1. IsFile(p) => i = tree[p] /\ p \in DOMAIN tree BY DEF IsFile
    <3>2. ~IsFile(p) => i \notin InUse OBVIOUS
    <3> HIDE DEF p
    <3> QED BY <2>1, <3>1, <3>2 DEF With
  <2>5. p \in reach[c] /\ p \in Path BY <1>1, InReach, JobOf DEF JobOK
  <2>6. \A s \in DOMAIN tree' : tree'[s] = i => Below(s, reach[c])
    <3>1. Below(p, reach[c]) BY <2>5, PathOrder DEF Below
    <3> HIDE DEF p
    <3> QED BY <2>1, <2>3, <3>1 DEF With
  <2>7. job'[c].fd = i /\ job'[c].at = job[c].at /\ job'[c].dir = job[c].dir /\ job'[c].more = job[c].more
    BY <2>1 DEF TreeInv, JobOK, NoJob
  <2>8. \A x \in Client \ {c} : job'[x] = job[x] BY <2>1 DEF TreeInv
  <2>9. WorksIn(tree, reach[c], "open", req[c], job[c]) BY <1>1 DEF ReachInv
  <2>10. WorksIn(tree', reach[c], "fill", req[c], job'[c])
    BY <2>2, <2>6, <2>7, <2>9 DEF WorksIn, InHand, AtOp
  <2>11. pc' = [pc EXCEPT ![c] = "fill"] BY <1>3 DEF Goto
  <2> QED BY <1>1, <2>4, <2>8, <2>10, <2>11, ReachStepOf
<1> QED BY <1>2, <1>3 DEF Open

LEMMA FillReach ==
  ASSUME TreeInv, ReachInv, NEW c \in Client, Fill(c)
  PROVE  ReachInv'
<1> DEFINE j == job[c]
<1>1. pc[c] = "fill" /\ UNCHANGED <<tree, req, base, reach>> BY DEF Fill
<1>2. CASE \E s : Finish(c, s) BY <1>1, <1>2, ReachFinish
<1>3. CASE j.more # <<>> /\ NextFile(c)
  <2> DEFINE h == Head(j.more)  m == Tail(j.more)  k == [Target(req[c], h) EXCEPT !.more = m]
  <2>1. pc' = [pc EXCEPT ![c] = "make"] /\ job' = [job EXCEPT ![c] = k]
    BY <1>3 DEF NextFile, Goto
  <2>2. job'[c] = k /\ \A x \in Client \ {c} : job'[x] = job[x] BY <2>1 DEF TreeInv
  <2>3. k.at = h /\ k.dir = Parent(h) /\ k.more = m BY DEF Target, NoJob
  <2>4. j.more \in Seq(Path) BY JobOf DEF JobOK
  <2>5. /\ \E i \in DOMAIN j.more : h = j.more[i]
        /\ \A i \in DOMAIN m : \E n \in DOMAIN j.more : m[i] = j.more[n]
    <3> DEFINE n == Len(j.more)
    <3>1. n \in Nat \ {0} /\ DOMAIN j.more = 1 .. n BY <1>3, <2>4, EmptySeq, LenProperties
    <3>2. h = j.more[1] /\ m \in Seq(Path) /\ Len(m) = n - 1 /\ \A i \in 1 .. Len(m) : m[i] = j.more[i + 1]
      BY <1>3, <2>4, HeadTailProperties
    <3> HIDE DEF m, n, h
    <3>3. DOMAIN m = 1 .. n - 1 BY <3>2, LenProperties
    <3>4. 1 \in 1 .. n /\ \A i \in 1 .. n - 1 : i + 1 \in 1 .. n BY <3>1
    <3> QED BY <3>1, <3>2, <3>3, <3>4
  <2>6. /\ WorksIn(tree, reach[c], "fill", req[c], j) /\ InHand(req[c], j)
        /\ req[c].op \in {"write", "upload", "patch", "copy"}
    BY <1>1 DEF ReachInv, WorksIn, AtOp
  <2> HIDE DEF h, m, k
  <2>7. InHand(req[c], k) BY <2>3, <2>5, <2>6 DEF InHand
  <2>8. WorksIn(tree', reach[c], "make", req[c], k) BY <2>6, <2>7 DEF WorksIn, AtOp
  <2> QED BY <1>1, <2>1, <2>2, <2>8, ReachStepOf
<1> QED BY <1>2, <1>3 DEF Fill

LEMMA ReadReach ==
  ASSUME TreeInv, ReachInv, NEW c \in Client,
         \/ OpenSource(c) \/ ReadOld(c) \/ Lstat(c) \/ RefuseRoot(c)
         \/ StatPath(c) \/ Chmod(c) \/ Measure(c) \/ Send(c)
  PROVE  ReachInv'
<1>1. UNCHANGED <<tree, req, base, reach>>
  BY DEF OpenSource, ReadOld, Lstat, RefuseRoot, StatPath, Chmod, Measure, Send, Look, history
<1>2. AtOp(pc[c], req[c]) BY DEF ReachInv, WorksIn
<1>3. CASE pc[c] \notin {"idle", "answered"} /\ \E s, b : Finish(c, s) \/ FinishWith(c, s, b)
  BY <1>1, <1>3, ReachFinish
<1>4. ASSUME pc[c] \notin {"idle", "answered"}, NEW l \in {"make", "send", "size", "open", "rename"},
             AtOp(l, req[c]), Goto(c, l), \A d \in Client \ {c} : job'[d] = job[d],
             job'[c].at = job[c].at, job'[c].dir = job[c].dir, job'[c].more = job[c].more
      PROVE  ReachInv'
  BY <1>1, <1>4, ReachMoves DEF Goto
<1>5. ASSUME NEW x, job' = job \/ job' = [job EXCEPT ![c].src = x] \/ job' = [job EXCEPT ![c].buf = x]
               \/ job' = [job EXCEPT ![c].depth = x]
      PROVE  /\ \A d \in Client \ {c} : job'[d] = job[d]
             /\ job'[c].at = job[c].at /\ job'[c].dir = job[c].dir /\ job'[c].more = job[c].more
  BY <1>5 DEF TreeInv, JobOK, NoJob
<1>6. CASE OpenSource(c)
  <2> DEFINE o == req[c].op
             l == CASE o = "copy" -> "make" [] o = "read" -> "send" [] OTHER -> "size"
  <2>1. pc[c] = "source" BY <1>6 DEF OpenSource
  <2>2. CASE Goto(c, l) /\ job' = [job EXCEPT ![c].src = tree[req[c].path]]
    <3>1. AtOp(l, req[c]) BY <1>2, <2>1 DEF AtOp
    <3>2. l \in {"make", "send", "size", "open", "rename"} OBVIOUS
    <3> HIDE DEF l
    <3> QED BY <1>4, <1>5, <2>1, <2>2, <3>1, <3>2
  <2> QED BY <1>3, <1>6, <2>1, <2>2 DEF OpenSource
<1>7. CASE ReadOld(c)
  <2>1. pc[c] = "read" /\ AtOp("open", req[c]) BY <1>2, <1>7 DEF ReadOld, AtOp
  <2>2. CASE Goto(c, "open") /\ \E x : job' = [job EXCEPT ![c].buf = x]
    BY <1>4, <1>5, <2>1, <2>2
  <2> QED BY <1>3, <1>7, <2>1, <2>2 DEF ReadOld
<1>8. CASE Lstat(c)
  <2>1. pc[c] = "lstat" /\ AtOp("rename", req[c]) BY <1>2, <1>8 DEF Lstat, AtOp
  <2>2. CASE Goto(c, "rename") /\ job' = job BY <1>4, <1>5, <2>1, <2>2
  <2> QED BY <1>3, <1>8, <2>1, <2>2 DEF Lstat
<1>9. CASE RefuseRoot(c) \/ StatPath(c) \/ Chmod(c) \/ Send(c)
  <2>1. pc[c] \in {"remove", "stat", "chmod", "send"} BY <1>9 DEF RefuseRoot, StatPath, Chmod, Send
  <2>2. \E s, b : Finish(c, s) \/ FinishWith(c, s, b)
    BY <1>9 DEF RefuseRoot, StatPath, Chmod, Send, Look
  <2> QED BY <1>3, <2>1, <2>2
<1>10. CASE Measure(c)
  <2>1. pc[c] = "size" /\ AtOp("send", req[c]) BY <1>2, <1>10 DEF Measure, AtOp
  <2>2. Goto(c, "send") /\ \E x : job' = [job EXCEPT ![c].depth = x] BY <1>10 DEF Measure
  <2> QED BY <1>4, <1>5, <2>1, <2>2
<1> QED BY <1>6, <1>7, <1>8, <1>9, <1>10

LEMMA WalkReach ==
  ASSUME TreeInv, ReachInv, NEW c \in Client, ReadDir(c) \/ Info(c) \/ Walk(c) \/ Visit(c)
  PROVE  ReachInv'
<1>1. UNCHANGED <<tree, req, base, reach>> BY DEF ReadDir, Info, Walk, Visit, history
<1>2. AtOp(pc[c], req[c]) /\ pc[c] \in {"list", "info", "search", "visit"}
  BY DEF ReachInv, WorksIn, ReadDir, Info, Walk, Visit
<1>3. CASE \E s, b : Finish(c, s) \/ FinishWith(c, s, b) BY <1>1, <1>2, <1>3, ReachFinish
<1>4. ASSUME NEW l \in {"info", "visit"}, AtOp(l, req[c]), pc' = [pc EXCEPT ![c] = l],
             NEW todo, NEW found,
             \/ job' = [job EXCEPT ![c].todo = todo]
             \/ job' = [job EXCEPT ![c].todo = todo, ![c].found = found]
      PROVE  ReachInv'
  <2>1. /\ \A d \in Client \ {c} : job'[d] = job[d]
        /\ job'[c].at = job[c].at /\ job'[c].dir = job[c].dir /\ job'[c].more = job[c].more
    BY <1>4 DEF TreeInv, JobOK, NoJob
  <2> QED BY <1>1, <1>2, <1>4, <2>1, ReachMoves
<1>5. ASSUME pc[c] \in {"info", "visit"}, NEW rest, NEW found, GoOn(c, rest, found) PROVE ReachInv'
  <2>1. CASE rest = <<>> BY <1>3, <1>5, <2>1 DEF GoOn
  <2>2. CASE rest # <<>>
    <3>1. pc' = [pc EXCEPT ![c] = pc[c]] /\ job' = [job EXCEPT ![c].todo = rest, ![c].found = found]
      BY <1>5, <2>2 DEF GoOn, TreeInv
    <3> QED BY <1>2, <1>4, <1>5, <3>1
  <2> QED BY <2>1, <2>2
<1>6. CASE ReadDir(c)
  <2>1. AtOp("info", req[c]) BY <1>2, <1>6 DEF ReadDir, AtOp
  <2>2. CASE Goto(c, "info") /\ \E todo : job' = [job EXCEPT ![c].todo = todo]
    BY <1>4, <2>1, <2>2 DEF Goto
  <2> QED BY <1>3, <1>6, <2>2 DEF ReadDir
<1>7. CASE Walk(c)
  <2>1. AtOp("visit", req[c]) BY <1>2, <1>7 DEF Walk, AtOp
  <2>2. CASE Goto(c, "visit") /\ \E todo : job' = [job EXCEPT ![c].todo = todo]
    BY <1>4, <2>1, <2>2 DEF Goto
  <2> QED BY <1>3, <1>7, <2>2 DEF Walk
<1>8. CASE Info(c) BY <1>5, <1>8 DEF Info
<1>9. CASE Visit(c)
  <2>1. pc[c] = "visit" /\ \E rest, found : GoOn(c, rest, found) BY <1>9 DEF Visit
  <2> QED BY <1>5, <2>1
<1> QED BY <1>6, <1>7, <1>8, <1>9

\* where a deletion's entry is, once p has become q, or q is gone
LEMMA NowReach ==
  ASSUME NEW R, NEW Q, R \subseteq Q, Q \subseteq Path, NEW p, NEW q \in Path,
         \/ /\ p \in Path /\ p # Root
            /\ \A s \in Path : IsPrefix(p, s) => Moved(p, q, s) \in Path
            /\ Meet(R, {p}) => q \in Q
         \/ p = Nowhere,
         NEW s, s = Nowhere \/ (s \in Path /\ Below(s, R))
  PROVE  LET n == Now(p, q, s) IN n = Nowhere \/ (n \in Path /\ Below(n, Q))
<1>1. CASE s = Nowhere
  <2>1. Parent(s) = Root BY <1>1, NowhereIsNone
  <2>2. ~IsPrefix(p, Root)
    <3>1. CASE p = Nowhere BY <3>1, NowhereIsNone, PathParent
    <3>2. CASE p # Nowhere BY <3>2, PathOrder, PathParent
    <3> QED BY <3>1, <3>2
  <2> QED BY <1>1, <2>1, <2>2 DEF Now
<1>2. CASE s # Nowhere /\ ~IsPrefix(p, Parent(s)) BY <1>2, BelowMore DEF Now
<1>3. CASE s # Nowhere /\ IsPrefix(p, Parent(s))
  <2>1. s \in Path /\ Below(s, R) BY <1>3
  <2>2. Parent(s) \in Path /\ IsPrefix(Parent(s), s)
    <3>1. CASE s = Root BY <3>1, PathParent, PathOrder
    <3>2. CASE s # Root BY <2>1, <3>2, PathParent
    <3> QED BY <3>1, <3>2
  <2>3. p \in Path BY <1>3, <2>2, NowhereIsNone
  <2>4. p # Nowhere BY <2>3, NowhereIsNone
  <2>5. IsPrefix(p, s) BY <1>3, <2>1, <2>2, <2>3, PathOrder
  <2>6. Now(p, q, s) = Moved(p, q, s) /\ Moved(p, q, s) \in Path
    BY <1>3, <2>1, <2>4, <2>5 DEF Now
  <2>7. Meet(R, {p})
    <3>1. PICK n \in R : IsPrefix(n, s) BY <2>1 DEF Below
    <3>2. IsPrefix(n, p) \/ IsPrefix(p, n) BY <2>1, <2>3, <2>5, <3>1, PathOrder
    <3> QED BY <3>2 DEF Meet
  <2>8. IsPrefix(q, Moved(p, q, s))
    <3>1. p \in Seq(Name) /\ q \in Seq(Name) /\ s \in Seq(Name) BY <2>1, <2>3, FsAssumption
    <3> QED BY <2>5, <3>1, MovedOrder
  <2>9. q \in Q BY <2>4, <2>7
  <2> QED BY <2>6, <2>8, <2>9 DEF Below
<1> QED BY <1>1, <1>2, <1>3

\* what another client works in, once p has become q
LEMMA FollowsReach ==
  ASSUME NEW t, NEW u, NEW R, NEW Q, R \subseteq Q, Q \subseteq Path, NEW p, NEW q \in Path,
         NEW l, NEW r, NEW j, JobOK(j), AtStep(l, r, j), WorksIn(t, R, l, r, j),
         l \in {"fill", "remove"} =>
           \/ /\ p \in Path /\ p # Root
              /\ \A s \in Path : IsPrefix(p, s) => Moved(p, q, s) \in Path
              /\ Meet(R, {p}) => q \in Q
           \/ p = Nowhere,
         l = "fill" /\ j.fd # DirIno => \A s \in DOMAIN u : u[s] = j.fd => Below(s, Q)
  PROVE  WorksIn(u, Q, l, r, Follows(j, p, q))
<1> DEFINE k == Follows(j, p, q)
<1>1. k.at = j.at /\ k.dir = j.dir /\ k.more = j.more /\ k.fd = j.fd BY DEF Follows, JobOK, NoJob
<1>2. /\ DOMAIN k.todo = DOMAIN j.todo
      /\ \A i \in DOMAIN j.todo :
           \/ k.todo[i].at = j.todo[i].at
           \/ k.todo[i] = [j.todo[i] EXCEPT !.at = Now(p, q, j.todo[i].at)]
  BY DEF Follows, JobOK, NoJob
<1> HIDE DEF k
<1>3. ASSUME l = "remove", NEW i \in DOMAIN k.todo
      PROVE  k.todo[i].at = Nowhere \/ (k.todo[i].at \in Path /\ Below(k.todo[i].at, Q))
  <2> DEFINE s == j.todo[i].at
  <2>1. s = Nowhere \/ (s \in Path /\ Below(s, R)) BY <1>2, <1>3 DEF WorksIn
  <2>2. LET n == Now(p, q, s) IN n = Nowhere \/ (n \in Path /\ Below(n, Q))
    BY <1>3, <2>1, NowReach
  <2>3. k.todo[i].at = s \/ k.todo[i].at = Now(p, q, s)
    <3> DEFINE E == [at : Seq(Names), listed : BOOLEAN]
    <3>1. j.todo \in Seq(E) BY <1>3 DEF AtStep, Removing
    <3>2. j.todo[i] \in E
      <4>1. DOMAIN j.todo = 1 .. Len(j.todo) BY <3>1, LenProperties
      <4> QED BY <1>2, <1>3, <3>1, <4>1, ElementOfSeq
    <3> QED BY <1>2, <1>3, <3>2
  <2> HIDE DEF s
  <2> QED BY <2>1, <2>2, <2>3, BelowMore
<1> QED BY <1>1, <1>3 DEF WorksIn, InHand, k

\* a step of c that moves p to q, or removes q; its job is then j
Moves(c, p, q) ==
  /\ p \in Path /\ p # Root /\ p \in reach[c] /\ q \in reach[c]
  /\ \A s \in Path : IsPrefix(p, s) => Moved(p, q, s) \in Path
  /\ reach' = [d \in Client |-> IF d \in Active /\ Meet(reach[d], {p})
                                THEN reach[d] \cup {q} ELSE reach[d]]
  /\ \A s \in DOMAIN tree' : \/ s \in DOMAIN tree /\ tree'[s] = tree[s]
                             \/ \E m \in DOMAIN tree : /\ IsPrefix(p, m) /\ IsPrefix(q, s)
                                                       /\ tree'[s] = tree[m]
Removes(p) ==
  /\ p = Nowhere /\ reach' = reach
  /\ \A s \in DOMAIN tree' : s \in DOMAIN tree /\ tree'[s] = tree[s]
Displaces(c, j, p, q) ==
  /\ job' = [d \in Client |-> IF d = c THEN j ELSE Follows(job[d], p, q)]
  /\ Moves(c, p, q) \/ Removes(p)

LEMMA MovingReach ==
  ASSUME TreeInv, ReachInv, NEW c \in Client, NEW l, NEW j, NEW p, NEW q \in Path,
         pc[c] \in {"rename", "remove"}, l # "idle",
         pc' = [pc EXCEPT ![c] = l], req' = req, base' = base,
         Displaces(c, j, p, q),
         WorksIn(tree', reach'[c], l, req[c], j)
  PROVE  ReachInv'
<1>1. \A d \in Client : pc'[d] = IF d = c THEN l ELSE pc[d] BY DEF TreeInv
<1>2. ASSUME NEW d \in Client
      PROVE  /\ reach[d] \subseteq reach'[d] /\ reach'[d] \subseteq reach[d] \cup {q}
             /\ q \in reach'[d] => q \in reach[d] \/ (d \in Active /\ Meet(reach[d], {p}) /\ q \in reach[c])
             /\ d \in Active /\ Meet(reach[d], {p}) => q \in reach'[d] \/ p = Nowhere
             /\ reach'[d] \subseteq Path
  <2>1. reach[d] \subseteq Path BY DEF ReachInv, WorksIn
  <2>2. CASE p = Nowhere /\ reach' = reach BY <2>1, <2>2
  <2>3. CASE /\ q \in reach[c]
             /\ reach' = [x \in Client |-> IF x \in Active /\ Meet(reach[x], {p})
                                           THEN reach[x] \cup {q} ELSE reach[x]]
    <3>1. reach'[d] = IF d \in Active /\ Meet(reach[d], {p}) THEN reach[d] \cup {q} ELSE reach[d]
      BY <2>3
    <3> QED BY <2>1, <2>3, <3>1
  <2> QED BY <2>2, <2>3 DEF Displaces, Moves, Removes
<1>3. ASSUME NEW d \in Client, d # c PROVE WorksIn(tree', reach'[d], pc'[d], req'[d], job'[d])
  <2>1. /\ WorksIn(tree, reach[d], pc[d], req[d], job[d]) /\ JobOK(job[d])
        /\ AtStep(pc[d], req[d], job[d])
    BY DEF ReachInv, TreeInv
  <2>2. ASSUME pc[d] \in {"fill", "remove"}
        PROVE \/ /\ p \in Path /\ p # Root
                 /\ \A s \in Path : IsPrefix(p, s) => Moved(p, q, s) \in Path
                 /\ Meet(reach[d], {p}) => q \in reach'[d]
              \/ p = Nowhere
    BY <1>2, <2>2 DEF Active, Displaces, Moves, Removes
  <2>3. ASSUME pc[d] = "fill", job[d].fd # DirIno, NEW s \in DOMAIN tree', tree'[s] = job[d].fd
        PROVE  Below(s, reach'[d])
    <3>1. \A m \in DOMAIN tree : tree[m] = job[d].fd => Below(m, reach[d])
      BY <2>1, <2>3 DEF WorksIn
    <3>2. CASE s \in DOMAIN tree /\ tree'[s] = tree[s]
      <4>1. Below(s, reach[d]) BY <2>3, <3>1, <3>2
      <4> QED BY <1>2, <4>1, BelowMore
    <3>3. CASE /\ p \in Path /\ p # Nowhere
               /\ \E m \in DOMAIN tree : IsPrefix(p, m) /\ IsPrefix(q, s) /\ tree'[s] = tree[m]
      <4>1. PICK m \in DOMAIN tree : IsPrefix(p, m) /\ IsPrefix(q, s) /\ tree'[s] = tree[m]
        BY <3>3
      <4>2. PICK n \in reach[d] : IsPrefix(n, m) BY <2>3, <3>1, <4>1 DEF Below
      <4>3. m \in Path /\ n \in Path BY <1>2, <4>1, <4>2 DEF TreeInv, IsTree
      <4>4. Meet(reach[d], {p}) BY <3>3, <4>1, <4>2, <4>3, PathOrder DEF Meet
      <4>5. q \in reach'[d] BY <1>2, <2>3, <3>3, <4>4 DEF Active
      <4> QED BY <4>1, <4>5 DEF Below
    <3>4. p \in Path => p # Nowhere BY NowhereIsNone
    <3> QED BY <2>3, <3>2, <3>3, <3>4 DEF Displaces, Moves, Removes
  <2>4. WorksIn(tree', reach'[d], pc[d], req[d], Follows(job[d], p, q))
    BY <1>2, <2>1, <2>2, <2>3, FollowsReach
  <2> QED BY <1>1, <1>3, <2>4 DEF Displaces
<1>4. WorksIn(tree', reach'[c], pc'[c], req'[c], job'[c]) BY <1>1 DEF Displaces
<1>5. \A d \in Client : d \in Active' => d \in Active /\ (d = c => l # "answered")
  BY <1>1 DEF Active
<1>6. req[c].op \notin Reads /\ c \in Active
  BY DEF ReachInv, WorksIn, AtOp, Reads, Active
<1>7. ASSUME NEW x \in Client, NEW y \in Client, x # y, base[x] # NoView,
             y \in Active, req[y].op \notin Reads, Meet(reach'[x], reach'[y])
      PROVE  FALSE
  <2>1. ~Meet(reach[x], reach[y]) /\ (x # c => ~Meet(reach[x], reach[c]))
    BY <1>6, <1>7 DEF ReachInv
  <2>2. CASE p = Nowhere /\ reach' = reach BY <1>7, <2>1, <2>2
  <2>3. CASE p \in reach[c] /\ q \in reach[c]
    <3>1. x # c => ~Meet(reach[x], {p}) BY <2>1, <2>3 DEF Meet
    <3>2. reach'[x] = reach[x]
      <4>1. CASE x = c BY <1>2, <2>3, <4>1
      <4>2. CASE x # c BY <1>2, <3>1, <4>2
      <4> QED BY <4>1, <4>2
    <3>3. x = c => ~Meet(reach[y], {p}) BY <2>1, <2>3, MeetIsSymmetric DEF Meet
    <3>4. CASE x = c
      <4>1. reach'[y] \subseteq reach[y] \cup {q} /\ (q \in reach'[y] => q \in reach[y]) BY <1>2, <3>3, <3>4
      <4> QED BY <1>7, <2>1, <3>2, <4>1 DEF Meet
    <3>5. CASE x # c
      <4>1. reach'[y] \subseteq reach[y] \cup {q} BY <1>2
      <4> QED BY <1>7, <2>1, <2>3, <3>2, <3>5, <4>1 DEF Meet
    <3> QED BY <3>4, <3>5
  <2> QED BY <2>2, <2>3 DEF Displaces, Moves, Removes
<1>8. base' = [d \in Client |-> base'[d]] /\ reach' = [d \in Client |-> reach'[d]]
  BY DEF ReachInv, Displaces, Moves, Removes
<1>9. \A d \in Client : pc'[d] = "idle" => base'[d] = NoView BY <1>1 DEF ReachInv
<1> QED BY <1>3, <1>4, <1>5, <1>7, <1>8, <1>9 DEF ReachInv

\* what has been moved from p to q
LEMMA RelocatedIs ==
  ASSUME NEW v, DOMAIN v \subseteq Path, NEW p \in DOMAIN v, NEW q \in Path,
         ~IsPrefix(p, q), ~IsPrefix(q, p), \A s \in DOMAIN v : IsPrefix(q, s) => s = q,
         \A s \in Path : IsPrefix(p, s) => Moved(p, q, s) \in Path,
         NEW w, w = Relocated(v, p, q)
  PROVE  /\ DOMAIN w \subseteq Path
         /\ \A s \in Path : ~IsPrefix(p, s) /\ ~IsPrefix(q, s) =>
              (s \in DOMAIN w <=> s \in DOMAIN v) /\ (s \in DOMAIN v => w[s] = v[s])
         /\ \A s \in Path : IsPrefix(p, s) => s \notin DOMAIN w
         /\ \A s \in Path : IsPrefix(q, s) =>
              /\ IsPrefix(p, Moved(q, p, s))
              /\ s \in DOMAIN w <=> Moved(q, p, s) \in DOMAIN v
              /\ s \in DOMAIN w => w[s] = v[Moved(q, p, s)]
<1> DEFINE rest == Without(v, p)  moved == {x \in DOMAIN v : IsPrefix(p, x)}
<1>1. /\ DOMAIN w = DOMAIN rest \cup {Moved(p, q, m) : m \in moved}
      /\ \A s \in DOMAIN w : w[s] = IF IsPrefix(q, s) THEN v[Moved(q, p, s)] ELSE rest[s]
  BY DEF Relocated
<1>2. \A s : s \in DOMAIN rest <=> s \in DOMAIN v /\ ~IsPrefix(p, s) BY DEF Without, Within
<1>3. \A s \in DOMAIN rest : rest[s] = v[s] BY DEF Without
<1> HIDE DEF rest
<1>4. p \in Path /\ Path \subseteq Seq(Name) BY FsAssumption
<1>5. ASSUME NEW m \in DOMAIN v, IsPrefix(p, m)
      PROVE  /\ Moved(p, q, m) \in Path /\ IsPrefix(q, Moved(p, q, m))
             /\ Moved(q, p, Moved(p, q, m)) = m
  <2>1. m \in Path /\ m \in Seq(Name) /\ p \in Seq(Name) /\ q \in Seq(Name) BY <1>4
  <2> QED BY <1>5, <2>1, MovedOrder
<1>6. ASSUME NEW s \in Path, IsPrefix(q, s)
      PROVE  IsPrefix(p, Moved(q, p, s)) /\ Moved(p, q, Moved(q, p, s)) = s
  <2>1. s \in Seq(Name) /\ p \in Seq(Name) /\ q \in Seq(Name) BY <1>4
  <2> QED BY <1>6, <2>1, MovedOrder
<1>7. Moved(q, p, q) = p
  <2>1. p \in Seq(Name) /\ q \in Seq(Name) BY <1>4
  <2> QED BY <2>1, MovedOrder
<1>8. \A s \in Path : IsPrefix(p, s) => ~IsPrefix(q, s) BY <1>4, PathOrder
<1>9. DOMAIN w \subseteq Path BY <1>1, <1>2, <1>5
<1>10. \A s \in Path : ~IsPrefix(q, s) =>
         (s \in DOMAIN w <=> s \in DOMAIN v /\ ~IsPrefix(p, s)) /\ (s \in DOMAIN w => w[s] = v[s])
  BY <1>1, <1>2, <1>3, <1>5
<1>11. ASSUME NEW s \in Path, IsPrefix(q, s) PROVE s \in DOMAIN w <=> Moved(q, p, s) \in DOMAIN v
  <2>1. ASSUME s \in DOMAIN w PROVE Moved(q, p, s) \in DOMAIN v
    <3>1. CASE s \in DOMAIN rest BY <1>2, <1>7, <1>11, <3>1
    <3>2. CASE \E m \in moved : s = Moved(p, q, m) BY <1>5, <3>2
    <3> QED BY <1>1, <2>1, <3>1, <3>2
  <2>2. ASSUME Moved(q, p, s) \in DOMAIN v PROVE s \in DOMAIN w
    BY <1>1, <1>6, <1>11, <2>2
  <2> QED BY <2>1, <2>2
<1> QED BY <1>1, <1>6, <1>8, <1>9, <1>10, <1>11

\* what Rename moves, and where to
LEMMA MayMove ==
  ASSUME IsTree(tree), NEW p \in DOMAIN tree, NEW q \in Path, p # q,
         ~(p # q /\ IsPrefix(p, q)), ~(IsDir(p) /\ (IsFile(q) \/ Children(q) # {})),
         ~(IsFile(p) /\ IsDir(q))
  PROVE  /\ p \in Path /\ p # Root /\ ~IsPrefix(p, q) /\ ~IsPrefix(q, p)
         /\ \A s \in DOMAIN tree : IsPrefix(q, s) => s = q
<1>1. p \in Path /\ ~IsPrefix(p, q) /\ p # Root BY PathOrder DEF IsTree
<1>2. \A s \in DOMAIN tree : IsPrefix(q, s) => s = q
  <2>1. CASE IsFile(q) \/ Children(q) = {}
    BY <2>1, NothingBelow DEF IsFile, Children
  <2>2. CASE q \notin DOMAIN tree BY <2>2 DEF IsTree
  <2> QED BY <2>1, <2>2 DEF IsFile, IsDir
<1> QED BY <1>1, <1>2

LEMMA RenameReach ==
  ASSUME TreeInv, ReachInv, NEW c \in Client, Rename(c)
  PROVE  ReachInv'
<1> DEFINE p == req[c].path  q == req[c].to
<1>1. /\ pc[c] = "rename" /\ req' = req /\ base' = base /\ p \in Path /\ q \in Path
      /\ p \in reach[c] /\ q \in reach[c] /\ req[c].op = "move"
  BY JobOf, InReach DEF Rename, AtStep
<1>2. CASE UNCHANGED <<tree, reach>> /\ \E s : Finish(c, s) BY <1>1, <1>2, ReachFinish
<1>3. CASE /\ p \in DOMAIN tree /\ p # q /\ ~(p # q /\ IsPrefix(p, q))
           /\ ~(IsDir(p) /\ (IsFile(q) \/ Children(q) # {})) /\ ~(IsFile(p) /\ IsDir(q))
           /\ tree' = Relocated(tree, p, q)
           /\ job' = [d \in Client |-> IF d = c THEN NoJob ELSE Follows(job[d], p, q)]
           /\ reach' = [d \in Client |-> IF d \in Active /\ Meet(reach[d], {p})
                                         THEN reach[d] \cup {q} ELSE reach[d]]
           /\ Answer(c, "ok")
  <2>1. ~IsPrefix(p, q) /\ p # Root BY <1>1, <1>3, PathOrder
  <2>2. \A s \in Path : IsPrefix(p, s) => Moved(p, q, s) \in Path
    BY <1>1, <2>1, AskedOK DEF TreeInv
  <2>3. pc' = [pc EXCEPT ![c] = "answered"] BY <1>3 DEF Answer, AnswerWith, Goto
  <2>4. ASSUME NEW s \in DOMAIN tree'
        PROVE  \/ s \in DOMAIN tree /\ tree'[s] = tree[s]
               \/ \E m \in DOMAIN tree : IsPrefix(p, m) /\ IsPrefix(q, s) /\ tree'[s] = tree[m]
    <3>1. p \in DOMAIN tree /\ DOMAIN tree \subseteq Path BY <1>3 DEF TreeInv, IsTree
    <3>2. /\ ~IsPrefix(q, p) /\ \A x \in DOMAIN tree : IsPrefix(q, x) => x = q
      BY <1>1, <1>3, MayMove DEF TreeInv
    <3> HIDE DEF p, q
    <3>3. /\ DOMAIN tree' \subseteq Path
          /\ \A x \in Path : ~IsPrefix(p, x) /\ ~IsPrefix(q, x) =>
               (x \in DOMAIN tree' <=> x \in DOMAIN tree) /\ (x \in DOMAIN tree => tree'[x] = tree[x])
          /\ \A x \in Path : IsPrefix(p, x) => x \notin DOMAIN tree'
          /\ \A x \in Path : IsPrefix(q, x) =>
               /\ IsPrefix(p, Moved(q, p, x))
               /\ x \in DOMAIN tree' <=> Moved(q, p, x) \in DOMAIN tree
               /\ x \in DOMAIN tree' => tree'[x] = tree[Moved(q, p, x)]
      BY <1>1, <1>3, <2>1, <2>2, <3>1, <3>2, RelocatedIs
    <3> QED BY <2>4, <3>3
  <2>5. WorksIn(tree, reach[c], pc[c], req[c], job[c]) BY DEF ReachInv
  <2>6. reach'[c] = reach[c]
    <3>1. reach'[c] \in {reach[c], reach[c] \cup {q}} BY <1>3
    <3> QED BY <1>1, <3>1
  <2>7. WorksIn(tree', reach'[c], "answered", req[c], NoJob) BY <1>1, <2>5, <2>6 DEF WorksIn, AtOp
  <2> HIDE DEF p, q
  <2>8. Moves(c, p, q) BY <1>1, <1>3, <2>1, <2>2, <2>4 DEF Moves
  <2>9. Displaces(c, NoJob, p, q) BY <1>3, <2>8 DEF Displaces
  <2> QED BY <1>1, <2>3, <2>7, <2>9, MovingReach
<1> QED BY <1>2, <1>3 DEF Rename

\* the entries of a directory in some order
LEMMA InSomeOrder ==
  ASSUME NEW S, IsFiniteSet(S), NEW f \in SetToSeqs(S)
  PROVE  /\ Cardinality(S) \in Nat /\ f \in [1 .. Cardinality(S) -> S]
         /\ \A s \in S : \E k \in 1 .. Cardinality(S) : f[k] = s
<1> DEFINE m == Cardinality(S)  D == 1 .. m
<1>1. m \in Nat BY FS_CardinalityType
<1>2. f \in [D -> S] /\ \A i, j \in D : i # j => f[i] # f[j] BY Zenon DEF SetToSeqs
<1>3. IsFiniteSet(D) /\ Cardinality(D) = m
  <2>1. 1 \in Int /\ m \in Int BY <1>1
  <2>2. IsFiniteSet(1 .. m) /\ Cardinality(1 .. m) = IF 1 > m THEN 0 ELSE m - 1 + 1
    BY <2>1, FS_Interval
  <2> QED BY <1>1, <2>2
<1> HIDE DEF D
<1>4. f \in Injection(D, S)
  <2>1. DOMAIN f = D BY <1>2
  <2>2. IsInjective(f) BY <1>2, <2>1, Zenon DEF IsInjective
  <2> QED BY <1>2, <2>2 DEF Injection
<1> HIDE DEF m
<1>5. f \in Surjection(D, S) BY <1>3, <1>4, FS_Injection DEF m
<1> QED BY <1>1, <1>2, <1>5 DEF Surjection, D, m

\* a deletion's stack with the entries of the directory on top of it
Listed(t, names) ==
  [t EXCEPT ![Len(t)].listed = TRUE] \o [i \in DOMAIN names |-> [at |-> names[i], listed |-> FALSE]]

\* s is on a stack, above its first n entries
OnTop(s, t, n) == \E i \in DOMAIN t : n < i /\ t[i].at = s

LEMMA ListedIs ==
  ASSUME NEW t \in Seq([at : Seq(Names), listed : BOOLEAN]), t # <<>>,
         NEW C, IsFiniteSet(C), C \subseteq Seq(Names), NEW names \in SetToSeqs(C)
  PROVE  LET n == Len(t)  new == Listed(t, names) IN
         /\ n \in Nat \ {0} /\ DOMAIN t = 1 .. n /\ \A i \in DOMAIN t : i \in DOMAIN new /\ i <= n
         /\ \A i \in DOMAIN t : new[i].at = t[i].at /\ (new[i].listed => i = n \/ t[i].listed)
         /\ \A i \in DOMAIN new :
              i \in Nat /\ (i \in DOMAIN t \/ (n < i /\ new[i].at \in C /\ ~new[i].listed))
         /\ \A s \in C : OnTop(s, new, n)
<1> DEFINE E == [at : Seq(Names), listed : BOOLEAN]
           n == Len(t)  m == Cardinality(C)
           u == [t EXCEPT ![n].listed = TRUE]
           w == [i \in DOMAIN names |-> [at |-> names[i], listed |-> FALSE]]
           new == Listed(t, names)
<1>2. /\ n \in Nat \ {0} /\ DOMAIN t = 1 .. n
      /\ \A i \in 1 .. n : t[i] \in E
  BY EmptySeq, LenProperties, ElementOfSeq
<1>3. /\ u \in [1 .. n -> E]
      /\ \A i \in 1 .. n : u[i].at = t[i].at /\ (u[i].listed => i = n \/ t[i].listed)
  BY <1>2
<1>6. m \in Nat /\ names \in [1 .. m -> C] /\ \A s \in C : \E k \in 1 .. m : names[k] = s
  BY InSomeOrder
<1> HIDE DEF m
<1>7. w \in [1 .. m -> E] /\ \A i \in 1 .. m : w[i].at = names[i] /\ ~w[i].listed BY <1>6
<1>10. new = u \o w BY DEF Listed
<1> HIDE DEF u, w, n, new
<1>8. u \in Seq(E) /\ Len(u) = n BY <1>2, <1>3, SameLength
<1>9. w \in Seq(E) /\ Len(w) = m BY <1>6, <1>7, SameLength
<1>11. /\ new \in Seq(E) /\ Len(new) = n + m
       /\ \A i \in 1 .. n + m : new[i] = IF i <= n THEN u[i] ELSE w[i - n]
  <2>1. /\ u \o w \in Seq(E) /\ Len(u \o w) = Len(u) + Len(w)
        /\ \A i \in 1 .. Len(u) + Len(w) : (u \o w)[i] = IF i <= Len(u) THEN u[i] ELSE w[i - Len(u)]
    BY <1>8, <1>9, ConcatProperties
  <2> QED BY <1>8, <1>9, <1>10, <2>1, Zenon
<1>13. DOMAIN new = 1 .. n + m BY <1>11, LenProperties
<1>14. ASSUME NEW i \in 1 .. n PROVE i \in 1 .. n + m /\ i <= n /\ new[i] = u[i]
  <2>1. i \in 1 .. n + m /\ i <= n BY <1>2, <1>6
  <2> QED BY <1>11, <2>1
<1>15. ASSUME NEW i \in 1 .. n + m, i \notin 1 .. n PROVE n < i /\ new[i].at \in C /\ ~new[i].listed
  <2>1. n < i /\ ~(i <= n) /\ i - n \in 1 .. m BY <1>2, <1>6, <1>15
  <2>2. new[i] = w[i - n] BY <1>11, <2>1
  <2> QED BY <1>6, <1>7, <2>1, <2>2
<1>16. ASSUME NEW s \in C PROVE \E i \in 1 .. n + m : n < i /\ new[i].at = s
  <2>1. PICK k \in 1 .. m : names[k] = s BY <1>6
  <2>2. n + k \in 1 .. n + m /\ n < n + k /\ ~(n + k <= n) /\ (n + k) - n = k BY <1>2, <1>6
  <2>3. new[n + k] = w[(n + k) - n] BY <1>11, <2>2, Zenon
  <2> QED BY <1>7, <2>1, <2>2, <2>3
<1>17. \A i \in 1 .. n + m : i \in Nat BY <1>2, <1>6
<1>18. \A s \in C : OnTop(s, new, n) BY <1>13, <1>16 DEF OnTop
<1> QED BY <1>2, <1>3, <1>13, <1>14, <1>15, <1>17, <1>18 DEF n, new

\* ... and without what is on top of it
LEMMA FrontIs ==
  ASSUME NEW E, NEW t \in Seq(E), t # <<>>
  PROVE  /\ Front(t) \in Seq(E) /\ Len(t) \in Nat \ {0} /\ DOMAIN t = 1 .. Len(t)
         /\ \A i \in DOMAIN Front(t) : i \in DOMAIN t /\ i # Len(t) /\ Front(t)[i] = t[i]
         /\ \A i \in DOMAIN t : i # Len(t) => i \in DOMAIN Front(t)
<1> DEFINE n == Len(t)  f == Front(t)
<1>1. n \in Nat \ {0} /\ DOMAIN t = 1 .. n BY EmptySeq, LenProperties
<1>2. n - 1 \in 0 .. n BY <1>1
<1>3. f \in Seq(E) /\ Len(f) = n - 1 /\ IsPrefix(f, t) BY <1>2, FirstNames DEF Front
<1> HIDE DEF f
<1>4. \A i \in 1 .. Len(f) : f[i] = t[i] BY <1>3, PrefixDef
<1>5. DOMAIN f = 1 .. n - 1 BY <1>3, LenProperties
<1> HIDE DEF n
<1>6. \A i \in 1 .. n - 1 : i \in 1 .. n /\ i # n BY <1>1
<1>7. \A i \in 1 .. n : i # n => i \in 1 .. n - 1 BY <1>1
<1> QED BY <1>1, <1>3, <1>4, <1>5, <1>6, <1>7 DEF f, n

LEMMA RemoveReach ==
  ASSUME TreeInv, ReachInv, NEW c \in Client, RemoveEntry(c)
  PROVE  ReachInv'
<1> DEFINE todo == job[c].todo  p == Last(todo).at  E == [at : Seq(Names), listed : BOOLEAN]
           removed == \/ IsFile(p) /\ ~Last(todo).listed
                      \/ IsDir(p) /\ Children(p) = {}
<1>1. pc[c] = "remove" /\ req' = req /\ base' = base /\ reach' = reach /\ JobOK(job[c])
  BY JobOf DEF RemoveEntry
<1>2. /\ todo \in Seq(E) /\ todo # <<>>
      /\ p = Nowhere \/ (p \in Path /\ Below(p, reach[c]))
  BY <1>1, JobOf, TopEntry DEF AtStep, Removing
<1>3. WorksIn(tree, reach[c], "remove", req[c], job[c]) /\ reach[c] \subseteq Path
  BY <1>1, InReach DEF ReachInv
<1>4. CASE /\ Children(p) # {} /\ UNCHANGED <<tree, pc>>
           /\ \E names \in SetToSeqs(Children(p)) : job' = [job EXCEPT ![c].todo = Listed(todo, names)]
  <2>1. PICK names \in SetToSeqs(Children(p)) :
          job' = [job EXCEPT ![c].todo = Listed(todo, names)]
    BY <1>4
  <2> DEFINE new == Listed(todo, names)
             j == [job[c] EXCEPT !.todo = new]
  <2>2. /\ \A i \in DOMAIN todo : new[i].at = todo[i].at
        /\ \A i \in DOMAIN new : i \in DOMAIN todo \/ new[i].at \in Children(p)
    <3> HIDE DEF todo, p
    <3>1. IsFiniteSet(Children(p)) BY FS_Subset DEF TreeInv, IsTree, Children, ChildrenIn
    <3>2. \A s \in Children(p) : s \in Seq(Names)
      BY PathIsNames DEF Children, ChildrenIn, TreeInv, IsTree
    <3>3. todo \in Seq(E) /\ todo # <<>> BY <1>2 DEF todo
    <3> DEFINE C == Children(p)
    <3>5. IsFiniteSet(C) /\ C \subseteq Seq(Names) /\ names \in SetToSeqs(C) BY <3>1, <3>2
    <3> HIDE DEF C
    <3>6. /\ \A i \in DOMAIN todo : Listed(todo, names)[i].at = todo[i].at
          /\ \A i \in DOMAIN Listed(todo, names) : i \in DOMAIN todo \/ Listed(todo, names)[i].at \in C
      BY <3>3, <3>5, ListedIs, ZenonT(60)
    <3> QED BY <3>6 DEF C
  <2>3. \A s \in Children(p) : s \in Path /\ Below(s, reach[c])
    <3> SUFFICES ASSUME NEW s \in Children(p) PROVE s \in Path /\ Below(s, reach[c]) OBVIOUS
    <3> HIDE DEF p
    <3>1. s \in Path /\ s # Root /\ Parent(s) = p BY DEF Children, ChildrenIn, TreeInv, IsTree
    <3>2. p \in Path /\ IsPrefix(p, s) BY <3>1, PathParent
    <3>3. Below(p, reach[c]) BY <1>2, <3>2, NowhereIsNone
    <3> QED BY <1>3, <3>1, <3>2, <3>3, PathOrder DEF Below
  <2>4. job' = [job EXCEPT ![c] = j] /\ pc' = [pc EXCEPT ![c] = "remove"]
    BY <1>1, <1>4, <2>1 DEF TreeInv
  <2> HIDE DEF new
  <2>5. j.todo = new /\ j.at = job[c].at /\ j.dir = job[c].dir /\ j.more = job[c].more
    BY <1>1 DEF JobOK, NoJob
  <2> HIDE DEF j
  <2>6. WorksIn(tree', reach[c], "remove", req[c], j)
    <3>1. \A i \in DOMAIN todo : todo[i].at = Nowhere \/ (todo[i].at \in Path /\ Below(todo[i].at, reach[c]))
      BY <1>3 DEF WorksIn
    <3>2. \A i \in DOMAIN new : new[i].at = Nowhere \/ (new[i].at \in Path /\ Below(new[i].at, reach[c]))
      BY <2>2, <2>3, <3>1
    <3> QED BY <1>3, <2>5, <3>2 DEF WorksIn, InHand
  <2>7. job'[c] = j /\ \A d \in Client \ {c} : job'[d] = job[d] BY <2>4 DEF TreeInv
  <2> QED BY <1>1, <1>4, <2>4, <2>6, <2>7, ReachStepOf
<1>5. CASE /\ tree' = IF removed THEN Without(tree, p) ELSE tree
           /\ job' = [d \in Client |->
                IF d = c THEN [job[c] EXCEPT !.todo = Front(@)]
                ELSE IF removed THEN Follows(job[d], Nowhere, p) ELSE job[d]]
           /\ IF Len(todo) > 1 THEN UNCHANGED pc ELSE \E s : Answer(c, s)
  <2> DEFINE j == [job[c] EXCEPT !.todo = Front(todo)]
             l == IF Len(todo) > 1 THEN "remove" ELSE "answered"
  <2>1. pc' = [pc EXCEPT ![c] = l]
    <3>1. CASE Len(todo) > 1 BY <1>1, <1>5, <3>1 DEF TreeInv
    <3>2. CASE ~(Len(todo) > 1) BY <1>5, <3>2 DEF Answer, AnswerWith, Goto
    <3> QED BY <3>1, <3>2
  <2>2. j.todo = Front(todo) /\ j.at = job[c].at /\ j.dir = job[c].dir /\ j.more = job[c].more
    BY <1>1 DEF JobOK, NoJob
  <2>3. ASSUME NEW u PROVE WorksIn(u, reach[c], l, req[c], j)
    <3> DEFINE t == Front(todo)
    <3>1. \A i \in DOMAIN todo : todo[i].at = Nowhere \/ (todo[i].at \in Path /\ Below(todo[i].at, reach[c]))
      BY <1>3 DEF WorksIn
    <3>2. \A i \in DOMAIN t : i \in DOMAIN todo /\ t[i] = todo[i]
      <4> HIDE DEF todo, E
      <4> QED BY <1>2, FrontIs
    <3>3. \A i \in DOMAIN t : t[i].at = Nowhere \/ (t[i].at \in Path /\ Below(t[i].at, reach[c]))
      BY <3>1, <3>2
    <3> HIDE DEF t, j
    <3>4. j.todo = t BY <2>2 DEF t
    <3>5. l \in {"remove", "answered"} OBVIOUS
    <3> HIDE DEF l
    <3> QED BY <1>3, <2>2, <3>3, <3>4, <3>5 DEF WorksIn, InHand, AtOp
  <2>4. l # "idle" OBVIOUS
  <2>5. CASE removed
    <3>1. p \in DOMAIN tree /\ tree' = Without(tree, p) /\ p \in Path
      BY <1>5, <2>5 DEF IsFile, IsDir, TreeInv, IsTree
    <3>2. job' = [d \in Client |-> IF d = c THEN j ELSE Follows(job[d], Nowhere, p)]
      BY <1>5, <2>5
    <3> HIDE DEF j, l, p
    <3>3. \A s \in DOMAIN tree' : s \in DOMAIN tree /\ tree'[s] = tree[s]
      BY <3>1 DEF Without
    <3>4. Displaces(c, j, Nowhere, p) BY <1>1, <3>2, <3>3 DEF Displaces, Removes
    <3>5. WorksIn(tree', reach'[c], l, req[c], j) BY <1>1, <2>3
    <3> QED BY <1>1, <2>1, <2>4, <3>1, <3>4, <3>5, MovingReach
  <2>6. CASE ~removed
    <3>1. tree' = tree /\ job'[c] = j /\ \A d \in Client \ {c} : job'[d] = job[d] BY <1>5, <2>6
    <3> HIDE DEF j, l, p, removed
    <3>2. WorksIn(tree', reach[c], l, req[c], job'[c]) BY <2>3, <3>1
    <3> QED BY <1>1, <2>1, <2>4, <3>1, <3>2, ReachStepOf
  <2> QED BY <2>5, <2>6
<1>6. CASE MustList(Last(todo))
  <2>1. Children(p) # {} BY <1>6 DEF MustList
  <2> QED BY <1>4, <1>6, <2>1 DEF RemoveEntry, Listed
<1>7. CASE ~MustList(Last(todo)) BY <1>5, <1>7 DEF RemoveEntry
<1> QED BY <1>6, <1>7

-------------------------------------------------------------------------------
(* A request comes, and it goes *)

\* where a request starts
Starts(r, l, j) ==
  /\ r.op \in {"write", "upload", "mkdir", "delete", "patch", "copy", "move"} \cup Reads
  /\ r.op \in {"write", "upload"} => /\ l = "make" /\ r.files \in Seq(Path) /\ r.files # <<>>
                                     /\ j.at = r.files[1] /\ j.more = Tail(r.files)
  /\ r.op = "patch" => /\ l = IF r.old # <<>> THEN "read" ELSE "make"
                       /\ j.at = r.path /\ j.more = <<>>
  /\ r.op \in {"copy", "move"} => /\ l = IF r.op = "copy" THEN "source" ELSE "make"
                                  /\ j.at = r.to /\ j.more = <<>>
  /\ r.op \in {"write", "upload", "patch", "copy", "move"} =>
       j.dir = Parent(j.at) /\ j.depth = Len(j.dir) /\ j.buf = r.text
  /\ r.op = "mkdir" => l = "make" /\ j.dir = r.path /\ j.depth = Len(j.dir)
  /\ r.op = "delete" => l = "remove" /\ j.todo = <<[at |-> r.path, listed |-> FALSE]>>
  /\ r.op \in {"read", "download", "view"} => l = "source"
  /\ r.op \in {"list", "search", "stat", "chmod"} => l = r.op
  /\ r.op \in Reads => j = NoJob

Rivals(N) == {d \in Client : Meet(reach[d], N)}
Busy(N) == {d \in Rivals(N) \cap Active : req[d].op \notin Reads}

Accepted(c, r) ==
  /\ pc[c] = "idle" /\ Asked(r) /\ Named(r) \subseteq Path
  /\ UNCHANGED <<tree, data, answer>> /\ req' = [req EXCEPT ![c] = r] /\ req'[c] = r
  /\ reach' = [reach EXCEPT ![c] = Named(r)] /\ reach'[c] = Named(r)
  /\ same' = [same EXCEPT ![c] = IF r.op \in {"list", "search"} THEN DOMAIN tree ELSE {}]
  /\ base' = [d \in Client |-> base'[d]]
  /\ base'[c] = IF Busy(Named(r)) = {} THEN View ELSE NoView
  /\ \A d \in Client \ {c} :
       /\ base'[d] = IF d \in Rivals(Named(r)) /\ r.op \notin Reads THEN NoView ELSE base[d]
       /\ pc'[d] = pc[d] /\ job'[d] = job[d] /\ req'[d] = req[d] /\ reach'[d] = reach[d]
  /\ Starts(r, pc'[c], job'[c])

LEMMA AcceptIs ==
  ASSUME TreeInv, ReachInv, NEW c \in Client, NEW q \in Requests, NEW r, r = Resolved(q), Accept(c, q)
  PROVE  Accepted(c, r)
<1>1. /\ pc[c] = "idle" /\ UNCHANGED <<tree, data, answer>> /\ req' = [req EXCEPT ![c] = r]
      /\ reach' = [reach EXCEPT ![c] = Named(r)]
      /\ same' = [same EXCEPT ![c] = IF r.op \in {"list", "search"} THEN DOMAIN tree ELSE {}]
      /\ base' = [d \in Client |-> IF d = c THEN IF Busy(Named(r)) = {} THEN View ELSE NoView
                   ELSE IF d \in Rivals(Named(r)) /\ r.op \notin Reads THEN NoView ELSE base[d]]
  BY DEF Accept, Busy, Rivals
<1>2. Asked(r) BY DEF Asked
<1>3. Named(r) \subseteq Path BY <1>2, NamedInPath
<1>4. \A d \in Client \ {c} : pc'[d] = pc[d] /\ job'[d] = job[d]
  <2>1. \E l, j : pc' = [pc EXCEPT ![c] = l] /\ job' = [job EXCEPT ![c] = j]
    BY Zenon DEF Accept, Goto
  <2> QED BY <2>1 DEF TreeInv
<1>5. Starts(r, pc'[c], job'[c])
  <2> DEFINE l == pc'[c]  j == job'[c]
  <2>1. /\ r.op \in {"write", "upload", "mkdir", "delete", "patch", "copy", "move"} \cup Reads
        /\ r.text \in Seq(Blocks) /\ r.path \in Path /\ r.to \in Path
        /\ r.op \in {"write", "upload"} => r.files \in Seq(Path) \ {<<>>}
    BY RequestOK
  <2>2. /\ job' = [job EXCEPT ![c] =
             CASE r.op \in {"write", "upload"} -> [Target(r, r.files[1]) EXCEPT !.more = Tail(r.files)]
               [] r.op = "mkdir" -> [NoJob EXCEPT !.dir = r.path, !.depth = Len(r.path)]
               [] r.op = "delete" -> [NoJob EXCEPT !.todo = <<[at |-> r.path, listed |-> FALSE]>>]
               [] r.op = "patch" -> Target(r, r.path)
               [] r.op \in {"copy", "move"} -> Target(r, r.to)
               [] r.op \in Reads -> NoJob]
        /\ pc' = [pc EXCEPT ![c] =
             CASE r.op \in {"copy", "read", "download", "view"} -> "source"
               [] r.op = "delete" -> "remove"
               [] r.op = "patch" /\ r.old # <<>> -> "read"
               [] r.op \in {"list", "search", "stat", "chmod"} -> r.op
               [] OTHER -> "make"]
    BY DEF Accept, Goto
  <2>3. ASSUME r.op \in {"write", "upload"}
        PROVE  /\ l = "make" /\ j.at = r.files[1] /\ j.more = Tail(r.files)
               /\ j.dir = Parent(j.at) /\ j.depth = Len(j.dir) /\ j.buf = r.text
    BY <2>2, <2>3 DEF Target, NoJob, Reads, TreeInv
  <2>4. ASSUME r.op = "patch"
        PROVE  /\ l = (IF r.old # <<>> THEN "read" ELSE "make") /\ j.at = r.path /\ j.more = <<>>
               /\ j.dir = Parent(j.at) /\ j.depth = Len(j.dir) /\ j.buf = r.text
    BY <2>2, <2>4 DEF Target, NoJob, Reads, TreeInv
  <2>5. ASSUME r.op \in {"copy", "move"}
        PROVE  /\ l = (IF r.op = "copy" THEN "source" ELSE "make") /\ j.at = r.to /\ j.more = <<>>
               /\ j.dir = Parent(j.at) /\ j.depth = Len(j.dir) /\ j.buf = r.text
    BY <2>2, <2>5 DEF Target, NoJob, Reads, TreeInv
  <2>6. r.op = "mkdir" => l = "make" /\ j.dir = r.path /\ j.depth = Len(j.dir)
    BY <2>2 DEF NoJob, Reads, TreeInv
  <2>7. r.op = "delete" => l = "remove" /\ j.todo = <<[at |-> r.path, listed |-> FALSE]>>
    <3> DEFINE todo == <<[at |-> r.path, listed |-> FALSE]>>
    <3>1. r.op = "delete" => l = "remove" /\ j = [NoJob EXCEPT !.todo = todo] BY <2>2 DEF Reads, TreeInv
    <3> HIDE DEF todo, j, l
    <3>2. r.op = "delete" => l = "remove" /\ j.todo = todo BY <3>1 DEF NoJob
    <3> QED BY <3>2 DEF todo, j, l
  <2>8. r.op \in {"read", "download", "view"} => l = "source" BY <2>2 DEF TreeInv
  <2>9. r.op \in {"list", "search", "stat", "chmod"} => l = r.op BY <2>2 DEF TreeInv
  <2>10. r.op \in Reads => j = NoJob BY <2>2 DEF Reads, TreeInv
  <2> HIDE DEF l, j
  <2>11. Starts(r, l, j) BY <2>1, <2>3, <2>4, <2>5, <2>6, <2>7, <2>8, <2>9, <2>10 DEF Starts
  <2> QED BY <2>11 DEF l, j
<1>6. /\ base' = [d \in Client |-> base'[d]]
      /\ base'[c] = IF Busy(Named(r)) = {} THEN View ELSE NoView
      /\ \A d \in Client \ {c} :
           base'[d] = IF d \in Rivals(Named(r)) /\ r.op \notin Reads THEN NoView ELSE base[d]
  BY <1>1
<1>7. /\ req'[c] = r /\ reach'[c] = Named(r)
      /\ \A d \in Client \ {c} : req'[d] = req[d] /\ reach'[d] = reach[d]
  BY <1>1 DEF TreeInv, ReachInv
<1> QED BY <1>1, <1>2, <1>3, <1>4, <1>5, <1>6, <1>7 DEF Accepted

LEMMA StartsInReach ==
  ASSUME NEW t, NEW r, NEW l, NEW j, Starts(r, l, j), r.path \in Path, Named(r) \subseteq Path
  PROVE  WorksIn(t, Named(r), l, r, j)
<1>1. AtOp(l, r) BY DEF Starts, AtOp, Reads
<1>2. InHand(r, j)
  <2>1. CASE r.op \in {"write", "upload"}
    <3> DEFINE f == r.files
    <3>1. f \in Seq(Path) /\ f # <<>> /\ j.at = f[1] /\ j.more = Tail(f) /\ j.dir = Parent(j.at)
      BY <2>1 DEF Starts
    <3>2. Named(r) = Range(f) BY <2>1 DEF Named
    <3> HIDE DEF f
    <3>3. /\ Len(f) \in Nat \ {0} /\ DOMAIN f = 1 .. Len(f) /\ DOMAIN Tail(f) = 1 .. Len(f) - 1
          /\ \A i \in 1 .. Len(f) - 1 : Tail(f)[i] = f[i + 1]
      <4>1. Len(f) \in Nat \ {0} /\ DOMAIN f = 1 .. Len(f) BY <3>1, EmptySeq, LenProperties
      <4>2. /\ Tail(f) \in Seq(Path) /\ Len(Tail(f)) = Len(f) - 1
            /\ \A i \in 1 .. Len(Tail(f)) : Tail(f)[i] = f[i + 1]
        BY <3>1, HeadTailProperties
      <4> QED BY <4>1, <4>2, LenProperties
    <3>4. 1 \in DOMAIN f /\ \A i \in 1 .. Len(f) - 1 : i + 1 \in DOMAIN f BY <3>3
    <3>5. \A i \in DOMAIN f : f[i] \in Range(f) BY DEF Range
    <3> QED BY <2>1, <3>1, <3>2, <3>3, <3>4, <3>5 DEF InHand
  <2>2. CASE r.op \in {"patch", "copy", "move"}
    <3>1. DOMAIN <<>> = {} OBVIOUS
    <3>2. j.more = <<>> /\ j.at \in Named(r) /\ j.dir = Parent(j.at) BY <2>2 DEF Starts, Named
    <3> QED BY <2>2, <3>1, <3>2 DEF InHand
  <2>3. CASE r.op \notin {"write", "upload", "patch", "copy", "move"}
    BY <2>3 DEF InHand, Starts
  <2> QED BY <2>1, <2>2, <2>3
<1>3. l # "fill" BY DEF Starts, Reads
<1>4. ASSUME l = "remove", NEW i \in DOMAIN j.todo
      PROVE  j.todo[i].at \in Path /\ Below(j.todo[i].at, Named(r))
  <2>1. r.op = "delete" BY <1>4 DEF Starts, Reads
  <2> DEFINE e == [at |-> r.path, listed |-> FALSE]
  <2>2. j.todo = <<e>> BY <2>1 DEF Starts
  <2>3. e.at = r.path OBVIOUS
  <2> HIDE DEF e
  <2>4. j.todo[i] = e BY <1>4, <2>2
  <2>5. Named(r) = {r.path} BY <2>1 DEF Named
  <2> QED BY <2>3, <2>4, <2>5, PathOrder DEF Below
<1> QED BY <1>1, <1>2, <1>3, <1>4 DEF WorksIn

LEMMA AcceptReach ==
  ASSUME TreeInv, ReachInv, NEW c \in Client, NEW q \in Requests, Accept(c, q)
  PROVE  ReachInv'
<1> DEFINE r == Resolved(q)  N == Named(r)
<1>1. Accepted(c, r) BY AcceptIs
<1> HIDE DEF r
<1> USE DEF Accepted
<1>2. r.path \in Path BY <1>1, AskedOK
<1>3. ASSUME NEW d \in Client PROVE WorksIn(tree', reach'[d], pc'[d], req'[d], job'[d])
  <2>1. CASE d = c BY <1>1, <1>2, <2>1, StartsInReach
  <2>2. CASE d # c BY <1>1, <2>2 DEF ReachInv
  <2> QED BY <2>1, <2>2
<1>4. ASSUME NEW d \in Client, pc'[d] = "idle" PROVE base'[d] = NoView
  <2>1. pc'[c] # "idle" BY <1>1 DEF Starts, Reads
  <2> QED BY <1>1, <1>4, <2>1 DEF ReachInv
<1>5. ASSUME NEW x \in Client, NEW y \in Client, x # y, base'[x] # NoView,
             y \in Active', req'[y].op \notin Reads
      PROVE  ~Meet(reach'[x], reach'[y])
  <2>1. CASE x = c
    <3>1. y \notin Rivals(N) BY <1>1, <1>5, <2>1 DEF Busy, Active
    <3> QED BY <1>1, <1>5, <2>1, <3>1, MeetIsSymmetric DEF Rivals
  <2>2. CASE y = c
    <3>1. x \notin Rivals(N) BY <1>1, <1>5, <2>2
    <3> QED BY <1>1, <1>5, <2>2, <3>1 DEF Rivals
  <2>3. CASE x # c /\ y # c
    <3>1. base[x] # NoView /\ y \in Active /\ req[y].op \notin Reads BY <1>1, <1>5, <2>3 DEF Active
    <3> QED BY <1>1, <1>5, <2>3, <3>1 DEF ReachInv
  <2> QED BY <2>1, <2>2, <2>3
<1>6. reach' = [d \in Client |-> reach'[d]] BY <1>1 DEF ReachInv
<1> QED BY <1>1, <1>3, <1>4, <1>5, <1>6 DEF ReachInv

LEMMA ReturnReach ==
  ASSUME TreeInv, ReachInv, NEW c \in Client, Return(c)
  PROVE  ReachInv'
<1>1. /\ pc[c] = "answered" /\ pc' = [pc EXCEPT ![c] = "idle"] /\ req' = [req EXCEPT ![c] = NoReq]
      /\ base' = [base EXCEPT ![c] = NoView] /\ reach' = [reach EXCEPT ![c] = {}]
      /\ tree' = tree /\ job' = job
  BY DEF Return, Goto
<1>2. /\ pc'[c] = "idle" /\ base'[c] = NoView /\ reach'[c] = {}
      /\ \A d \in Client \ {c} : /\ pc'[d] = pc[d] /\ req'[d] = req[d] /\ base'[d] = base[d]
                                 /\ reach'[d] = reach[d]
  BY <1>1 DEF TreeInv, ReachInv
<1>3. ASSUME NEW d \in Client PROVE WorksIn(tree', reach'[d], pc'[d], req'[d], job'[d])
  <2>1. CASE d = c BY <1>2, <2>1 DEF WorksIn, AtOp
  <2>2. CASE d # c BY <1>1, <1>2, <2>2 DEF ReachInv
  <2> QED BY <2>1, <2>2
<1>4. \A d \in Client : pc'[d] = "idle" => base'[d] = NoView BY <1>2 DEF ReachInv
<1>5. ASSUME NEW x \in Client, NEW y \in Client, x # y, base'[x] # NoView,
             y \in Active', req'[y].op \notin Reads
      PROVE  ~Meet(reach'[x], reach'[y])
  <2>1. x # c /\ y # c BY <1>2, <1>5 DEF Active
  <2> QED BY <1>2, <1>5, <2>1 DEF ReachInv, Active
<1>6. reach' = [d \in Client |-> reach'[d]] /\ base' = [d \in Client |-> base'[d]]
  BY <1>1 DEF ReachInv
<1> QED BY <1>3, <1>4, <1>5, <1>6 DEF ReachInv

LEMMA ReachInit == Init => ReachInv
<1> SUFFICES ASSUME Init PROVE ReachInv OBVIOUS
<1>1. \A c \in Client : /\ pc[c] = "idle" /\ base[c] = NoView /\ reach[c] = {}
  BY DEF Init
<1>2. \A c \in Client : WorksIn(tree, reach[c], pc[c], req[c], job[c])
  BY <1>1 DEF WorksIn, AtOp
<1>3. base = [c \in Client |-> base[c]] /\ reach = [c \in Client |-> reach[c]] BY DEF Init
<1> QED BY <1>1, <1>2, <1>3 DEF ReachInv

LEMMA ReachNext == TreeInv /\ ReachInv /\ [Next]_vars => ReachInv'
<1> SUFFICES ASSUME TreeInv, ReachInv, [Next]_vars PROVE ReachInv' OBVIOUS
<1>1. CASE UNCHANGED vars BY <1>1 DEF vars, ReachInv, WorksIn, Active
<1>2. ASSUME NEW c \in Client, Step(c) PROVE ReachInv'
  <2>1. CASE Stat(c) \/ Mkdir(c) \/ Open(c) \/ Fill(c)
    BY <2>1, StatReach, MkdirReach, OpenReach, FillReach
  <2>2. CASE \/ OpenSource(c) \/ ReadOld(c) \/ Lstat(c) \/ RefuseRoot(c)
             \/ StatPath(c) \/ Chmod(c) \/ Measure(c) \/ Send(c)
    BY <2>2, ReadReach
  <2>3. CASE Rename(c) \/ RemoveEntry(c) BY <2>3, RenameReach, RemoveReach
  <2>4. CASE ReadDir(c) \/ Info(c) \/ Walk(c) \/ Visit(c) BY <2>4, WalkReach
  <2> QED BY <1>2, <2>1, <2>2, <2>3, <2>4 DEF Step
<1>3. ASSUME NEW c \in Client, Return(c) PROVE ReachInv' BY <1>3, ReturnReach
<1>4. ASSUME NEW c \in Client, NEW q \in Requests, Accept(c, q) PROVE ReachInv' BY <1>4, AcceptReach
<1> QED BY <1>1, <1>2, <1>3, <1>4 DEF Next

LEMMA ReachCorrect == Spec => []ReachInv
<1>1. Spec => []TreeInv BY TreeCorrect
<1>2. Init => ReachInv BY ReachInit
<1>3. TreeInv /\ ReachInv /\ [Next]_vars => ReachInv' BY ReachNext
<1> QED BY <1>1, <1>2, <1>3, PTL DEF Spec

-------------------------------------------------------------------------------
(* A step of somebody else *)

\* what a request with the names N still has of the tree, and of what it watches
Keeps(v, t, s, w, u, z, N) ==
  /\ Sees(w, v, N)
  /\ \A p \in Path : Below(p, N) => (p \in DOMAIN u <=> p \in DOMAIN t) /\ (p \in DOMAIN t => u[p] = t[p])
  /\ \A p \in Path : Below(p, N) /\ p \in s /\ p \in DOMAIN w => p \in z

\* the stack of a request is as it was, if it matters
SameJob(l, r, j, k) ==
  /\ k.at = j.at /\ k.dir = j.dir /\ k.depth = j.depth /\ k.fd = j.fd /\ k.src = j.src
  /\ k.buf = j.buf /\ k.more = j.more /\ k.found = j.found
  /\ l \in {"info", "visit"} => k.todo = j.todo
  /\ r.op = "delete" /\ l # "answered" =>
                        /\ DOMAIN k.todo = DOMAIN j.todo
                        /\ \A i \in DOMAIN j.todo : /\ k.todo[i].at = j.todo[i].at
                                                    /\ k.todo[i].listed = j.todo[i].listed

LEMMA SeesWithout ==
  ASSUME NEW v, NEW w, NEW N, Sees(w, v, N), NEW p
  PROVE  Sees(Without(w, p), Without(v, p), N)
BY DEF Sees, Without, Within

LEMMA MakingKept ==
  ASSUME NEW v, NEW b, NEW w, NEW N, N \subseteq Path, Sees(w, v, N), NEW l, NEW j, NEW k, JobOK(j),
         l = "make" => OnTheWay(j.dir, N),
         k.dir = j.dir, k.depth = j.depth, Making(v, b, l, j, N)
  PROVE  Making(w, b, l, k, N)
<1>1. l = "make" => Sees(w, b, N) BY SeesThrough DEF Making
<1>2. ASSUME l = "make", NEW n \in j.depth + 1 .. Len(j.dir), SubSeq(j.dir, 1, n) \in DOMAIN w
      PROVE  w[SubSeq(j.dir, 1, n)].dir
  <2> DEFINE p == SubSeq(j.dir, 1, n)
  <2>1. j.dir \in Path /\ j.depth \in Nat BY DEF JobOK
  <2>2. j.dir \in Seq(Name) BY <2>1, FsAssumption
  <2>3. n \in 0 .. Len(j.dir) BY <1>2, <2>1, <2>2, LenProperties
  <2>4. p \in Path /\ IsPrefix(p, j.dir) BY <2>1, <2>2, <2>3, FirstNames, FsAssumption
  <2>5. p \in DOMAIN v => v[p].dir BY <1>2 DEF Making
  <2> HIDE DEF p
  <2>6. OnTheWay(p, N) BY <1>2, <2>1, <2>4, PathOrder DEF OnTheWay
  <2>7. w[p].dir BY <1>2, <2>4, <2>5, <2>6 DEF Sees, p
  <2> QED BY <2>7 DEF p
<1>3. l = "mkdir" => Sees(w, WithDirs(b, SubSeq(j.dir, 1, j.depth)), N) /\ ~Blocked(b, j.dir)
  BY SeesThrough DEF Making
<1>4. l \in {"open", "lstat", "rename"} => Sees(w, WithDirs(b, j.dir), N) /\ ~Blocked(b, j.dir)
  BY SeesThrough DEF Making
<1> QED BY <1>1, <1>2, <1>3, <1>4 DEF Making

LEMMA WritingKept ==
  ASSUME NEW v, NEW t, NEW s, NEW w, NEW u, NEW z, NEW N, N \subseteq Path, Keeps(v, t, s, w, u, z, N),
         NEW b, NEW l, NEW r, NEW j, NEW k, JobOK(j), SameJob(l, r, j, k),
         j.at \in N, j.dir = Parent(j.at), Writing(v, t, b, l, j, N)
  PROVE  Writing(w, u, b, l, k, N)
<1>1. j.at \in Path /\ j.dir \in Path BY DEF JobOK
<1>2. OnTheWay(j.dir, N) BY <1>1, PathParent, PathOrder DEF OnTheWay
<1>3. Making(w, b, l, k, N) BY <1>2, MakingKept DEF Writing, Keeps, SameJob
<1>4. l = "fill" => j.at \in DOMAIN u /\ u[j.at] = j.fd
  BY <1>1, PathOrder DEF Writing, Keeps, Below
<1>5. l = "fill" => Sees(w, With(WithDirs(b, j.dir), j.at, File(<<>>)), N)
  BY SeesThrough DEF Writing, Keeps
<1> QED BY <1>3, <1>4, <1>5 DEF Writing, SameJob

LEMMA DeletingKept ==
  ASSUME NEW v, NEW w, NEW N, N \subseteq Path, Sees(w, v, N), IsView(v), IsView(w),
         NEW b, NEW r, r.op = "delete", N = Named(r), NEW j, NEW k, NEW l, l # "answered", SameJob(l, r, j, k),
         Deleting(v, b, r, j.todo), 1 \in DOMAIN j.todo
  PROVE  Deleting(w, b, r, k.todo)
<1>1. N = {r.path} BY DEF Named
<1>2. k.todo[1].at = r.path BY DEF SameJob, Deleting
<1>3. r.path = Root => Sees(w, b, N) BY SeesThrough DEF Deleting
<1>4. Sees(Without(w, r.path), Without(b, r.path), N) BY SeesWithout, SeesThrough DEF Deleting
<1>5. ASSUME NEW i \in DOMAIN k.todo
      PROVE  /\ k.todo[i].at \in Path /\ IsPrefix(r.path, k.todo[i].at)
             /\ k.todo[i].listed =>
                  /\ k.todo[i].at \in DOMAIN w => w[k.todo[i].at].dir
                  /\ \A p \in ChildrenIn(w, k.todo[i].at) :
                       \E n \in DOMAIN k.todo : i < n /\ k.todo[n].at = p
  <2> DEFINE a == k.todo[i].at
  <2>1. i \in DOMAIN j.todo /\ a = j.todo[i].at /\ k.todo[i].listed = j.todo[i].listed
    BY DEF SameJob
  <2>2. a \in Path /\ IsPrefix(r.path, a) BY <2>1 DEF Deleting
  <2>3. r.path \in Path BY <1>1
  <2>4. ASSUME k.todo[i].listed
        PROVE  /\ a \in DOMAIN v => v[a].dir
               /\ \A p \in ChildrenIn(v, a) : \E n \in DOMAIN k.todo : i < n /\ k.todo[n].at = p
    <3>1. /\ a \in DOMAIN v => v[a].dir
          /\ \A p \in ChildrenIn(v, a) : \E n \in DOMAIN j.todo : i < n /\ j.todo[n].at = p
      BY <2>1, <2>4 DEF Deleting
    <3>2. \A n \in DOMAIN j.todo : n \in DOMAIN k.todo /\ k.todo[n].at = j.todo[n].at BY DEF SameJob
    <3> HIDE DEF a
    <3> QED BY <3>1, <3>2
  <2> HIDE DEF a
  <2>5. k.todo[i].listed => (a \in DOMAIN w => w[a].dir)
    BY <1>1, <2>2, <2>4 DEF Sees, Below
  <2>6. \A p \in ChildrenIn(w, a) : p \in ChildrenIn(v, a)
    <3> SUFFICES ASSUME NEW p \in ChildrenIn(w, a) PROVE p \in ChildrenIn(v, a) OBVIOUS
    <3>1. p \in DOMAIN w /\ p \in Path /\ p # Root /\ Parent(p) = a BY DEF ChildrenIn, IsView
    <3>2. IsPrefix(a, p) BY <3>1, PathParent
    <3>3. IsPrefix(r.path, p) BY <2>2, <2>3, <3>1, <3>2, PathOrder
    <3> QED BY <1>1, <3>1, <3>3 DEF Sees, Below, ChildrenIn
  <2> QED BY <2>2, <2>4, <2>5, <2>6 DEF a
<1> QED BY <1>2, <1>3, <1>4, <1>5 DEF Deleting

LEMMA PromiseKept ==
  ASSUME NEW v, NEW t, NEW s, NEW w, NEW u, NEW z, NEW b, NEW l, NEW r, NEW j, NEW k, NEW a,
         Named(r) \subseteq Path, Keeps(v, t, s, w, u, z, Named(r)), IsView(v), IsView(w),
         JobOK(j), SameJob(l, r, j, k), l # "answered" => InHand(r, j),
         l = "remove" => 1 \in DOMAIN j.todo, PromiseOK(v, t, s, b, l, r, j, a)
  PROVE  PromiseOK(w, u, z, b, l, r, k, a)
<1> DEFINE N == Named(r)
<1>1. Sees(w, v, N) BY DEF Keeps
<1>2. r.op \notin {"write", "upload"} => r.path \in N BY DEF Named
<1>3. Whole(b) BY DEF PromiseOK
<1>4. l = "answered" => Kept(w, b, r, a)
  <2> DEFINE x == Promise(b, r)
  <2>1. l = "answered" => Sees(v, x.view, N) BY DEF PromiseOK, Kept
  <2>2. l = "answered" => Sees(w, x.view, N)
    <3> HIDE DEF x
    <3> QED BY <1>1, <2>1, SeesThrough
  <2>3. l = "answered" => Kept(v, b, r, a) BY DEF PromiseOK
  <2> HIDE DEF x
  <2> QED BY <2>2, <2>3 DEF Kept, x
<1>5. ASSUME r.op \in {"write", "upload"}, l # "answered"
      PROVE  \E n \in 1 .. Len(r.files) : Uploading(w, u, b, l, r, k, n)
  <2>1. PICK n \in 1 .. Len(r.files) : Uploading(v, t, b, l, r, j, n) BY <1>5 DEF PromiseOK
  <2>2. j.at \in N /\ j.dir = Parent(j.at) BY <1>5 DEF InHand
  <2>3. Writing(v, t, WithFiles(b, r.files, n - 1, r.text), l, j, N) BY <2>1 DEF Uploading
  <2>4. Writing(w, u, WithFiles(b, r.files, n - 1, r.text), l, k, N) BY <2>2, <2>3, WritingKept
  <2>5. k.at = j.at /\ k.more = j.more /\ k.buf = j.buf BY DEF SameJob
  <2>6. Uploading(w, u, b, l, r, k, n) BY <2>1, <2>4, <2>5 DEF Uploading
  <2> QED BY <2>6
<1>6. r.op \in {"mkdir", "move"} => Making(w, b, l, k, N)
  <2> SUFFICES ASSUME r.op \in {"mkdir", "move"} PROVE Making(w, b, l, k, N) OBVIOUS
  <2>1. Making(v, b, l, j, N) BY DEF PromiseOK
  <2>2. l = "make" => OnTheWay(j.dir, N)
    <3> SUFFICES ASSUME l = "make" PROVE OnTheWay(j.dir, N) OBVIOUS
    <3>1. j.at \in Path /\ j.dir \in Path BY DEF JobOK
    <3>2. CASE r.op = "mkdir"
      <4>1. j.dir \in N BY <3>2 DEF InHand, Named
      <4> QED BY <3>1, <4>1, PathOrder DEF OnTheWay
    <3>3. CASE r.op = "move"
      <4>1. j.at \in N /\ j.dir = Parent(j.at) BY <3>3 DEF InHand
      <4> QED BY <3>1, <4>1, PathParent, PathOrder DEF OnTheWay
    <3> QED BY <3>2, <3>3
  <2>3. k.dir = j.dir /\ k.depth = j.depth BY DEF SameJob
  <2> QED BY <1>1, <2>1, <2>2, <2>3, MakingKept
<1>7. r.op = "move" /\ l # "answered" =>
        k.at = r.to /\ (l = "rename" => ~(r.to \in DOMAIN w /\ w[r.to].dir))
  <2> SUFFICES ASSUME r.op = "move", l # "answered"
               PROVE  k.at = r.to /\ (l = "rename" => ~(r.to \in DOMAIN w /\ w[r.to].dir))
    OBVIOUS
  <2>1. j.at = r.to /\ (l = "rename" => ~(r.to \in DOMAIN v /\ v[r.to].dir)) BY DEF PromiseOK
  <2>2. r.to \in N BY DEF Named
  <2>3. r.to \in Path /\ Below(r.to, N) BY <2>2, PathOrder DEF Below
  <2> QED BY <1>1, <2>1, <2>3 DEF Sees, SameJob
<1>8. r.op = "patch" /\ l # "answered" =>
        /\ k.at = r.path /\ k.more = <<>>
        /\ l = "read" => Sees(w, b, N)
        /\ l # "read" => Writing(w, u, b, l, k, N) /\ Promise(b, r) = Put(b, r.path, k.buf)
  <2> SUFFICES ASSUME r.op = "patch", l # "answered"
               PROVE  /\ k.at = r.path /\ k.more = <<>>
                      /\ l = "read" => Sees(w, b, N)
                      /\ l # "read" => Writing(w, u, b, l, k, N) /\ Promise(b, r) = Put(b, r.path, k.buf)
    OBVIOUS
  <2>1. /\ j.at = r.path /\ j.more = <<>>
        /\ l = "read" => Sees(v, b, N)
        /\ l # "read" => Writing(v, t, b, l, j, N) /\ Promise(b, r) = Put(b, r.path, j.buf)
    BY DEF PromiseOK
  <2>2. j.at \in N /\ j.dir = Parent(j.at) BY DEF InHand
  <2>3. l # "read" => Writing(w, u, b, l, k, N) BY <2>1, <2>2, WritingKept
  <2>4. l = "read" => Sees(w, b, N) BY <1>1, <2>1, SeesThrough
  <2> QED BY <2>1, <2>3, <2>4 DEF SameJob
<1>9. r.op = "copy" /\ l # "answered" =>
        /\ k.at = r.to /\ k.more = <<>>
        /\ l = "source" => Sees(w, b, N) /\ k.depth = Len(k.dir)
        /\ l # "source" => /\ Writing(w, u, b, l, k, N)
                           /\ r.path \in DOMAIN b /\ r.path \in DOMAIN u /\ u[r.path] = k.src
  <2> SUFFICES ASSUME r.op = "copy", l # "answered"
               PROVE  /\ k.at = r.to /\ k.more = <<>>
                      /\ l = "source" => Sees(w, b, N) /\ k.depth = Len(k.dir)
                      /\ l # "source" => /\ Writing(w, u, b, l, k, N)
                           /\ r.path \in DOMAIN b /\ r.path \in DOMAIN u /\ u[r.path] = k.src
    OBVIOUS
  <2>1. /\ j.at = r.to /\ j.more = <<>>
        /\ l = "source" => Sees(v, b, N) /\ j.depth = Len(j.dir)
        /\ l # "source" => /\ Writing(v, t, b, l, j, N)
                           /\ r.path \in DOMAIN b /\ r.path \in DOMAIN t /\ t[r.path] = j.src
    BY DEF PromiseOK
  <2>2. j.at \in N /\ j.dir = Parent(j.at) BY DEF InHand
  <2>3. l # "source" => Writing(w, u, b, l, k, N) BY <2>1, <2>2, WritingKept
  <2>4. l = "source" => Sees(w, b, N) BY <1>1, <2>1, SeesThrough
  <2>5. r.path \in Path /\ Below(r.path, N) BY <1>2, PathOrder DEF Below
  <2>6. l # "source" => r.path \in DOMAIN u /\ u[r.path] = j.src BY <2>1, <2>5 DEF Keeps
  <2> QED BY <2>1, <2>3, <2>4, <2>6 DEF SameJob
<1>10. r.op = "delete" /\ l # "answered" => l = "remove" /\ Deleting(w, b, r, k.todo)
  <2> SUFFICES ASSUME r.op = "delete", l # "answered"
               PROVE  l = "remove" /\ Deleting(w, b, r, k.todo)
    OBVIOUS
  <2>1. l = "remove" /\ Deleting(v, b, r, j.todo) BY DEF PromiseOK
  <2> QED BY <1>1, <2>1, DeletingKept
<1>11. r.op \in Reads => Sees(w, b, N)
  <2>1. r.op \in Reads => Sees(v, b, N) BY DEF PromiseOK
  <2> QED BY <1>1, <2>1, SeesThrough
<1>12. r.op \in {"read", "download", "view"} /\ l \in {"size", "send"} =>
         /\ r.path \in DOMAIN u /\ u[r.path] = k.src /\ k.src # DirIno
         /\ l = "send" /\ r.op # "read" => k.depth = Len(b[r.path].text)
  <2> SUFFICES ASSUME r.op \in {"read", "download", "view"}, l \in {"size", "send"}
               PROVE  /\ r.path \in DOMAIN u /\ u[r.path] = k.src /\ k.src # DirIno
                      /\ l = "send" /\ r.op # "read" => k.depth = Len(b[r.path].text)
    OBVIOUS
  <2>1. /\ r.path \in DOMAIN t /\ t[r.path] = j.src /\ j.src # DirIno
        /\ l = "send" /\ r.op # "read" => j.depth = Len(b[r.path].text)
    BY DEF PromiseOK
  <2>2. r.path \in Path /\ Below(r.path, N) BY <1>2, PathOrder DEF Below
  <2> QED BY <2>1, <2>2 DEF Keeps, SameJob
<1>13. r.op \in {"list", "search"} =>
         /\ \A p \in DOMAIN w : IsPrefix(r.path, p) => p \in z
         /\ l \in {"list", "search"} => k.found = {}
  <2> SUFFICES ASSUME r.op \in {"list", "search"}
               PROVE  /\ \A p \in DOMAIN w : IsPrefix(r.path, p) => p \in z
                      /\ l \in {"list", "search"} => k.found = {}
    OBVIOUS
  <2>1. /\ \A p \in DOMAIN v : IsPrefix(r.path, p) => p \in s
        /\ l \in {"list", "search"} => j.found = {}
    BY DEF PromiseOK
  <2>2. ASSUME NEW p \in DOMAIN w, IsPrefix(r.path, p) PROVE p \in z
    <3>1. p \in Path /\ Below(p, N) BY <1>2, <2>2 DEF IsView, Below
    <3>2. p \in DOMAIN v BY <1>1, <2>2, <3>1 DEF Sees
    <3> QED BY <2>1, <2>2, <3>1, <3>2 DEF Keeps
  <2> QED BY <2>1, <2>2 DEF SameJob
<1>14. r.op = "list" /\ l = "info" =>
         /\ r.path \in DOMAIN b /\ b[r.path].dir
         /\ k.found \subseteq EntriesIn(b, r.path)
         /\ \A i \in DOMAIN k.todo : k.todo[i].at \in ChildrenIn(b, r.path)
  BY DEF PromiseOK, SameJob
<1>15. r.op = "search" /\ l = "visit" =>
         /\ k.found \subseteq Hits(b, r)
         /\ \A i \in DOMAIN k.todo : LET p == k.todo[i].at IN
              IsPrefix(r.path, p) /\ p \in DOMAIN b /\ (~k.todo[i].dir => ~b[p].dir)
  BY DEF PromiseOK, SameJob
<1> QED
  BY <1>3, <1>4, <1>5, <1>6, <1>7, <1>8, <1>9, <1>10, <1>11, <1>12, <1>13, <1>14, <1>15 DEF PromiseOK

\* from where to where a step moves what somebody else is about to remove
Intrudes(R, p, q) ==
  /\ p = Nowhere \/ (p \in Path /\ Below(p, R))
  /\ q \in Path /\ Below(q, R)

LEMMA NotMoved ==
  ASSUME NEW N, NEW R, N \subseteq Path, R \subseteq Path, ~Meet(N, R),
         NEW p, NEW q, Intrudes(R, p, q), NEW s \in Path, Below(s, N)
  PROVE  Now(p, q, s) = s
<1>1. ~IsPrefix(q, s)
  <2>1. ASSUME IsPrefix(q, s) PROVE FALSE
    <3>1. Below(s, R) BY <2>1, PathOrder DEF Intrudes, Below
    <3> QED BY <3>1, Apart
  <2> QED BY <2>1
<1>2. ~IsPrefix(p, Parent(s))
  <2>1. CASE p = Nowhere BY <2>1, PathParent, NowhereIsNone
  <2>2. CASE p \in Path /\ Below(p, R)
    <3>1. ASSUME IsPrefix(p, Parent(s)) PROVE FALSE
      <4>1. IsPrefix(p, s)
        <5>1. CASE s = Root BY <3>1, <5>1, PathParent
        <5>2. CASE s # Root BY <2>2, <3>1, <5>2, PathParent, PathOrder
        <5> QED BY <5>1, <5>2
      <4>2. Below(s, R) BY <2>2, <4>1, PathOrder DEF Below
      <4> QED BY <4>2, Apart
    <3> QED BY <3>1
  <2> QED BY <2>1, <2>2 DEF Intrudes
<1> QED BY <1>1, <1>2 DEF Now

LEMMA FollowsSame ==
  ASSUME NEW v, NEW s, NEW b, NEW l, NEW r, NEW j, NEW a, NEW R, R \subseteq Path,
         Named(r) \subseteq Path, ~Meet(Named(r), R), NEW p, NEW q, Intrudes(R, p, q),
         JobOK(j), AtStep(l, r, j), ReaderOK(v, s, l, r, j, a),
         l \in {"info", "visit"} => r.op \in {"list", "search"},
         r.op = "delete" /\ l # "answered" => l = "remove" /\ Deleting(v, b, r, j.todo)
  PROVE  SameJob(l, r, j, Follows(j, p, q))
<1> DEFINE k == Follows(j, p, q)
<1>1. /\ k.at = j.at /\ k.dir = j.dir /\ k.depth = j.depth /\ k.fd = j.fd /\ k.src = j.src
      /\ k.buf = j.buf /\ k.more = j.more /\ k.found = j.found
  BY DEF Follows, JobOK, NoJob
<1>2. l \in {"info", "visit"} => k.todo = j.todo
  <2> SUFFICES ASSUME l \in {"info", "visit"} PROVE ~j.todo[1].listed
    BY DEF Follows
  <2> DEFINE E == [at : Path, listed : {FALSE}, dir : BOOLEAN]
  <2>1. j.todo \in Seq(E) /\ j.todo # <<>> BY DEF ReaderOK, Stack
  <2>2. Len(j.todo) \in Nat \ {0} BY <2>1, EmptySeq
  <2>3. 1 \in 1 .. Len(j.todo) BY <2>2
  <2>4. j.todo[1] \in E BY <2>1, <2>3, ElementOfSeq
  <2> QED BY <2>4
<1>3. ASSUME r.op = "delete", l # "answered"
      PROVE  /\ DOMAIN k.todo = DOMAIN j.todo
             /\ \A i \in DOMAIN j.todo : /\ k.todo[i].at = j.todo[i].at
                                         /\ k.todo[i].listed = j.todo[i].listed
  <2> DEFINE E == [at : Seq(Names), listed : BOOLEAN]
  <2>1. j.todo \in Seq(E) BY <1>3 DEF AtStep, Removing
  <2>2. \A i \in DOMAIN j.todo : j.todo[i] \in E BY <2>1, LenProperties, ElementOfSeq
  <2>3. \A i \in DOMAIN j.todo : Now(p, q, j.todo[i].at) = j.todo[i].at
    <3> SUFFICES ASSUME NEW i \in DOMAIN j.todo PROVE Now(p, q, j.todo[i].at) = j.todo[i].at OBVIOUS
    <3> DEFINE x == j.todo[i].at
    <3>1. x \in Path /\ IsPrefix(r.path, x) BY <1>3 DEF Deleting
    <3> HIDE DEF x
    <3>2. Below(x, Named(r)) BY <1>3, <3>1 DEF Named, Below
    <3>3. Now(p, q, x) = x BY <3>1, <3>2, NotMoved
    <3> QED BY <3>3 DEF x
  <2>4. \/ k.todo = j.todo
        \/ k.todo = [i \in DOMAIN j.todo |-> [j.todo[i] EXCEPT !.at = Now(p, q, j.todo[i].at)]]
    BY DEF Follows, JobOK, NoJob
  <2> HIDE DEF k
  <2> QED BY <2>2, <2>3, <2>4
<1> HIDE DEF k
<1>4. SameJob(l, r, j, k) BY <1>1, <1>2, <1>3 DEF SameJob
<1> QED BY <1>4 DEF k

\* what a step of c leaves to the others
Spares(c) ==
  /\ req' = req /\ base' = base /\ Watch
  /\ \A d \in Client \ {c} : pc'[d] = pc[d] /\ answer'[d] = answer[d]
  /\ \/ View' = View /\ tree' = tree /\ \A d \in Client \ {c} : job'[d] = job[d]
     \/ /\ c \in Active /\ req[c].op \notin Reads
        /\ Confined(tree, data, tree', data', reach[c])
        /\ \/ \A d \in Client \ {c} : job'[d] = job[d]
           \/ \E p, q : /\ Intrudes(reach[c], p, q)
                        /\ \A d \in Client \ {c} : job'[d] = Follows(job[d], p, q)

LEMMA OthersKeepPromise ==
  ASSUME TreeInv, TreeInv', ReachInv, ReaderInv, PromiseInv, NEW c \in Client, Spares(c),
         NEW d \in Client, d # c, base'[d] # NoView, ~CopiesOntoItself(req'[d])
  PROVE  PromiseOK(View', tree', same'[d], base'[d], pc'[d], req'[d], job'[d], answer'[d])
<1> DEFINE N == Named(req[d])  v == View  l == pc[d]  r == req[d]  j == job[d]
<1>1. PromiseOK(v, tree, same[d], base[d], l, r, j, answer[d]) BY DEF Spares, PromiseInv
<1>2. /\ base[d] # NoView /\ base' = base /\ req' = req /\ pc'[d] = l /\ answer'[d] = answer[d]
  BY DEF Spares
<1>3. JobOK(j) /\ AtStep(l, r, j) /\ N \subseteq Path BY JobOf, NamedInPath
<1>4. l # "idle" /\ N \subseteq reach[d] /\ reach[d] \subseteq Path /\ (l # "answered" => InHand(r, j))
  BY <1>2 DEF ReachInv, WorksIn
<1>5. IsView(View) /\ IsView(View')
  <2>1. IsTree(tree) /\ IsTree(tree') BY DEF TreeInv
  <2> QED BY <2>1, ViewOfTree DEF View
<1>6. l = "remove" => 1 \in DOMAIN j.todo
  <2> SUFFICES ASSUME l = "remove" PROVE 1 \in DOMAIN j.todo OBVIOUS
  <2>1. Len(j.todo) \in Nat \ {0} /\ DOMAIN j.todo = 1 .. Len(j.todo) BY TopEntry
  <2> QED BY <2>1
<1>7. same'[d] = {p \in same[d] : p \in DOMAIN View' /\ View'[p] = View[p]} BY DEF Spares, Watch
<1>8. Keeps(v, tree, same[d], View', tree', same'[d], N)
  <2>1. CASE View' = View /\ tree' = tree
    BY <1>7, <2>1, SeesItself DEF Keeps
  <2>2. CASE /\ c \in Active /\ req[c].op \notin Reads
             /\ Confined(tree, data, tree', data', reach[c])
    <3>1. ~Meet(N, reach[c]) /\ reach[c] \subseteq Path
      <4>1. ~Meet(reach[d], reach[c]) BY <1>2, <2>2 DEF ReachInv
      <4> QED BY <1>4, <4>1, InReach DEF Meet
    <3>2. /\ Sees(View', View, N)
          /\ \A s \in Path : Below(s, N) =>
               (s \in DOMAIN tree' <=> s \in DOMAIN tree) /\ (s \in DOMAIN tree => tree'[s] = tree[s])
      BY <1>3, <2>2, <3>1, Undisturbed, ViewIsOf
    <3>3. \A p \in Path : Below(p, N) /\ p \in same[d] /\ p \in DOMAIN View' => p \in same'[d]
      BY <1>7, <3>2 DEF Sees
    <3> QED BY <3>2, <3>3 DEF Keeps
  <2> QED BY <2>1, <2>2 DEF Spares
<1>9. SameJob(l, r, j, job'[d])
  <2>1. CASE job'[d] = j BY <2>1 DEF SameJob
  <2>2. CASE /\ c \in Active /\ req[c].op \notin Reads
             /\ \E p, q : Intrudes(reach[c], p, q) /\ job'[d] = Follows(job[d], p, q)
    <3>1. PICK p, q : Intrudes(reach[c], p, q) /\ job'[d] = Follows(job[d], p, q) BY <2>2
    <3>2. ~Meet(N, reach[c]) /\ reach[c] \subseteq Path
      <4>1. ~Meet(reach[d], reach[c]) BY <1>2, <2>2 DEF ReachInv
      <4> QED BY <1>4, <4>1, InReach DEF Meet
    <3>3. ReaderOK(v, same[d], l, r, j, answer[d]) BY DEF ReaderInv
    <3>4. r.op = "delete" /\ l # "answered" => l = "remove" /\ Deleting(v, base[d], r, j.todo)
      BY <1>1 DEF PromiseOK
    <3>5. l \in {"info", "visit"} => r.op \in {"list", "search"} BY InReach DEF AtOp
    <3> HIDE DEF v, l, r, j, N
    <3>6. SameJob(l, r, j, Follows(j, p, q))
      BY <1>3, <3>1, <3>2, <3>3, <3>4, <3>5, FollowsSame DEF N, r
    <3> QED BY <3>1, <3>6 DEF j
  <2> QED BY <2>1, <2>2 DEF Spares
<1> QED
  BY <1>1, <1>2, <1>3, <1>4, <1>5, <1>6, <1>8, <1>9, PromiseKept

OwnOnly(c) == \A d \in Client \ {c} : pc'[d] = pc[d] /\ answer'[d] = answer[d] /\ job'[d] = job[d]

LEMMA OwnFinish ==
  ASSUME TreeInv, ReaderInv, NEW c \in Client, NEW s, NEW b, Finish(c, s) \/ FinishWith(c, s, b)
  PROVE  OwnOnly(c)
<1>1. \A d \in Client \ {c} : answer'[d] = answer[d]
  BY DEF Finish, FinishWith, Answer, AnswerWith, ReaderInv
<1>2. pc' = [pc EXCEPT ![c] = "answered"] /\ job' = [job EXCEPT ![c] = NoJob]
  BY DEF Finish, FinishWith, Answer, AnswerWith, Goto
<1> QED BY <1>1, <1>2 DEF OwnOnly, TreeInv

LEMMA OwnMoves ==
  ASSUME TreeInv, NEW c \in Client, NEW l, NEW j, Goto(c, l) \/ pc' = pc,
         job' = job \/ job' = [job EXCEPT ![c] = j], answer' = answer
  PROVE  OwnOnly(c)
BY DEF Goto, OwnOnly, TreeInv

LEMMA OwnMadeDirs ==
  ASSUME TreeInv, ReaderInv, NEW c \in Client, MadeDirs(c)
  PROVE  OwnOnly(c)
<1>1. CASE Finish(c, "ok") BY <1>1, OwnFinish
<1>2. CASE /\ Goto(c, IF req[c].op = "move" THEN "lstat" ELSE "open") /\ UNCHANGED <<job, answer>>
  BY <1>2, OwnMoves
<1> QED BY <1>1, <1>2 DEF MadeDirs

LEMMA OwnGoOn ==
  ASSUME TreeInv, ReaderInv, NEW c \in Client, NEW rest, NEW found, GoOn(c, rest, found)
  PROVE  OwnOnly(c)
<1>1. CASE rest = <<>> BY <1>1, OwnFinish DEF GoOn
<1>2. CASE rest # <<>>
  <2>1. job' = [job EXCEPT ![c].todo = rest, ![c].found = found] /\ pc' = pc /\ answer' = answer
    BY <1>2 DEF GoOn
  <2> QED BY <2>1 DEF OwnOnly, TreeInv
<1> QED BY <1>1, <1>2

LEMMA QuietSpares ==
  ASSUME TreeInv, ReaderInv, NEW c \in Client,
         \/ Stat(c) \/ OpenSource(c) \/ ReadOld(c) \/ Lstat(c) \/ RefuseRoot(c)
         \/ StatPath(c) \/ Chmod(c) \/ Measure(c) \/ Send(c)
         \/ ReadDir(c) \/ Info(c) \/ Walk(c) \/ Visit(c)
  PROVE  Spares(c) /\ same' = same
<1>1. UNCHANGED <<tree, data, req, base, same>>
  BY DEF Stat, OpenSource, ReadOld, Lstat, RefuseRoot, StatPath, Chmod, Look, Measure, Send,
         ReadDir, Info, Walk, Visit, history
<1>2. OwnOnly(c)
  <2>1. CASE Stat(c) BY <2>1, OwnFinish, OwnMadeDirs, OwnMoves DEF Stat
  <2>2. CASE OpenSource(c)
    <3>1. \/ \E s, b : Finish(c, s) \/ FinishWith(c, s, b)
          \/ \E l, j : /\ Goto(c, l) /\ job' = [job EXCEPT ![c] = j] /\ answer' = answer
      BY <2>2, Zenon DEF OpenSource
    <3> QED BY <3>1, OwnFinish, OwnMoves
  <2>3. CASE ReadOld(c)
    <3>1. \/ \E s, b : Finish(c, s) \/ FinishWith(c, s, b)
          \/ \E l, j : /\ Goto(c, l) /\ job' = [job EXCEPT ![c] = j] /\ answer' = answer
      BY <2>3 DEF ReadOld
    <3> QED BY <3>1, OwnFinish, OwnMoves
  <2>4. CASE Lstat(c) BY <2>4, OwnFinish, OwnMoves DEF Lstat
  <2>5. CASE RefuseRoot(c) \/ StatPath(c) \/ Chmod(c) \/ Send(c)
    BY <2>5, OwnFinish DEF RefuseRoot, StatPath, Chmod, Look, Send
  <2>6. CASE Measure(c) BY <2>6, OwnMoves DEF Measure
  <2>7. CASE ReadDir(c)
    <3>1. \/ \E s, b : Finish(c, s) \/ FinishWith(c, s, b)
          \/ \E l, j : /\ Goto(c, l) /\ job' = [job EXCEPT ![c] = j] /\ answer' = answer
      BY <2>7 DEF ReadDir
    <3> QED BY <3>1, OwnFinish, OwnMoves
  <2>8. CASE Info(c) BY <2>8, OwnGoOn DEF Info
  <2>9. CASE Walk(c)
    <3>1. \/ \E s, b : Finish(c, s) \/ FinishWith(c, s, b)
          \/ \E l, j : /\ Goto(c, l) /\ job' = [job EXCEPT ![c] = j] /\ answer' = answer
      BY <2>9 DEF Walk
    <3> QED BY <3>1, OwnFinish, OwnMoves
  <2>10. CASE Visit(c) BY <2>10, OwnGoOn DEF Visit
  <2> QED BY <2>1, <2>2, <2>3, <2>4, <2>5, <2>6, <2>7, <2>8, <2>9, <2>10
<1>3. Watch /\ View' = View BY <1>1, QuietIsWatched
<1> QED BY <1>1, <1>2, <1>3 DEF Spares, OwnOnly

LEMMA ChangeSpares ==
  ASSUME TreeInv, ReachInv, ReaderInv, NEW c \in Client, Mkdir(c) \/ Open(c) \/ Fill(c)
  PROVE  Spares(c)
<1>1. Watch /\ req' = req /\ base' = base /\ pc[c] \in {"mkdir", "open", "fill"}
  BY DEF Mkdir, Open, Fill
<1>2. c \in Active /\ req[c].op \notin Reads BY <1>1, InReach DEF Active, AtOp, Reads
<1>3. Confined(tree, data, tree', data', reach[c]) BY MkdirConfined, OpenConfined, FillConfined
<1>4. OwnOnly(c)
  <2>1. CASE \E s, b : Finish(c, s) \/ FinishWith(c, s, b) BY <2>1, OwnFinish
  <2>2. CASE \E l, j : /\ Goto(c, l) \/ pc' = pc
                       /\ job' = job \/ job' = [job EXCEPT ![c] = j]
                       /\ answer' = answer
    BY <2>2, OwnMoves
  <2>3. CASE Mkdir(c) BY <2>1, <2>2, <2>3, OwnMadeDirs DEF Mkdir
  <2>4. CASE Open(c) BY <2>1, <2>2, <2>4 DEF Open
  <2>5. CASE Fill(c) BY <2>1, <2>2, <2>5 DEF Fill, NextFile
  <2> QED BY <2>3, <2>4, <2>5
<1> QED BY <1>1, <1>2, <1>3, <1>4 DEF Spares, OwnOnly

LEMMA RenameSpares ==
  ASSUME TreeInv, ReachInv, ReaderInv, NEW c \in Client, Rename(c)
  PROVE  Spares(c)
<1> DEFINE p == req[c].path  q == req[c].to
<1>1. Watch /\ req' = req /\ base' = base /\ pc[c] = "rename"
  BY DEF Rename
<1>2. c \in Active /\ req[c].op \notin Reads BY <1>1, InReach DEF Active, AtOp, Reads
<1>3. Confined(tree, data, tree', data', reach[c]) BY RenameConfined
<1>4. CASE \E s, b : Finish(c, s) \/ FinishWith(c, s, b)
  <2>1. OwnOnly(c) BY <1>4, OwnFinish
  <2> QED BY <1>1, <1>2, <1>3, <2>1 DEF Spares, OwnOnly
<1>5. CASE /\ job' = [d \in Client |-> IF d = c THEN NoJob ELSE Follows(job[d], p, q)]
           /\ Answer(c, "ok")
  <2>1. \A d \in Client \ {c} : job'[d] = Follows(job[d], p, q) BY <1>5
  <2>2. \A d \in Client \ {c} : pc'[d] = pc[d] /\ answer'[d] = answer[d]
    BY <1>5 DEF TreeInv, ReaderInv, Answer, AnswerWith, Goto
  <2>3. p \in reach[c] /\ q \in reach[c] /\ reach[c] \subseteq Path BY <1>1, InReach
  <2> HIDE DEF p, q
  <2>4. Intrudes(reach[c], p, q) BY <2>3, PathOrder DEF Intrudes, Below
  <2> QED BY <1>1, <1>2, <1>3, <2>1, <2>2, <2>4 DEF Spares
<1> QED BY <1>4, <1>5 DEF Rename

LEMMA RemoveSpares ==
  ASSUME TreeInv, ReachInv, ReaderInv, NEW c \in Client, RemoveEntry(c)
  PROVE  Spares(c)
<1> DEFINE todo == job[c].todo  p == Last(todo).at
           removed == \/ IsFile(p) /\ ~Last(todo).listed
                      \/ IsDir(p) /\ Children(p) = {}
           j == [job[c] EXCEPT !.todo = Front(todo)]
<1>1. Watch /\ req' = req /\ base' = base /\ pc[c] = "remove"
  BY DEF RemoveEntry
<1>2. c \in Active /\ req[c].op \notin Reads BY <1>1, InReach DEF Active, AtOp, Reads
<1>3. Confined(tree, data, tree', data', reach[c]) BY RemoveConfined
<1>4. CASE MustList(Last(todo))
  <2>1. OwnOnly(c) BY <1>4, OwnMoves DEF RemoveEntry
  <2> QED BY <1>1, <1>2, <1>3, <2>1 DEF Spares, OwnOnly
<1>5. CASE ~MustList(Last(todo))
  <2>1. /\ job' = [d \in Client |-> IF d = c THEN j
                     ELSE IF removed THEN Follows(job[d], Nowhere, p) ELSE job[d]]
        /\ UNCHANGED <<pc, answer>> \/ \E s : Answer(c, s)
    BY <1>5 DEF RemoveEntry
  <2> HIDE DEF j
  <2>2. \A d \in Client \ {c} : pc'[d] = pc[d] /\ answer'[d] = answer[d]
    BY <2>1 DEF TreeInv, ReaderInv, Answer, AnswerWith, Goto
  <2>3. CASE removed
    <3>1. \A d \in Client \ {c} : job'[d] = Follows(job[d], Nowhere, p) BY <2>1, <2>3
    <3>2. p \in Path BY <2>3 DEF IsFile, IsDir, TreeInv, IsTree
    <3>3. p = Nowhere \/ (p \in Path /\ Below(p, reach[c])) BY <1>1, TopEntry
    <3> HIDE DEF p, removed
    <3>4. Intrudes(reach[c], Nowhere, p) BY <3>2, <3>3, NowhereIsNone DEF Intrudes
    <3> QED BY <1>1, <1>2, <1>3, <2>2, <3>1, <3>4 DEF Spares
  <2>4. CASE ~removed
    <3>1. \A d \in Client \ {c} : job'[d] = job[d] BY <2>1, <2>4
    <3> QED BY <1>1, <1>2, <1>3, <2>2, <3>1 DEF Spares
  <2> QED BY <2>3, <2>4
<1> QED BY <1>4, <1>5

-------------------------------------------------------------------------------
(* A step of its own: what is the same for every operation *)

LEMMA PromiseStepOf ==
  ASSUME TreeInv, TreeInv', ReachInv, ReaderInv, PromiseInv, NEW c \in Client, Spares(c),
         base[c] # NoView /\ ~CopiesOntoItself(req[c]) =>
           PromiseOK(View', tree', same'[c], base[c], pc'[c], req[c], job'[c], answer'[c])
  PROVE  PromiseInv'
<1> SUFFICES ASSUME NEW d \in Client, base'[d] # NoView, ~CopiesOntoItself(req'[d])
             PROVE  PromiseOK(View', tree', same'[d], base'[d], pc'[d], req'[d], job'[d], answer'[d])
  BY DEF PromiseInv
<1>1. CASE d = c BY <1>1 DEF Spares
<1>2. CASE d # c BY <1>2, OthersKeepPromise
<1> QED BY <1>1, <1>2

\* what there is to know of a request whose base is kept
LEMMA OwnFacts ==
  ASSUME TreeInv, ReachInv, PromiseInv, NEW c \in Client, base[c] # NoView, ~CopiesOntoItself(req[c])
  PROVE  /\ PromiseOK(View, tree, same[c], base[c], pc[c], req[c], job[c], answer[c])
         /\ Whole(base[c]) /\ Whole(View) /\ DOMAIN View = DOMAIN tree
         /\ AtOp(pc[c], req[c]) /\ JobOK(job[c]) /\ AtStep(pc[c], req[c], job[c])
         /\ Named(req[c]) \subseteq Path /\ req[c].path \in Path /\ req[c].to \in Path
         /\ pc[c] # "answered" => InHand(req[c], job[c])
         /\ pc[c] # "idle"
<1>1. PromiseOK(View, tree, same[c], base[c], pc[c], req[c], job[c], answer[c]) BY DEF PromiseInv
<1>2. pc[c] # "idle" /\ (pc[c] # "answered" => InHand(req[c], job[c])) BY DEF ReachInv, WorksIn
<1>3. Whole(View) /\ DOMAIN View = DOMAIN tree
  <2>1. IsTree(tree) BY DEF TreeInv
  <2>2. Root \in DOMAIN tree /\ View[Root] = Dir BY <2>1 DEF IsTree, View
  <2>3. \A p \in DOMAIN tree : View[p].dir => View[p] = Dir BY DEF View, File
  <2> QED BY <2>1, <2>2, <2>3, ViewIs DEF Whole
<1>4. Whole(base[c]) BY <1>1 DEF PromiseOK
<1> QED BY <1>1, <1>2, <1>3, <1>4, JobOf, InReach, NamedInPath

LEMMA AnswerIs ==
  ASSUME TreeInv, ReaderInv, NEW c \in Client, NEW s, NEW b, AnswerWith(c, s, b)
  PROVE  /\ pc'[c] = "answered" /\ answer'[c].status = s /\ answer'[c].body = b
         /\ answer'[c].recorded => s = "ok"
BY DEF AnswerWith, Goto, TreeInv, ReaderInv

LEMMA FinishIs ==
  ASSUME TreeInv, ReaderInv, NEW c \in Client, NEW s, NEW b, FinishWith(c, s, b)
  PROVE  /\ pc'[c] = "answered" /\ answer'[c].status = s /\ answer'[c].body = b
         /\ answer'[c].recorded => s = "ok"
BY AnswerIs DEF FinishWith

\* the answer to a request that changes the tree
LEMMA Done ==
  ASSUME TreeInv, ReaderInv, NEW c \in Client, NEW s, Answer(c, s) \/ Finish(c, s),
         NEW b, Whole(b), NEW r, r.op \notin Reads, NEW w, Promise(b, r) = Outcome(s, w),
         NEW v, Sees(v, w, Named(r)), NEW t, NEW z, NEW j
  PROVE  PromiseOK(v, t, z, b, pc'[c], r, j, answer'[c])
<1> DEFINE a == answer'[c]
<1>1. pc'[c] = "answered" /\ a.status = s /\ a.body = {} /\ (a.recorded => s = "ok")
  BY AnswerIs DEF Answer, Finish
<1>2. Promise(b, r).status = s /\ Promise(b, r).view = w /\ Promise(b, r).body = {}
  BY DEF Outcome
<1>3. r.op \notin {"list", "search"} BY DEF Reads
<1> HIDE DEF a
<1>4. Kept(v, b, r, a) BY <1>1, <1>2, <1>3 DEF Kept
<1>5. PromiseOK(v, t, z, b, "answered", r, j, a)
  BY <1>3, <1>4 DEF PromiseOK, Making, Reads
<1> QED BY <1>1, <1>5 DEF a

\* ... and to one that does not
LEMMA Told ==
  ASSUME TreeInv, ReaderInv, NEW c \in Client, NEW s, NEW bd, FinishWith(c, s, bd),
         NEW v, NEW t, NEW z, NEW b, NEW l, NEW r, NEW j, NEW a, PromiseOK(v, t, z, b, l, r, j, a),
         NEW k, r.op \in Reads, Promise(b, r).status = s, Promise(b, r).view = b,
         bd \subseteq Promise(b, r).body, r.op \notin {"list", "search"} => bd = Promise(b, r).body,
         r.op = "search" => IsFiniteSet(bd) /\ Cardinality(bd) <= r.limit
  PROVE  PromiseOK(v, t, z, b, pc'[c], r, k, answer'[c])
<1> DEFINE a1 == answer'[c]
<1>1. pc'[c] = "answered" /\ a1.status = s /\ a1.body = bd /\ (a1.recorded => s = "ok")
  BY FinishIs
<1> HIDE DEF a1
<1>2. /\ Sees(v, b, Named(r)) /\ Whole(b)
      /\ r.op \in {"list", "search"} => \A p \in DOMAIN v : IsPrefix(r.path, p) => p \in z
  BY DEF PromiseOK
<1>3. Kept(v, b, r, a1) BY <1>1, <1>2 DEF Kept
<1>4. PromiseOK(v, t, z, b, "answered", r, k, a1) BY <1>2, <1>3 DEF PromiseOK, Making, Reads
<1> QED BY <1>1, <1>4 DEF a1

-------------------------------------------------------------------------------
(* The way to a file that is written, or to a directory *)

LEMMA FirstOf ==
  ASSUME NEW d \in Path, NEW q \in Path, IsPrefix(q, d)
  PROVE  Len(q) \in 0 .. Len(d) /\ q = SubSeq(d, 1, Len(q))
<1>1. d \in Seq(Name) /\ q \in Seq(Name) BY FsAssumption
<1>2. Len(q) \in Nat /\ Len(d) \in Nat /\ Len(q) <= Len(d) BY <1>1, PrefixDef, LenProperties
<1>3. Len(q) \in 0 .. Len(d) BY <1>2
<1> DEFINE p == SubSeq(d, 1, Len(q))
<1>4. p \in Seq(Name) /\ Len(p) = Len(q) /\ IsPrefix(p, d) BY <1>1, <1>3, FirstNames
<1> HIDE DEF p
<1>5. IsPrefix(p, q) \/ IsPrefix(q, p) BY <1>1, <1>4, PrefixOrder
<1>6. \A i \in 1 .. Len(q) : p[i] = q[i]
  <2>1. IsPrefix(p, q) => \A i \in 1 .. Len(p) : p[i] = q[i] BY <1>1, <1>4, PrefixDef
  <2>2. IsPrefix(q, p) => \A i \in 1 .. Len(q) : q[i] = p[i] BY <1>1, <1>4, PrefixDef
  <2> QED BY <1>4, <1>5, <2>1, <2>2
<1>7. p = q BY <1>1, <1>4, <1>6, SeqEqual
<1> QED BY <1>3, <1>7 DEF p

\* the part of a path down to the depth d
IsDownTo(d, n, p) ==
  /\ p \in Path /\ IsPrefix(p, d) /\ Len(p) = n /\ Len(d) \in Nat
  /\ n = Len(d) => p = d
  /\ \A q \in Path : IsPrefix(q, d) =>
       /\ Len(q) \in Nat /\ Len(q) <= Len(d) /\ q = SubSeq(d, 1, Len(q))
       /\ Len(q) <= n => IsPrefix(q, p)

LEMMA DownTo ==
  ASSUME NEW d \in Path, NEW n \in Nat, n <= Len(d)
  PROVE  IsDownTo(d, n, SubSeq(d, 1, n))
<1> DEFINE p == SubSeq(d, 1, n)
<1>1. d \in Seq(Name) /\ Len(d) \in Nat BY FsAssumption, LenProperties
<1>2. n \in 0 .. Len(d) BY <1>1
<1>3. p \in Path /\ IsPrefix(p, d) /\ Len(p) = n BY <1>1, <1>2, FirstNames, FsAssumption
<1>5. n = Len(d) => p = d
  <2>1. IsPrefix(d, d) BY PathOrder
  <2> QED BY <2>1, FirstOf
<1> HIDE DEF p
<1>4. ASSUME NEW q \in Path, IsPrefix(q, d)
      PROVE  /\ Len(q) \in Nat /\ Len(q) <= Len(d) /\ q = SubSeq(d, 1, Len(q))
             /\ Len(q) <= n => IsPrefix(q, p)
  <2>1. Len(q) \in 0 .. Len(d) /\ q = SubSeq(d, 1, Len(q)) BY <1>4, FirstOf
  <2>2. ASSUME Len(q) <= n PROVE IsPrefix(q, p)
    <3>1. IsPrefix(q, p) \/ IsPrefix(p, q) BY <1>3, <1>4, PathOrder
    <3>2. CASE IsPrefix(p, q)
      <4>1. Len(p) \in 0 .. Len(q) /\ p = SubSeq(q, 1, Len(p)) BY <1>3, <3>2, FirstOf
      <4>2. Len(p) = Len(q)
        <5> DEFINE a == Len(p)  b == Len(q)  m == Len(d)
        <5>1. a = n /\ a \in 0 .. b /\ b \in 0 .. m /\ b <= n /\ m \in Nat BY <1>1, <1>3, <2>1, <2>2, <4>1
        <5> HIDE DEF a, b, m
        <5>2. a = b BY <5>1
        <5> QED BY <5>2 DEF a, b
      <4>3. SubSeq(q, 1, Len(q)) = q
        <5>1. q \in Path /\ IsPrefix(q, q) BY <1>4, PathOrder
        <5> QED BY <5>1, FirstOf
      <4> QED BY <1>3, <4>1, <4>2, <4>3, PathOrder
    <3> QED BY <3>1, <3>2
  <2> QED BY <1>1, <2>1, <2>2
<1>6. IsDownTo(d, n, p) BY <1>1, <1>3, <1>4, <1>5 DEF IsDownTo
<1> QED BY <1>6 DEF p

LEMMA ClearWay ==
  ASSUME NEW v, NEW w, NEW N, Sees(v, w, N), DOMAIN w \subseteq Path, N \subseteq Path,
         NEW d \in Path, OnTheWay(d, N), \A q \in Path : IsPrefix(q, d) /\ q \in DOMAIN v => v[q].dir
  PROVE  ~Blocked(w, d)
<1> SUFFICES ASSUME NEW q \in DOMAIN w, IsPrefix(q, d) PROVE w[q].dir BY DEF Blocked
<1>1. OnTheWay(q, N) BY PathOrder DEF OnTheWay
<1> QED BY <1>1 DEF Sees

LEMMA BlockedHere ==
  ASSUME NEW v, NEW w, NEW N, Sees(v, w, N), N \subseteq Path,
         NEW d \in Path, OnTheWay(d, N), NEW q \in Path, IsPrefix(q, d), q \in DOMAIN v, ~v[q].dir
  PROVE  Blocked(w, d)
<1>1. OnTheWay(q, N) BY PathOrder DEF OnTheWay
<1>2. q \in DOMAIN w /\ ~w[q].dir BY <1>1 DEF Sees
<1> QED BY <1>2 DEF Blocked

\* directories that are there anyway
LEMMA DirsSeen ==
  ASSUME NEW v, NEW w, NEW N, IsView(v), Sees(v, w, N), N \subseteq Path,
         NEW p \in DOMAIN v, v[p].dir
  PROVE  Sees(v, WithDirs(w, p), N)
<1> DEFINE u == WithDirs(w, p)
<1>1. \A s \in Path : s \in DOMAIN u <=> s \in DOMAIN w \/ IsPrefix(s, p) BY DEF WithDirs
<1>2. \A s \in DOMAIN w : s \in DOMAIN u /\ u[s] = w[s] BY DEF WithDirs
<1>3. \A s \in DOMAIN u : s \notin DOMAIN w => u[s] = Dir BY DEF WithDirs
<1>4. \A s \in Path : IsPrefix(s, p) => s \in DOMAIN v /\ v[s].dir
  <2>1. Dir.dir BY DEF Dir
  <2> QED BY <2>1 DEF IsView
<1>5. Dir.dir = TRUE BY DEF Dir
<1>6. \A s \in DOMAIN v : v[s].dir \in BOOLEAN BY DEF IsView
<1> HIDE DEF u
<1>7. ASSUME NEW s \in Path, Below(s, N)
      PROVE  (s \in DOMAIN v <=> s \in DOMAIN u) /\ (s \in DOMAIN u => v[s] = u[s])
  BY <1>1, <1>2, <1>4, <1>7 DEF Sees
<1>8. ASSUME NEW s \in Path, OnTheWay(s, N)
      PROVE  /\ s \in DOMAIN u => s \in DOMAIN v /\ v[s].dir = u[s].dir
             /\ s \in DOMAIN v /\ s \notin DOMAIN u => v[s].dir
  BY <1>1, <1>2, <1>3, <1>4, <1>5, <1>6, <1>8 DEF Sees
<1> QED BY <1>7, <1>8 DEF Sees, u

Changes == {"write", "upload", "mkdir", "patch", "copy", "move"}
Writes  == {"write", "upload", "patch", "copy"}

\* w is what was there before the file, or the directory, at hand
Doing(b, r, j, w) ==
  IF r.op \in {"write", "upload"}
    THEN \E k \in 1 .. Len(r.files) :
           /\ j.at = r.files[k] /\ j.more = SubSeq(r.files, k + 1, Len(r.files)) /\ j.buf = r.text
           /\ AllFit(b, r.files, k - 1, r.text) /\ w = WithFiles(b, r.files, k - 1, r.text)
    ELSE w = b

LEMMA UnderWay ==
  ASSUME NEW v, NEW t, NEW s, NEW b, NEW l, NEW r, NEW j, NEW a, PromiseOK(v, t, s, b, l, r, j, a),
         l \in {"make", "mkdir", "open", "fill", "lstat", "rename"}, AtOp(l, r)
  PROVE  /\ r.op \in Changes
         /\ \E w : /\ Doing(b, r, j, w) /\ Whole(w) /\ Making(v, w, l, j, Named(r))
                   /\ r.op \in Writes => Writing(v, t, w, l, j, Named(r))
         /\ r.op = "copy" => r.path \in DOMAIN b /\ r.path \in DOMAIN t /\ t[r.path] = j.src
         /\ r.op = "patch" => Promise(b, r) = Put(b, r.path, j.buf)
         /\ r.op \in {"patch", "copy", "move"} =>
              j.at = (IF r.op = "patch" THEN r.path ELSE r.to) /\ (r.op # "move" => j.more = <<>>)
<1>1. r.op \in Changes BY DEF AtOp, Changes
<1>2. CASE r.op \in {"write", "upload"}
  <2>1. PICK k \in 1 .. Len(r.files) : Uploading(v, t, b, l, r, j, k) BY <1>2 DEF PromiseOK
  <2> DEFINE w == WithFiles(b, r.files, k - 1, r.text)
  <2>2. Doing(b, r, j, w) BY <1>2, <2>1 DEF Doing, Uploading
  <2>3. Writing(v, t, w, l, j, Named(r)) BY <2>1 DEF Uploading
  <2> HIDE DEF w
  <2> QED BY <1>1, <1>2, <2>2, <2>3 DEF Writing
<1>3. CASE r.op \in {"mkdir", "move"}
  BY <1>1, <1>3 DEF PromiseOK, Doing, Writes
<1>4. CASE r.op = "patch"
  <2>1. l # "read" BY DEF AtOp
  <2> QED BY <1>1, <1>4, <2>1 DEF PromiseOK, Doing, Writing
<1>5. CASE r.op = "copy"
  <2>1. l # "source" BY DEF AtOp
  <2> QED BY <1>1, <1>5, <2>1 DEF PromiseOK, Doing, Writing
<1> QED BY <1>1, <1>2, <1>3, <1>4, <1>5 DEF Changes

LEMMA StillUnderWay ==
  ASSUME NEW v, NEW t, NEW s, NEW b, NEW l, NEW r, NEW j, NEW a, Whole(b), r.op \in Changes,
         l \notin {"answered", "read", "source"}, NEW w, Doing(b, r, j, w),
         r.op \in {"mkdir", "move"} => Making(v, w, l, j, Named(r)),
         r.op \in Writes => Writing(v, t, w, l, j, Named(r)),
         r.op = "move" /\ l = "rename" => ~(r.to \in DOMAIN v /\ v[r.to].dir),
         r.op = "copy" => r.path \in DOMAIN b /\ r.path \in DOMAIN t /\ t[r.path] = j.src,
         r.op = "patch" => Promise(b, r) = Put(b, r.path, j.buf),
         r.op \in {"patch", "copy", "move"} =>
           j.at = (IF r.op = "patch" THEN r.path ELSE r.to) /\ (r.op # "move" => j.more = <<>>)
  PROVE  PromiseOK(v, t, s, b, l, r, j, a)
<1>1. r.op \notin Reads /\ r.op # "delete" BY DEF Changes, Reads
<1>2. CASE r.op \in {"write", "upload"}
  <2>1. PICK k \in 1 .. Len(r.files) :
           /\ j.at = r.files[k] /\ j.more = SubSeq(r.files, k + 1, Len(r.files)) /\ j.buf = r.text
           /\ AllFit(b, r.files, k - 1, r.text) /\ w = WithFiles(b, r.files, k - 1, r.text)
    BY <1>2 DEF Doing
  <2>2. Uploading(v, t, b, l, r, j, k) BY <1>2, <2>1 DEF Uploading, Writes
  <2> QED BY <1>1, <1>2, <2>2 DEF PromiseOK, Reads
<1>3. CASE r.op \in {"mkdir", "move"}
  <2>1. w = b BY <1>3 DEF Doing
  <2> QED BY <1>1, <1>3, <2>1 DEF PromiseOK, Reads
<1>4. CASE r.op \in {"patch", "copy"}
  <2>1. w = b BY <1>4 DEF Doing
  <2> QED BY <1>1, <1>4, <2>1 DEF PromiseOK, Reads, Writes
<1> QED BY <1>2, <1>3, <1>4 DEF Changes

-------------------------------------------------------------------------------
(* What a whole request promises *)

\* an upload stops at the first file that cannot be put where it belongs
LEMMA PutAllIs ==
  ASSUME NEW v, NEW ps, NEW t, Len(ps) \in Nat, NEW n \in 0 .. Len(ps), AllFit(v, ps, n, t),
         \/ n = Len(ps)
         \/ n < Len(ps) /\ Put(WithFiles(v, ps, n, t), ps[n + 1], t).status # "ok"
  PROVE  PutAll(v, ps, t) = Outcome(IF n = Len(ps) THEN "ok" ELSE "error", WithFiles(v, ps, n, t))
<1> DEFINE fits(i) == Put(WithFiles(v, ps, i - 1, t), ps[i], t).status = "ok"
           stops(m) == (\A i \in 1 .. m : fits(i)) /\ (m = Len(ps) \/ ~fits(m + 1))
           last == CHOOSE m \in 0 .. Len(ps) : stops(m)
<1>1. (n + 1) - 1 = n OBVIOUS
<1>2. \A i \in 1 .. n : fits(i) BY DEF AllFit
<1>3. n = Len(ps) \/ (n < Len(ps) /\ ~fits(n + 1)) BY <1>1
<1>4. PutAll(v, ps, t) = Outcome(IF last = Len(ps) THEN "ok" ELSE "error", WithFiles(v, ps, last, t))
  BY DEF PutAll
<1> HIDE DEF fits
<1>5. stops(n) BY <1>2, <1>3
<1>6. last \in 0 .. Len(ps) /\ stops(last) BY <1>5
<1>7. last = n
  <2> HIDE DEF last
  <2>1. ~(last < n)
    <3> SUFFICES ASSUME last < n PROVE FALSE OBVIOUS
    <3>1. last + 1 \in 1 .. n /\ last # Len(ps) BY <1>6
    <3> QED BY <1>2, <1>6, <3>1
  <2>2. ~(n < last)
    <3> SUFFICES ASSUME n < last PROVE FALSE OBVIOUS
    <3>1. n + 1 \in 1 .. last /\ n # Len(ps) BY <1>6
    <3> QED BY <1>3, <1>6, <3>1
  <2> QED BY <1>6, <2>1, <2>2
<1> HIDE DEF last
<1> QED BY <1>4, <1>7

LEMMA PromiseOf ==
  ASSUME NEW v, NEW r
  PROVE  /\ r.op \in {"write", "upload"} => Promise(v, r) = PutAll(v, r.files, r.text)
         /\ r.op = "mkdir" =>
              Promise(v, r) = IF Blocked(v, r.path) THEN Outcome("error", v)
                              ELSE Outcome("ok", WithDirs(v, r.path))
         /\ r.op = "delete" =>
              Promise(v, r) = IF r.path = Root \/ Blocked(v, Parent(r.path)) THEN Outcome("error", v)
                              ELSE Outcome("ok", Without(v, r.path))
         /\ r.op = "patch" /\ r.old = <<>> => Promise(v, r) = Put(v, r.path, r.text)
         /\ r.op = "copy" =>
              Promise(v, r) =
                IF r.path \notin DOMAIN v THEN Outcome(Missing(v, r.path), v)
                ELSE LET made == Put(v, r.to, v[r.path].text)
                     IN IF v[r.path].dir THEN Outcome("error", made.view) ELSE made
  BY DEF Promise, Reads

LEMMA PromiseOfMove ==
  ASSUME NEW v, NEW r, r.op = "move"
  PROVE  Promise(v, r) =
         IF Blocked(v, Parent(r.to)) THEN Outcome("error", v)
         ELSE LET w == WithDirs(v, Parent(r.to))
              IN IF r.path \notin DOMAIN w THEN Outcome(Missing(v, r.path), w)
                 ELSE IF r.to \in DOMAIN w /\ (w[r.to].dir \/ w[r.path].dir)
                   THEN Outcome("error", w)
                 ELSE IF r.to # r.path /\ IsPrefix(r.path, r.to) THEN Outcome("error", w)
                 ELSE Outcome("ok", Relocated(w, r.path, r.to))
BY DEF Promise, Reads

LEMMA PromiseOfPatch ==
  ASSUME NEW v, NEW r, r.op = "patch", r.old # <<>>
  PROVE  Promise(v, r) =
         IF r.path \notin DOMAIN v THEN Outcome(Missing(v, r.path), v)
         ELSE IF v[r.path].dir THEN Outcome("error", v)
         ELSE LET t == v[r.path].text
              IN IF Cardinality(Places(t, r.old)) # 1 THEN Outcome("conflict", v)
                 ELSE Outcome("ok", With(v, r.path, File(Replace(t, r.old, r.text))))
BY DEF Promise, Reads

LEMMA PutIs ==
  ASSUME NEW w, NEW p, NEW x
  PROVE  /\ Blocked(w, Parent(p)) \/ (p \in DOMAIN w /\ w[p].dir) => Put(w, p, x) = Outcome("error", w)
         /\ ~Blocked(w, Parent(p)) /\ ~(p \in DOMAIN w /\ w[p].dir) =>
              Put(w, p, x) = Outcome("ok", With(WithDirs(w, Parent(p)), p, File(x)))
BY DEF Put

LEMMA FilesOK ==
  ASSUME NEW r, Asked(r), r.op \in {"write", "upload"}
  PROVE  /\ r.files \in Seq(Path) /\ Len(r.files) \in Nat \ {0}
         /\ DOMAIN r.files = 1 .. Len(r.files)
         /\ \A k \in 1 .. Len(r.files) : r.files[k] \in Path /\ r.files[k] \in Named(r)
<1>1. r.files \in Seq(Path) /\ r.files # <<>>
  <2>1. r # NoReq BY DEF NoReq
  <2>2. PICK q \in Requests : r = Resolved(q) BY <2>1 DEF Asked
  <2>3. r.files \in Seq(Path) \ {<<>>} BY <2>2, RequestOK
  <2> QED BY <2>3
<1> DEFINE f == r.files
<1>2. Named(r) = Range(f) BY DEF Named
<1> HIDE DEF f
<1>3. f \in Seq(Path) /\ f # <<>> BY <1>1 DEF f
<1>4. Len(f) \in Nat \ {0} /\ DOMAIN f = 1 .. Len(f) BY <1>3, EmptySeq, LenProperties
<1>5. \A k \in 1 .. Len(f) : f[k] \in Path /\ f[k] \in Range(f)
  BY <1>3, <1>4, ElementOfSeq DEF Range
<1> QED BY <1>2, <1>3, <1>4, <1>5 DEF f

\* what cannot be put where it belongs
LEMMA CannotPut ==
  ASSUME NEW b, NEW r, Asked(r), NEW j, NEW w, Doing(b, r, j, w), r.op \in Writes,
         Blocked(w, Parent(j.at)) \/ (j.at \in DOMAIN w /\ w[j.at].dir),
         r.op = "copy" => r.path \in DOMAIN b /\ j.at = r.to,
         r.op = "patch" => Promise(b, r) = Put(b, r.path, j.buf) /\ j.at = r.path
  PROVE  Promise(b, r) = Outcome("error", w)
<1>1. \A x : Put(w, j.at, x) = Outcome("error", w) BY PutIs
<1>2. CASE r.op \in {"write", "upload"}
  <2> DEFINE f == r.files
  <2>1. PICK k \in 1 .. Len(f) :
          j.at = f[k] /\ AllFit(b, f, k - 1, r.text) /\ w = WithFiles(b, f, k - 1, r.text)
    BY <1>2 DEF Doing
  <2>2. Put(w, f[k], r.text).status = "error" BY <1>1, <2>1 DEF Outcome
  <2>3. Promise(b, r) = PutAll(b, f, r.text) BY <1>2, PromiseOf
  <2> HIDE DEF f
  <2>4. Len(f) \in Nat BY <1>2, FilesOK DEF f
  <2>5. k - 1 \in 0 .. Len(f) /\ k - 1 < Len(f) /\ (k - 1) + 1 = k /\ k - 1 # Len(f) BY <2>4
  <2>6. PutAll(b, f, r.text) = Outcome("error", WithFiles(b, f, k - 1, r.text))
    BY <2>1, <2>2, <2>4, <2>5, PutAllIs
  <2> QED BY <2>1, <2>3, <2>6
<1>3. CASE r.op = "patch"
  <2>1. w = b BY <1>3 DEF Doing
  <2> QED BY <1>1, <1>3, <2>1
<1>4. CASE r.op = "copy"
  <2>1. w = b BY <1>4 DEF Doing
  <2>2. Put(b, r.to, b[r.path].text) = Outcome("error", b) BY <1>1, <1>4, <2>1
  <2>3. Outcome("error", b).view = b BY DEF Outcome
  <2> QED BY <1>4, <2>1, <2>2, <2>3, PromiseOf
<1> QED BY <1>2, <1>3, <1>4 DEF Writes

-------------------------------------------------------------------------------
(* MkdirAll *)

\* the way to what is at hand
LEMMA HandOnTheWay ==
  ASSUME NEW r, NEW j, InHand(r, j), JobOK(j), r.op \in Changes, Named(r) \subseteq Path
  PROVE  /\ j.dir \in Path /\ OnTheWay(j.dir, Named(r))
         /\ r.op # "mkdir" => j.at \in Path /\ j.at \in Named(r) /\ j.dir = Parent(j.at)
<1>1. j.at \in Path /\ j.dir \in Path BY DEF JobOK
<1>2. CASE r.op = "mkdir"
  <2>1. j.dir \in Named(r) BY <1>2 DEF InHand, Named
  <2> QED BY <1>1, <1>2, <2>1, PathOrder DEF OnTheWay
<1>3. CASE r.op # "mkdir"
  <2>1. j.at \in Named(r) /\ j.dir = Parent(j.at) BY <1>3 DEF InHand, Changes
  <2> QED BY <1>1, <1>3, <2>1, PathParent, PathOrder DEF OnTheWay
<1> QED BY <1>2, <1>3

\* on to the next system call of what is under way
LEMMA GoesOn ==
  ASSUME TreeInv, ReachInv, PromiseInv, NEW c \in Client, base[c] # NoView, ~CopiesOntoItself(req[c]),
         pc[c] \in {"make", "mkdir"},
         NEW w, Doing(base[c], req[c], job[c], w), Whole(w),
         NEW l, l \in {"make", "mkdir", "open", "lstat"}, NEW j,
         j.at = job[c].at, j.dir = job[c].dir, j.more = job[c].more, j.buf = job[c].buf, j.src = job[c].src,
         NEW v, NEW t, Making(v, w, l, j, Named(req[c])),
         \A s \in DOMAIN tree : s \in DOMAIN t /\ t[s] = tree[s], NEW z, NEW a
  PROVE  PromiseOK(v, t, z, base[c], l, req[c], j, a)
<1> DEFINE b == base[c]  r == req[c]  i == job[c]
<1>1. PromiseOK(View, tree, same[c], b, pc[c], r, i, answer[c]) /\ Whole(b) /\ AtOp(pc[c], r)
  BY OwnFacts
<1>2. /\ r.op \in Changes
      /\ r.op = "copy" => r.path \in DOMAIN b /\ r.path \in DOMAIN tree /\ tree[r.path] = i.src
      /\ r.op = "patch" => Promise(b, r) = Put(b, r.path, i.buf)
      /\ r.op \in {"patch", "copy", "move"} =>
           i.at = (IF r.op = "patch" THEN r.path ELSE r.to) /\ (r.op # "move" => i.more = <<>>)
  BY <1>1, UnderWay
<1> HIDE DEF b, r, i
<1>3. Doing(b, r, j, w) BY DEF Doing, b, r, i
<1>4. r.op \in Writes => Writing(v, t, w, l, j, Named(r)) BY DEF Writing, r
<1>5. /\ j.at = i.at /\ j.dir = i.dir /\ j.more = i.more /\ j.buf = i.buf /\ j.src = i.src
      /\ Making(v, w, l, j, Named(r))
  BY DEF i, r
<1>6. PromiseOK(v, t, z, b, l, r, j, a)
  BY <1>1, <1>2, <1>3, <1>4, <1>5, StillUnderWay
<1> QED BY <1>6 DEF b, r

\* all the directories are there
LEMMA MadeDirsPromise ==
  ASSUME TreeInv, ReachInv, ReaderInv, PromiseInv, NEW c \in Client,
         base[c] # NoView, ~CopiesOntoItself(req[c]), pc[c] \in {"make", "mkdir"}, MadeDirs(c),
         NEW w, Doing(base[c], req[c], job[c], w), Whole(w), ~Blocked(w, job[c].dir),
         NEW v, Sees(v, WithDirs(w, job[c].dir), Named(req[c])),
         NEW t, \A s \in DOMAIN tree : s \in DOMAIN t /\ t[s] = tree[s], NEW z
  PROVE  PromiseOK(v, t, z, base[c], pc'[c], req[c], job'[c], answer'[c])
<1> DEFINE b == base[c]  r == req[c]
<1>1. Whole(b) /\ InHand(r, job[c]) BY OwnFacts
<1>2. CASE r.op = "mkdir"
  <2>1. Finish(c, "ok") BY <1>2 DEF MadeDirs
  <2>2. w = b /\ job[c].dir = r.path BY <1>1, <1>2 DEF Doing, InHand
  <2>3. Promise(b, r) = Outcome("ok", WithDirs(b, r.path)) BY <1>2, <2>2, PromiseOf
  <2>4. r.op \notin Reads BY <1>2 DEF Reads
  <2> HIDE DEF b, r
  <2>5. Whole(b) /\ Sees(v, WithDirs(b, r.path), Named(r)) BY <1>1, <2>2 DEF r
  <2>6. PromiseOK(v, t, z, b, pc'[c], r, job'[c], answer'[c]) BY <2>1, <2>3, <2>4, <2>5, Done
  <2> QED BY <2>6 DEF b, r
<1>3. CASE r.op # "mkdir"
  <2> DEFINE l == IF r.op = "move" THEN "lstat" ELSE "open"
  <2>1. Goto(c, l) /\ UNCHANGED <<job, answer>> BY <1>3 DEF MadeDirs
  <2>2. pc'[c] = l BY <2>1 DEF Goto, TreeInv
  <2>3. l \in {"lstat", "open"} OBVIOUS
  <2> HIDE DEF l
  <2>4. Making(v, w, l, job[c], Named(r)) BY <2>3 DEF Making
  <2>5. PromiseOK(v, t, z, b, l, r, job[c], answer[c]) BY <2>3, <2>4, GoesOn
  <2> QED BY <2>1, <2>2, <2>5
<1> QED BY <1>2, <1>3

LEMMA StatPromise ==
  ASSUME TreeInv, TreeInv', ReachInv, ReaderInv, PromiseInv, NEW c \in Client, Stat(c)
  PROVE  PromiseInv'
<1>1. Spares(c) BY QuietSpares
<1> SUFFICES ASSUME base[c] # NoView, ~CopiesOntoItself(req[c])
             PROVE  PromiseOK(View', tree', same'[c], base[c], pc'[c], req[c], job'[c], answer'[c])
  BY <1>1, PromiseStepOf
<1> DEFINE b == base[c]  r == req[c]  j == job[c]  v == View  N == Named(r)
           d == j.depth  D == j.dir  p == SubSeq(D, 1, d)
<1>2. /\ pc[c] = "make" /\ tree' = tree /\ View' = View
      /\ \/ /\ p \notin DOMAIN tree
            /\ job' = [job EXCEPT ![c].depth = d - 1]
            /\ UNCHANGED <<pc, answer>>
         \/ IsFile(p) /\ Finish(c, "error")
         \/ IsDir(p) /\ d = Len(D) /\ MadeDirs(c)
         \/ IsDir(p) /\ d < Len(D) /\ Goto(c, "mkdir") /\ UNCHANGED <<job, answer>>
  BY DEF Stat, View
<1>3. /\ PromiseOK(v, tree, same[c], b, "make", r, j, answer[c])
      /\ Whole(b) /\ Whole(v) /\ DOMAIN v = DOMAIN tree /\ AtOp("make", r) /\ JobOK(j)
      /\ d <= Len(D) /\ N \subseteq Path /\ InHand(r, j)
  BY <1>2, OwnFacts DEF AtStep
<1>4. r.op \in Changes BY <1>3, UnderWay
<1>5. PICK w : Doing(b, r, j, w) /\ Whole(w) /\ Making(v, w, "make", j, N)
  BY <1>3, UnderWay
<1>6. D \in Path /\ OnTheWay(D, N) /\ (r.op # "mkdir" => D = Parent(j.at) /\ j.at \in N)
  BY <1>3, <1>4, HandOnTheWay
<1>7. d \in Nat BY <1>3 DEF JobOK
<1>8. /\ p \in Path /\ IsPrefix(p, D) /\ Len(p) = d /\ Len(D) \in Nat /\ (d = Len(D) => p = D)
      /\ \A q \in Path : IsPrefix(q, D) =>
           /\ Len(q) \in Nat /\ Len(q) <= Len(D) /\ q = SubSeq(D, 1, Len(q))
           /\ Len(q) <= d => IsPrefix(q, p)
  <2>1. p = SubSeq(D, 1, d) BY DEF p
  <2>2. D \in Path /\ d \in Nat /\ d <= Len(D) BY <1>3, <1>6, <1>7
  <2> HIDE DEF D, d, p
  <2>3. IsDownTo(D, d, p) BY <2>1, <2>2, DownTo
  <2> QED BY <2>3 DEF IsDownTo
<1>9. /\ Sees(v, w, N)
      /\ \A n \in d + 1 .. Len(D) : SubSeq(D, 1, n) \in DOMAIN v => v[SubSeq(D, 1, n)].dir
  BY <1>5 DEF Making
<1>10. \A s \in DOMAIN tree : v[s].dir = IsDir(s) BY ViewIs DEF TreeInv
<1> HIDE DEF p, v
<1>11. CASE p \notin DOMAIN tree /\ job' = [job EXCEPT ![c].depth = d - 1] /\ UNCHANGED <<pc, answer>>
  <2>1. job'[c].depth = d - 1
    BY <1>3, <1>11 DEF TreeInv, JobOK, NoJob
  <2>2. /\ job'[c].at = j.at /\ job'[c].dir = D /\ job'[c].more = j.more /\ job'[c].buf = j.buf
        /\ job'[c].src = j.src
    BY <1>3, <1>11 DEF TreeInv, JobOK, NoJob
  <2>3. Making(v, w, "make", job'[c], N)
    <3>1. ASSUME NEW n \in (d - 1) + 1 .. Len(D), SubSeq(D, 1, n) \in DOMAIN v
          PROVE  v[SubSeq(D, 1, n)].dir
      <4>1. n = d \/ n \in d + 1 .. Len(D) BY <1>7, <1>8
      <4>2. n # d BY <1>3, <1>11, <3>1 DEF p
      <4> QED BY <1>9, <3>1, <4>1, <4>2
    <3> QED BY <1>9, <2>1, <2>2, <3>1 DEF Making
  <2>4. PromiseOK(v, tree, same'[c], b, "make", r, job'[c], answer[c])
    BY <1>2, <1>5, <2>2, <2>3, GoesOn
  <2> QED BY <1>2, <1>11, <2>4 DEF v
<1>12. CASE IsFile(p) /\ Finish(c, "error")
  <2>1. p \in DOMAIN v /\ ~v[p].dir BY <1>3, <1>10, <1>12 DEF IsFile, IsDir
  <2>2. Blocked(w, D) BY <1>3, <1>6, <1>8, <1>9, <2>1, BlockedHere
  <2>3. Promise(b, r) = Outcome("error", w)
    <3>1. CASE r.op = "mkdir"
      <4>1. w = b /\ D = r.path BY <1>3, <1>5, <3>1 DEF Doing, InHand
      <4> QED BY <2>2, <3>1, <4>1, PromiseOf
    <3>2. CASE r.op = "move"
      <4>1. w = b /\ j.at = r.to BY <1>3, <1>5, <3>2, UnderWay DEF Doing
      <4> QED BY <1>6, <2>2, <3>2, <4>1, PromiseOfMove
    <3>3. CASE r.op \in Writes
      <4>1. r.op = "copy" => r.path \in DOMAIN b /\ j.at = r.to BY <1>3, UnderWay
      <4>2. r.op = "patch" => Promise(b, r) = Put(b, r.path, j.buf) /\ j.at = r.path BY <1>3, UnderWay
      <4>3. D = Parent(j.at) BY <1>6, <3>3 DEF Writes
      <4>4. Asked(r) BY JobOf
      <4> HIDE DEF r, j, b
      <4> QED BY <1>5, <2>2, <3>3, <4>1, <4>2, <4>3, <4>4, CannotPut
    <3> QED BY <1>4, <3>1, <3>2, <3>3 DEF Changes, Writes
  <2>4. r.op \notin Reads BY <1>4 DEF Changes, Reads
  <2>5. PromiseOK(v, tree, same'[c], b, pc'[c], r, job'[c], answer'[c])
    BY <1>3, <1>9, <1>12, <2>3, <2>4, Done
  <2> QED BY <1>2, <2>5 DEF v
<1>13. ASSUME IsDir(p) PROVE ~Blocked(w, D) /\ Sees(v, WithDirs(w, p), N)
  <2>1. p \in DOMAIN v /\ v[p].dir BY <1>3, <1>10, <1>13 DEF IsDir
  <2>2. ASSUME NEW q \in Path, IsPrefix(q, D), q \in DOMAIN v PROVE v[q].dir
    <3>1. Len(q) \in Nat /\ Len(q) <= Len(D) /\ q = SubSeq(D, 1, Len(q)) BY <1>8, <2>2
    <3>2. CASE Len(q) <= d
      <4>1. IsPrefix(q, p) BY <1>8, <2>2, <3>2
      <4>2. Dir.dir BY DEF Dir
      <4> QED BY <1>3, <2>1, <4>1, <4>2 DEF Whole, IsView
    <3>3. CASE ~(Len(q) <= d)
      <4>1. Len(q) \in d + 1 .. Len(D) BY <1>7, <1>8, <3>1, <3>3
      <4> QED BY <1>9, <2>2, <3>1, <4>1
    <3> QED BY <3>2, <3>3
  <2>3. ~Blocked(w, D) BY <1>3, <1>5, <1>6, <1>9, <2>2, ClearWay DEF Whole, IsView
  <2>4. Sees(v, WithDirs(w, p), N) BY <1>3, <1>9, <2>1, DirsSeen DEF Whole
  <2> QED BY <2>3, <2>4
<1>14. CASE IsDir(p) /\ d = Len(D) /\ MadeDirs(c)
  <2>1. ~Blocked(w, D) /\ Sees(v, WithDirs(w, D), N) BY <1>8, <1>13, <1>14
  <2>2. PromiseOK(v, tree, same'[c], b, pc'[c], r, job'[c], answer'[c])
    BY <1>2, <1>5, <1>14, <2>1, MadeDirsPromise
  <2> QED BY <1>2, <2>2 DEF v
<1>15. CASE IsDir(p) /\ d < Len(D) /\ Goto(c, "mkdir") /\ UNCHANGED <<job, answer>>
  <2>1. Making(v, w, "mkdir", j, N) BY <1>13, <1>15 DEF Making, p
  <2>2. PromiseOK(v, tree, same'[c], b, "mkdir", r, j, answer[c])
    BY <1>2, <1>5, <2>1, GoesOn
  <2>3. pc'[c] = "mkdir" BY <1>15 DEF Goto, TreeInv
  <2> QED BY <1>2, <1>15, <2>2, <2>3 DEF v
<1> QED BY <1>2, <1>11, <1>12, <1>14, <1>15

\* one more directory
LEMMA MadeOne ==
  ASSUME NEW v, NEW w, NEW N, N \subseteq Path, NEW p \in Path, p # Root,
         Sees(v, WithDirs(w, Parent(p)), N), p \in DOMAIN v => v[p] = Dir,
         p \in DOMAIN w => w[p].dir,
         NEW u, DOMAIN u = DOMAIN v \cup {p}, u[p] = Dir, \A s \in DOMAIN v : s # p => u[s] = v[s]
  PROVE  Sees(u, WithDirs(w, p), N)
<1> DEFINE a == Parent(p)  w1 == WithDirs(w, a)  w2 == WithDirs(w, p)
<1>1. /\ a \in Path /\ IsPrefix(a, p) /\ a # p
      /\ \A s \in Path : IsPrefix(s, p) => s = p \/ IsPrefix(s, a)
      /\ \A s \in Path : IsPrefix(s, a) => IsPrefix(s, p) /\ s # p
  BY PathParent, PathOrder
<1>2. /\ \A s \in Path : s \in DOMAIN w1 <=> s \in DOMAIN w \/ IsPrefix(s, a)
      /\ \A s \in Path : s \in DOMAIN w2 <=> s \in DOMAIN w \/ IsPrefix(s, p)
      /\ \A s \in DOMAIN w : w1[s] = w[s] /\ w2[s] = w[s]
      /\ \A s \in Path : s \in DOMAIN w1 /\ s \notin DOMAIN w => w1[s] = Dir
      /\ \A s \in Path : s \in DOMAIN w2 /\ s \notin DOMAIN w => w2[s] = Dir
  BY DEF WithDirs
<1>3. IsPrefix(p, p) /\ Dir.dir BY PathOrder DEF Dir
<1>4. Sees(v, w1, N) OBVIOUS
<1> HIDE DEF a, w1, w2
<1>5. \A s \in Path : s # p => (s \in DOMAIN w2 <=> s \in DOMAIN w1) /\ (s \in DOMAIN w1 => w2[s] = w1[s])
  BY <1>1, <1>2
<1>6. p \in DOMAIN w2 /\ w2[p].dir BY <1>2, <1>3
<1>7. p \notin DOMAIN w1 \/ w1[p] = w2[p]
  BY <1>1, <1>2
<1>8. Sees(u, w2, N)
  <2>1. ASSUME NEW s \in Path, Below(s, N)
        PROVE  (s \in DOMAIN u <=> s \in DOMAIN w2) /\ (s \in DOMAIN w2 => u[s] = w2[s])
    <3>1. (s \in DOMAIN v <=> s \in DOMAIN w1) /\ (s \in DOMAIN w1 => v[s] = w1[s])
      BY <1>4, <2>1 DEF Sees
    <3>2. CASE s = p
      <4>1. w2[p] = Dir
        <5>1. CASE p \in DOMAIN w1 BY <1>7, <3>1, <3>2, <5>1
        <5>2. CASE p \notin DOMAIN w1 BY <1>2, <1>6, <5>2
        <5> QED BY <5>1, <5>2
      <4> QED BY <1>6, <3>2, <4>1
    <3>3. CASE s # p BY <1>5, <3>1, <3>3
    <3> QED BY <3>2, <3>3
  <2>2. ASSUME NEW s \in Path, OnTheWay(s, N)
        PROVE  /\ s \in DOMAIN w2 => s \in DOMAIN u /\ u[s].dir = w2[s].dir
               /\ s \in DOMAIN u /\ s \notin DOMAIN w2 => u[s].dir
    <3>1. /\ s \in DOMAIN w1 => s \in DOMAIN v /\ v[s].dir = w1[s].dir
          /\ s \in DOMAIN v /\ s \notin DOMAIN w1 => v[s].dir
      BY <1>4, <2>2 DEF Sees
    <3>2. CASE s = p
      <4>1. Dir.dir = TRUE BY DEF Dir
      <4>2. w2[p].dir = TRUE
        <5>1. CASE p \in DOMAIN w1 BY <1>7, <3>1, <3>2, <4>1, <5>1
        <5>2. CASE p \notin DOMAIN w1 BY <1>2, <1>6, <4>1, <5>2
        <5> QED BY <5>1, <5>2
      <4> QED BY <1>6, <3>2, <4>1, <4>2
    <3>3. CASE s # p BY <1>5, <3>1, <3>3
    <3> QED BY <3>2, <3>3
  <2> QED BY <2>1, <2>2 DEF Sees
<1> QED BY <1>8 DEF w2

\* the view of a directory more
LEMMA ViewWithDir ==
  ASSUME IsTree(tree), NEW p \in Path, tree' = With(tree, p, DirIno), data' = data
  PROVE  /\ DOMAIN View' = DOMAIN View \cup {p} /\ View'[p] = Dir
         /\ \A s \in DOMAIN View : s # p => View'[s] = View[s]
BY ViewIsOf DEF With, ViewOf, Dir

StepsDown(d, m, a, p) ==
  /\ p \in Path /\ IsPrefix(p, d) /\ (m + 1 = Len(d) => p = d) /\ p # Root
  /\ Parent(p) = a /\ a \in Path /\ IsPrefix(a, d) /\ IsPrefix(a, p)

LEMMA NextDown ==
  ASSUME NEW d \in Path, NEW m \in Nat, m + 1 <= Len(d)
  PROVE  StepsDown(d, m, SubSeq(d, 1, m), SubSeq(d, 1, m + 1))
<1> DEFINE n == m + 1  a == SubSeq(d, 1, m)  p == SubSeq(d, 1, n)
<1>1. d \in Seq(Name) /\ Len(d) \in Nat BY FsAssumption, LenProperties
<1>2. n \in Nat /\ m <= Len(d) /\ n <= Len(d) /\ n # 0 /\ n - 1 = m BY <1>1
<1>3. IsDownTo(d, m, a) BY <1>2, DownTo
<1> HIDE DEF n
<1>4. IsDownTo(d, n, p) BY <1>2, DownTo
<1> HIDE DEF a, p
<1>5. /\ p \in Path /\ IsPrefix(p, d) /\ Len(p) = n /\ (n = Len(d) => p = d)
      /\ a \in Path /\ IsPrefix(a, d) /\ Len(Root) = 0
  BY <1>3, <1>4 DEF IsDownTo, Root
<1>6. p # Root BY <1>2, <1>5
<1>7. p \in Seq(Name) /\ p # <<>> BY <1>5, <1>6, FsAssumption DEF Root
<1>8. Len(Parent(p)) = Len(p) - 1 BY <1>7, ParentIsAbove
<1>9. Parent(p) \in Path /\ IsPrefix(Parent(p), p) /\ IsPrefix(Parent(p), d)
  BY <1>5, <1>6, PathParent, PathOrder
<1>10. Len(Parent(p)) = m BY <1>2, <1>5, <1>8
<1>11. Parent(p) = SubSeq(d, 1, Len(Parent(p))) BY <1>3, <1>9 DEF IsDownTo
<1>12. Parent(p) = a BY <1>10, <1>11 DEF a
<1>13. m + 1 = n BY DEF n
<1>14. StepsDown(d, m, a, p) BY <1>5, <1>6, <1>9, <1>12, <1>13 DEF StepsDown
<1> QED BY <1>14 DEF a, p, n

LEMMA MkdirPromise ==
  ASSUME TreeInv, TreeInv', ReachInv, ReaderInv, PromiseInv, NEW c \in Client, Mkdir(c)
  PROVE  PromiseInv'
<1>1. Spares(c) BY ChangeSpares
<1> SUFFICES ASSUME base[c] # NoView, ~CopiesOntoItself(req[c])
             PROVE  PromiseOK(View', tree', same'[c], base[c], pc'[c], req[c], job'[c], answer'[c])
  BY <1>1, PromiseStepOf
<1> DEFINE b == base[c]  r == req[c]  j == job[c]  v == View  N == Named(r)
           m == j.depth  d == j.depth + 1  D == j.dir  p == SubSeq(D, 1, d)  a == SubSeq(D, 1, m)
<1>2. /\ pc[c] = "mkdir" /\ data' = data
      /\ \/ ~IsDir(Parent(p)) \/ IsFile(p)
         \/ /\ tree' = With(tree, p, DirIno)
            /\ \/ d = Len(D) /\ MadeDirs(c)
               \/ /\ d # Len(D) /\ job' = [job EXCEPT ![c].depth = d]
                  /\ UNCHANGED <<pc, answer>>
  BY DEF Mkdir
<1>3. /\ PromiseOK(v, tree, same[c], b, "mkdir", r, j, answer[c])
      /\ Whole(b) /\ Whole(v) /\ DOMAIN v = DOMAIN tree /\ AtOp("mkdir", r) /\ JobOK(j)
      /\ d <= Len(D) /\ d \in Nat /\ m \in Nat /\ N \subseteq Path /\ InHand(r, j)
  BY <1>2, OwnFacts, MkdirPath DEF JobOK
<1>4. r.op \in Changes BY <1>3, UnderWay
<1>5. PICK w : Doing(b, r, j, w) /\ Whole(w) /\ Making(v, w, "mkdir", j, N)
  BY <1>3, UnderWay
<1>6. D \in Path /\ OnTheWay(D, N) BY <1>3, <1>4, HandOnTheWay
<1>7. /\ p \in Path /\ IsPrefix(p, D) /\ (d = Len(D) => p = D) /\ p # Root
      /\ Parent(p) = a /\ a \in Path /\ IsPrefix(a, D) /\ IsPrefix(a, p)
  <2>1. SubSeq(D, 1, d) = SubSeq(D, 1, m + 1) /\ m + 1 <= Len(D) BY <1>3
  <2> HIDE DEF D, m, d, a, p
  <2>2. StepsDown(D, m, SubSeq(D, 1, m), SubSeq(D, 1, m + 1)) BY <1>3, <1>6, <2>1, NextDown
  <2>3. StepsDown(D, m, a, p) BY <2>1, <2>2 DEF a, p
  <2>4. d = m + 1 BY DEF d, m
  <2> QED BY <2>3, <2>4 DEF StepsDown
<1>8. Sees(v, WithDirs(w, a), N) /\ ~Blocked(w, D) BY <1>5 DEF Making
<1>9. \A s \in DOMAIN tree : v[s] = (IF IsDir(s) THEN Dir ELSE v[s]) /\ v[s].dir = IsDir(s)
  BY ViewIs DEF TreeInv, View, IsDir
<1> HIDE DEF D, p, a, d, m, v
<1>10. OnTheWay(a, N) /\ OnTheWay(p, N) BY <1>3, <1>6, <1>7, PathOrder DEF OnTheWay
<1>11. \A s \in DOMAIN w : IsPrefix(s, D) => w[s].dir BY <1>8 DEF Blocked
<1>12. /\ a \in DOMAIN WithDirs(w, a) /\ WithDirs(w, a)[a].dir
       /\ p \in DOMAIN WithDirs(w, a) => WithDirs(w, a)[p].dir
  <2>1. IsPrefix(a, a) /\ Dir.dir BY <1>7, PathOrder DEF Dir
  <2> QED BY <1>7, <1>11, <2>1 DEF WithDirs
<1>13. a \in DOMAIN v /\ v[a].dir
  BY <1>7, <1>8, <1>10, <1>12 DEF Sees
<1>14. p \in DOMAIN v => v[p].dir
  BY <1>7, <1>8, <1>10, <1>12 DEF Sees
<1>15. IsDir(Parent(p)) /\ ~IsFile(p)
  BY <1>3, <1>7, <1>9, <1>13, <1>14 DEF IsDir, IsFile
<1>16. tree' = With(tree, p, DirIno) BY <1>2, <1>15
<1>17. Sees(View', WithDirs(w, p), N)
  <2>1. /\ DOMAIN View' = DOMAIN v \cup {p} /\ View'[p] = Dir
        /\ \A s \in DOMAIN v : s # p => View'[s] = v[s]
    BY <1>2, <1>7, <1>16, ViewWithDir DEF TreeInv, v
  <2>2. p \in DOMAIN v => v[p] = Dir BY <1>3, <1>9, <1>14
  <2>3. p \in DOMAIN w => w[p].dir BY <1>7, <1>11
  <2> QED BY <1>3, <1>7, <1>8, <2>1, <2>2, <2>3, MadeOne
<1>18. \A s \in DOMAIN tree : s \in DOMAIN tree' /\ tree'[s] = tree[s]
  BY <1>15, <1>16 DEF With, IsFile
<1>19. CASE d = Len(D) /\ MadeDirs(c)
  <2>1. Sees(View', WithDirs(w, job[c].dir), N) /\ ~Blocked(w, job[c].dir) BY <1>7, <1>8, <1>17, <1>19 DEF D
  <2> QED BY <1>2, <1>5, <1>18, <1>19, <2>1, MadeDirsPromise
<1>20. CASE d # Len(D) /\ job' = [job EXCEPT ![c].depth = d] /\ UNCHANGED <<pc, answer>>
  <2>1. /\ job'[c].depth = d
        /\ job'[c].at = j.at /\ job'[c].dir = D /\ job'[c].more = j.more /\ job'[c].buf = j.buf
        /\ job'[c].src = j.src
    BY <1>3, <1>20 DEF TreeInv, JobOK, NoJob, D
  <2>2. Making(View', w, "mkdir", job'[c], N) BY <1>8, <1>17, <2>1 DEF Making, p
  <2>3. PromiseOK(View', tree', same'[c], b, "mkdir", r, job'[c], answer[c])
    BY <1>2, <1>5, <1>18, <2>1, <2>2, GoesOn DEF D
  <2> QED BY <1>2, <1>20, <2>3
<1> QED BY <1>2, <1>15, <1>19, <1>20

-------------------------------------------------------------------------------
(* The file that is written *)

\* the directories that have been made are there
LEMMA WayIsMade ==
  ASSUME NEW v, NEW w, NEW N, N \subseteq Path, NEW d \in Path, OnTheWay(d, N),
         Sees(v, WithDirs(w, d), N), ~Blocked(w, d)
  PROVE  d \in DOMAIN v /\ v[d].dir
<1>1. IsPrefix(d, d) /\ Dir.dir BY PathOrder DEF Dir
<1>2. d \in DOMAIN w => w[d].dir BY <1>1 DEF Blocked
<1>3. d \in DOMAIN WithDirs(w, d) /\ WithDirs(w, d)[d].dir BY <1>1, <1>2 DEF WithDirs
<1> HIDE DEF Dir
<1> QED BY <1>3 DEF Sees

LEMMA SeesAlike ==
  ASSUME NEW v, NEW w, NEW u, NEW N, Sees(v, w, N), DOMAIN u = DOMAIN w, \A s \in DOMAIN w : u[s] = w[s]
  PROVE  Sees(v, u, N)
BY DEF Sees

\* where there is something already, no directories are missing
LEMMA NoDirsMissing ==
  ASSUME NEW w, Whole(w), NEW p \in DOMAIN w
  PROVE  /\ DOMAIN w = DOMAIN WithDirs(w, Parent(p)) /\ \A s \in DOMAIN w : WithDirs(w, Parent(p))[s] = w[s]
         /\ ~Blocked(w, Parent(p))
<1>1. p \in Path /\ Root \in DOMAIN w /\ w[Root] = Dir /\ DOMAIN w \subseteq Path BY DEF Whole, IsView
<1>2. ASSUME NEW q \in Path, IsPrefix(q, Parent(p)) PROVE q \in DOMAIN w /\ w[q] = Dir
  <2>1. CASE p = Root BY <1>1, <1>2, <2>1, PathParent, PathOrder
  <2>2. CASE p # Root
    <3>1. Parent(p) \in Path /\ IsPrefix(Parent(p), p) /\ Parent(p) # p BY <1>1, <2>2, PathParent
    <3>2. IsPrefix(q, p) /\ q # p BY <1>1, <1>2, <3>1, PathOrder
    <3> QED BY <1>1, <3>2 DEF Whole, IsView
  <2> QED BY <2>1, <2>2
<1>3. DOMAIN w = DOMAIN WithDirs(w, Parent(p)) /\ \A s \in DOMAIN w : WithDirs(w, Parent(p))[s] = w[s]
  BY <1>2 DEF WithDirs
<1>4. ~Blocked(w, Parent(p))
  <2>1. \A q \in DOMAIN w : IsPrefix(q, Parent(p)) => w[q] = Dir BY <1>1, <1>2
  <2> QED BY <2>1 DEF Blocked, Dir
<1> QED BY <1>3, <1>4

LEMMA WayIsThere ==
  ASSUME NEW v, NEW w, NEW N, Whole(w), NEW p \in DOMAIN w, Sees(v, WithDirs(w, Parent(p)), N)
  PROVE  Sees(v, w, N)
<1>1. DOMAIN w = DOMAIN WithDirs(w, Parent(p)) /\ \A s \in DOMAIN w : WithDirs(w, Parent(p))[s] = w[s]
  BY NoDirsMissing
<1> HIDE DEF WithDirs
<1> QED BY <1>1, SeesAlike

LEMMA SeesPlaced ==
  ASSUME NEW v, NEW w, NEW N, Sees(v, w, N), NEW p, NEW f,
         NEW u, DOMAIN u = DOMAIN v \cup {p}, u[p] = f, \A s \in DOMAIN v : s # p => u[s] = v[s]
  PROVE  Sees(u, With(w, p, f), N)
<1> DEFINE x == With(w, p, f)
<1>1. /\ DOMAIN x = DOMAIN w \cup {p} /\ x[p] = f /\ \A s \in DOMAIN w : s # p => x[s] = w[s]
  BY DEF With
<1> HIDE DEF x
<1>2. Sees(u, x, N) BY <1>1 DEF Sees
<1> QED BY <1>2 DEF x

\* the view with another content in one file
LEMMA ViewWithFile ==
  ASSUME IsTree(tree), data \in [Ino -> Seq(Blocks)], NEW p \in Path, NEW i \in Ino,
         tree' = With(tree, p, i), NEW t, data' = [data EXCEPT ![i] = t],
         \A s \in DOMAIN tree : s # p => tree[s] # i
  PROVE  /\ DOMAIN View' = DOMAIN View \cup {p} /\ View'[p] = File(t)
         /\ \A s \in DOMAIN View : s # p => View'[s] = View[s]
<1>1. View = ViewOf(tree, data) /\ View' = ViewOf(tree', data') BY ViewIsOf
<1>2. i # DirIno BY FsAssumption
<1>3. /\ DOMAIN tree' = DOMAIN tree \cup {p} /\ tree'[p] = i
      /\ \A s \in DOMAIN tree : s # p => tree'[s] = tree[s]
  BY DEF With
<1>4. data'[i] = t /\ \A k \in Ino : k # i => data'[k] = data[k] OBVIOUS
<1>5. \A s \in DOMAIN tree : tree[s] \in Ino \cup {DirIno} BY DEF IsTree
<1>6. /\ DOMAIN ViewOf(tree, data) = DOMAIN tree /\ DOMAIN ViewOf(tree', data') = DOMAIN tree'
      /\ \A s \in DOMAIN tree : ViewOf(tree, data)[s] = IF tree[s] = DirIno THEN Dir ELSE File(data[tree[s]])
      /\ \A s \in DOMAIN tree' : ViewOf(tree', data')[s] = IF tree'[s] = DirIno THEN Dir ELSE File(data'[tree'[s]])
  BY DEF ViewOf
<1>7. ViewOf(tree', data')[p] = File(t)
  <2>1. p \in DOMAIN tree' BY <1>3
  <2>2. ViewOf(tree', data')[p] = IF tree'[p] = DirIno THEN Dir ELSE File(data'[tree'[p]])
    BY <1>6, <2>1
  <2>3. ViewOf(tree', data')[p] = File(data'[i]) BY <1>2, <1>3, <2>2
  <2>4. data'[i] = t BY <1>4
  <2> QED BY <2>3, <2>4
<1>8. ASSUME NEW s \in DOMAIN tree, s # p
      PROVE  ViewOf(tree', data')[s] = ViewOf(tree, data)[s]
  <2>1. tree'[s] = tree[s] /\ s \in DOMAIN tree' BY <1>3, <1>8
  <2>2. tree[s] # DirIno => data'[tree[s]] = data[tree[s]] BY <1>4, <1>5, <1>8
  <2> QED BY <1>6, <2>1, <2>2
<1> QED BY <1>1, <1>3, <1>6, <1>7, <1>8

LEMMA OpenPromise ==
  ASSUME TreeInv, TreeInv', ReachInv, ReaderInv, PromiseInv, NEW c \in Client, Open(c)
  PROVE  PromiseInv'
<1>1. Spares(c) BY ChangeSpares
<1> SUFFICES ASSUME base[c] # NoView, ~CopiesOntoItself(req[c])
             PROVE  PromiseOK(View', tree', same'[c], base[c], pc'[c], req[c], job'[c], answer'[c])
  BY <1>1, PromiseStepOf
<1> DEFINE b == base[c]  r == req[c]  j == job[c]  v == View  N == Named(r)  p == j.at  D == j.dir
<1>2. /\ pc[c] = "open"
      /\ \/ /\ IsDir(p) \/ ~IsDir(Parent(p))
            /\ Finish(c, IF IsDir(p) THEN "error" ELSE Missing(View, p))
            /\ tree' = tree /\ data' = data
         \/ /\ IsDir(Parent(p)) /\ ~IsDir(p)
            /\ \E i \in IF IsFile(p) THEN {tree[p]} ELSE Ino \ InUse :
                 /\ tree' = With(tree, p, i)
                 /\ data' = Truncated(i)
                 /\ job' = [job EXCEPT ![c].fd = i]
            /\ Goto(c, "fill") /\ UNCHANGED answer
  BY DEF Open
<1>3. /\ PromiseOK(v, tree, same[c], b, "open", r, j, answer[c])
      /\ Whole(b) /\ Whole(v) /\ DOMAIN v = DOMAIN tree /\ AtOp("open", r) /\ JobOK(j)
      /\ N \subseteq Path /\ InHand(r, j) /\ Asked(r)
  BY <1>2, OwnFacts, JobOf
<1>4. r.op \in Writes BY <1>3 DEF AtOp, Writes
<1>5. PICK w : Doing(b, r, j, w) /\ Whole(w) /\ Making(v, w, "open", j, N)
  BY <1>3, UnderWay
<1>6. p \in Path /\ p \in N /\ D = Parent(p) /\ D \in Path /\ OnTheWay(D, N)
  BY <1>3, <1>4, HandOnTheWay DEF Writes, Changes
<1>7. Sees(v, WithDirs(w, D), N) /\ ~Blocked(w, D) BY <1>5 DEF Making
<1>8. D \in DOMAIN v /\ v[D].dir BY <1>3, <1>6, <1>7, WayIsMade
<1>9. /\ r.op = "copy" => r.path \in DOMAIN b /\ p = r.to /\ j.more = <<>>
                          /\ r.path \in DOMAIN tree /\ tree[r.path] = j.src
      /\ r.op = "patch" => Promise(b, r) = Put(b, r.path, j.buf) /\ p = r.path /\ j.more = <<>>
  BY <1>3, UnderWay
<1>10. \A s \in DOMAIN tree : v[s].dir = IsDir(s)
  BY ViewIs DEF TreeInv
<1>11. IsDir(Parent(p)) BY <1>3, <1>6, <1>8, <1>10
<1>12. Below(p, N) BY <1>6, PathOrder DEF Below
<1> HIDE DEF v
<1>13. p \in DOMAIN w /\ w[p].dir <=> IsDir(p)
  <2> DEFINE x == WithDirs(w, D)
  <2>1. (p \in DOMAIN v <=> p \in DOMAIN x) /\ (p \in DOMAIN x => v[p] = x[p])
    BY <1>6, <1>7, <1>12 DEF Sees
  <2>2. p \in DOMAIN w => p \in DOMAIN x /\ x[p] = w[p] BY DEF WithDirs
  <2>3. ASSUME p \notin DOMAIN w PROVE p \notin DOMAIN x
    <3>1. p # Root BY <1>5, <2>3 DEF Whole
    <3>2. IsPrefix(D, p) /\ D # p BY <1>6, <3>1, PathParent
    <3>3. ~IsPrefix(p, D) BY <1>6, <3>2, PathOrder
    <3> QED BY <2>3, <3>3 DEF WithDirs
  <2> HIDE DEF x
  <2> QED BY <1>3, <1>10, <2>1, <2>2, <2>3 DEF IsDir
<1>14. CASE IsDir(p)
  <2>1. Finish(c, "error") /\ tree' = tree /\ data' = data BY <1>2, <1>14
  <2>2. Sees(v, w, N) BY <1>5, <1>6, <1>7, <1>13, <1>14, WayIsThere
  <2>3. Promise(b, r) = Outcome("error", w)
    <3> HIDE DEF r, j, b, p, D
    <3>1. p = j.at BY DEF p
    <3> QED BY <1>3, <1>4, <1>5, <1>9, <1>13, <1>14, <3>1, CannotPut
  <2>4. r.op \notin Reads BY <1>4 DEF Writes, Reads
  <2>5. View' = v BY <2>1 DEF View, v
  <2>6. PromiseOK(v, tree, same'[c], b, pc'[c], r, job'[c], answer'[c])
    BY <1>3, <2>1, <2>2, <2>3, <2>4, Done
  <2> QED BY <2>1, <2>5, <2>6
<1>15. CASE ~IsDir(p)
  <2>1. PICK i \in (IF IsFile(p) THEN {tree[p]} ELSE Ino \ InUse) :
          /\ tree' = With(tree, p, i) /\ data' = Truncated(i) /\ job' = [job EXCEPT ![c].fd = i]
    BY <1>2, <1>11, <1>15
  <2>2. Goto(c, "fill") /\ answer' = answer BY <1>2, <1>15, <1>11
  <2>3. i \in Ino /\ \A s \in DOMAIN tree : s # p => tree[s] # i
    <3>1. CASE IsFile(p)
      <4>1. i = tree[p] /\ p \in DOMAIN tree /\ tree[p] # DirIno BY <2>1, <3>1 DEF IsFile
      <4> QED BY <4>1 DEF TreeInv, IsTree
    <3>2. CASE ~IsFile(p)
      <4>1. i \in Ino /\ i \notin Range(tree) BY <2>1, <3>2 DEF InUse
      <4> QED BY <4>1 DEF Range
    <3> QED BY <3>1, <3>2
  <2>4. /\ DOMAIN View' = DOMAIN v \cup {p} /\ View'[p] = File(<<>>)
        /\ \A s \in DOMAIN v : s # p => View'[s] = v[s]
    BY <1>6, <2>1, <2>3, ViewWithFile DEF TreeInv, Truncated, v
  <2>5. Sees(View', With(WithDirs(w, D), p, File(<<>>)), N) BY <1>7, <2>4, SeesPlaced
  <2>6. /\ job'[c].fd = i /\ job'[c].at = p /\ job'[c].dir = D /\ job'[c].more = j.more
        /\ job'[c].buf = j.buf /\ job'[c].src = j.src
    BY <1>3, <2>1 DEF TreeInv, JobOK, NoJob
  <2>7. pc'[c] = "fill" BY <2>2 DEF Goto, TreeInv
  <2>8. /\ p \in DOMAIN tree' /\ tree'[p] = i
        /\ \A s \in DOMAIN tree : s # p => s \in DOMAIN tree' /\ tree'[s] = tree[s]
    BY <2>1 DEF With
  <2> DEFINE k == job'[c]
  <2> HIDE DEF k, b, r, j, p, D, N
  <2>9. Writing(View', tree', w, "fill", k, N)
    BY <1>5, <1>7, <1>13, <1>15, <2>5, <2>6, <2>8 DEF Writing, Making, k
  <2>10. Doing(b, r, k, w) BY <1>5, <2>6 DEF Doing, k, p, j
  <2>11. r.op = "copy" => r.path # p BY <1>9 DEF r, CopiesOntoItself
  <2>12. /\ r.op = "copy" => r.path \in DOMAIN b /\ r.path \in DOMAIN tree' /\ tree'[r.path] = k.src
         /\ r.op = "patch" => Promise(b, r) = Put(b, r.path, k.buf)
         /\ r.op \in {"patch", "copy", "move"} =>
              k.at = (IF r.op = "patch" THEN r.path ELSE r.to) /\ (r.op # "move" => k.more = <<>>)
    BY <1>4, <1>9, <2>6, <2>8, <2>11 DEF Writes, k
  <2>13. r.op \in Changes /\ r.op \notin {"mkdir", "move"} BY <1>4 DEF Writes, Changes
  <2>14. PromiseOK(View', tree', same'[c], b, "fill", r, k, answer'[c])
    BY <1>3, <2>9, <2>10, <2>12, <2>13, StillUnderWay DEF N
  <2> QED BY <2>7, <2>14 DEF k, b, r
<1> QED BY <1>14, <1>15

LEMMA OverlayOnNothing ==
  ASSUME NEW S, NEW t \in Seq(S)
  PROVE  Overlay(t, <<>>) = t
<1>1. Len(t) \in Nat /\ Len(<<>>) = 0 BY LenProperties, EmptySeq
<1> DEFINE m == Len(t) + 1  n == Len(<<>>)
<1>2. m \in Int /\ n \in Int /\ n < m BY <1>1
<1> HIDE DEF m, n
<1>3. SubSeq(<<>>, m, n) = <<>> BY <1>2, SubSeqEmpty
<1>4. t \o <<>> = t BY ConcatEmptySeq
<1> QED BY <1>3, <1>4 DEF Overlay, m, n

\* a view that has one file more is a whole view
LEMMA WholePlaced ==
  ASSUME NEW w, Whole(w), NEW p \in Path, ~Blocked(w, Parent(p)), ~(p \in DOMAIN w /\ w[p].dir), NEW t
  PROVE  Whole(With(WithDirs(w, Parent(p)), p, File(t)))
<1> DEFINE x == With(WithDirs(w, Parent(p)), p, File(t))
<1>1. p # Root BY DEF Whole, Dir
<1>2. /\ Parent(p) \in Path /\ IsPrefix(Parent(p), p) /\ Parent(p) # p
      /\ \A q \in Path : IsPrefix(q, p) /\ q # p => IsPrefix(q, Parent(p))
      /\ \A q \in Path : IsPrefix(q, Parent(p)) => q # p
  BY <1>1, PathParent, PathOrder
<1>3. /\ \A s \in Path : s \in DOMAIN x <=> s \in DOMAIN w \/ IsPrefix(s, Parent(p)) \/ s = p
      /\ DOMAIN x \subseteq Path
      /\ x[p] = File(t) /\ \A s \in DOMAIN w : s # p => x[s] = w[s]
      /\ \A s \in DOMAIN x : s # p /\ s \notin DOMAIN w => x[s] = Dir
  BY DEF With, WithDirs, Whole, IsView
<1> HIDE DEF x
<1>4. Dir.dir = TRUE /\ File(t).dir = FALSE BY DEF Dir, File
<1>5. DOMAIN w \subseteq Path /\ \A s \in DOMAIN w : w[s].dir \in BOOLEAN /\ (w[s].dir => w[s] = Dir)
  BY DEF Whole, IsView
<1>6. \A s \in DOMAIN x : x[s].dir \in BOOLEAN /\ (x[s].dir => x[s] = Dir)
  <2> TAKE s \in DOMAIN x
  <2>1. CASE s = p BY <1>3, <1>4, <2>1
  <2>2. CASE s # p /\ s \in DOMAIN w BY <1>3, <1>5, <2>2
  <2>3. CASE s # p /\ s \notin DOMAIN w BY <1>3, <1>4, <2>3
  <2> QED BY <2>1, <2>2, <2>3
<1>7. ASSUME NEW q \in Path, IsPrefix(q, Parent(p)) PROVE q \in DOMAIN x /\ x[q] = Dir
  <2>1. q \in DOMAIN x /\ q # p BY <1>2, <1>3, <1>7
  <2>2. q \in DOMAIN w => w[q] = Dir BY <1>5, <1>7 DEF Blocked
  <2> QED BY <1>3, <2>1, <2>2
<1>8. ASSUME NEW s \in DOMAIN x, NEW q \in Path, IsPrefix(q, s), q # s
      PROVE  q \in DOMAIN x /\ x[q] = Dir
  <2>1. CASE s = p BY <1>2, <1>7, <1>8, <2>1
  <2>2. CASE s \in DOMAIN w
    <3>1. q \in DOMAIN w /\ w[q] = Dir BY <1>8, <2>2 DEF Whole, IsView
    <3>2. q # p BY <1>4, <3>1
    <3> QED BY <1>3, <3>1, <3>2
  <2>3. CASE IsPrefix(s, Parent(p))
    <3>1. IsPrefix(q, Parent(p)) BY <1>2, <1>3, <1>8, <2>3, PathOrder
    <3> QED BY <1>7, <3>1
  <2>4. s \in Path BY <1>3
  <2>5. s \in DOMAIN w \/ IsPrefix(s, Parent(p)) \/ s = p BY <1>3, <2>4
  <2> QED BY <2>1, <2>2, <2>3, <2>5
<1>9. Root \in DOMAIN x /\ x[Root] = Dir
  <2>1. Root \in DOMAIN w /\ w[Root] = Dir /\ Root \in Path BY PathParent DEF Whole
  <2> QED BY <1>1, <1>3, <2>1
<1>10. Whole(x) BY <1>3, <1>6, <1>8, <1>9 DEF Whole, IsView
<1> QED BY <1>10 DEF x

LEMMA WholeAlike ==
  ASSUME NEW w, NEW u, Whole(w), DOMAIN u = DOMAIN w, \A s \in DOMAIN w : u[s] = w[s]
  PROVE  Whole(u)
BY DEF Whole, IsView

\* one more of the files
LEMMA NextOfFiles ==
  ASSUME NEW v, NEW ps, NEW k \in Nat, k # 0, NEW t, NEW w, w = WithFiles(v, ps, k - 1, t),
         NEW x, x = With(WithDirs(w, Parent(ps[k])), ps[k], File(t))
  PROVE  DOMAIN WithFiles(v, ps, k, t) = DOMAIN x /\ \A s \in DOMAIN x : WithFiles(v, ps, k, t)[s] = x[s]
<1> DEFINE old  == {ps[i] : i \in 1 .. k - 1}  new == {ps[i] : i \in 1 .. k}
           odir == {q \in Path : \E p \in old : IsPrefix(q, Parent(p))}
           ndir == {q \in Path : \E p \in new : IsPrefix(q, Parent(p))}
           kdir == {q \in Path : IsPrefix(q, Parent(ps[k]))}
           y == WithFiles(v, ps, k, t)  w1 == WithDirs(w, Parent(ps[k]))
<1>1. new = old \cup {ps[k]}
  <2>1. \A i : i \in 1 .. k <=> i \in 1 .. k - 1 \/ i = k OBVIOUS
  <2> QED BY <2>1
<1>2. ndir = odir \cup kdir
  <2> HIDE DEF new, old
  <2> QED BY <1>1
<1>3. /\ DOMAIN w = DOMAIN v \cup old \cup odir
      /\ \A q \in DOMAIN w : w[q] = IF q \in old THEN File(t) ELSE IF q \in DOMAIN v THEN v[q] ELSE Dir
  BY DEF WithFiles
<1>4. /\ DOMAIN y = DOMAIN v \cup new \cup ndir
      /\ \A q \in DOMAIN y : y[q] = IF q \in new THEN File(t) ELSE IF q \in DOMAIN v THEN v[q] ELSE Dir
  BY DEF WithFiles
<1>5. /\ DOMAIN w1 = DOMAIN w \cup kdir
      /\ \A q \in DOMAIN w1 : w1[q] = IF q \in DOMAIN w THEN w[q] ELSE Dir
  BY DEF WithDirs
<1> HIDE DEF old, new, odir, ndir, kdir, y, w1
<1>6. /\ DOMAIN x = DOMAIN w1 \cup {ps[k]} /\ x[ps[k]] = File(t)
      /\ \A q \in DOMAIN w1 : q # ps[k] => x[q] = w1[q]
  BY DEF With, w1
<1>7. DOMAIN y = DOMAIN x BY <1>1, <1>2, <1>3, <1>4, <1>5, <1>6
<1>8. ASSUME NEW s \in DOMAIN x PROVE y[s] = x[s]
  <2>1. CASE s = ps[k] BY <1>1, <1>4, <1>6, <1>7, <2>1
  <2>2. CASE s # ps[k]
    <3>1. s \in DOMAIN w1 /\ x[s] = w1[s] /\ (s \in new <=> s \in old) BY <1>1, <1>6, <2>2
    <3> QED BY <1>3, <1>4, <1>5, <1>7, <3>1
  <2> QED BY <2>1, <2>2
<1> QED BY <1>7, <1>8 DEF y

\* what a request writes
Bytes(c) ==
  IF req[c].op # "copy" THEN job[c].buf
  ELSE IF job[c].src = DirIno THEN <<>> ELSE data[job[c].src]

LEMMA Filled ==
  ASSUME TreeInv, ReachInv, PromiseInv, NEW c \in Client, base[c] # NoView, ~CopiesOntoItself(req[c]),
         Fill(c), NEW w, Whole(w), Writing(View, tree, w, "fill", job[c], Named(req[c])),
         job[c].at \in Named(req[c])
  PROVE  Sees(View', With(WithDirs(w, job[c].dir), job[c].at, File(Bytes(c))), Named(req[c]))
<1> DEFINE v == View  N == Named(req[c])  p == job[c].at  i == job[c].fd  t == Bytes(c)
           w1 == WithDirs(w, job[c].dir)
<1>1. /\ pc[c] = "fill" /\ tree' = tree /\ data' = [data EXCEPT ![i] = Overlay(t, @)]
  BY DEF Fill, Bytes
<1>2. JobOK(job[c]) /\ N \subseteq Path /\ IsTree(tree) /\ data \in [Ino -> Seq(Blocks)]
  BY OwnFacts DEF TreeInv
<1>3. i # DirIno BY <1>1 DEF ReachInv, WorksIn
<1>4. i \in Ino /\ p \in Path BY <1>2, <1>3 DEF JobOK
<1>5. p \in DOMAIN tree /\ tree[p] = i /\ Sees(v, With(w1, p, File(<<>>)), N) BY DEF Writing
<1>6. Below(p, N) BY <1>4, PathOrder DEF Below
<1>7. p \in DOMAIN With(w1, p, File(<<>>)) /\ With(w1, p, File(<<>>))[p] = File(<<>>) BY DEF With
<1>8. v[p] = File(<<>>) BY <1>4, <1>5, <1>6, <1>7 DEF Sees
<1>9. v[p] = File(data[i]) BY <1>3, <1>5 DEF View
<1>10. data[i] = <<>> BY <1>8, <1>9 DEF File
<1>11. t \in Seq(Blocks)
  <2>1. job[c].buf \in Seq(Blocks) /\ job[c].src \in Ino \cup {DirIno} BY <1>2 DEF JobOK
  <2>2. <<>> \in Seq(Blocks) BY EmptySeq
  <2> QED BY <1>2, <2>1, <2>2 DEF Bytes
<1> HIDE DEF t, i, v, p
<1>12. Overlay(t, data[i]) = t BY <1>10, <1>11, OverlayOnNothing
<1>13. data' = [data EXCEPT ![i] = t] BY <1>1, <1>12
<1>14. tree' = With(tree, p, i)
  <2>1. tree = [s \in DOMAIN tree |-> tree[s]] BY <1>2 DEF IsTree
  <2>2. DOMAIN With(tree, p, i) = DOMAIN tree /\ \A s \in DOMAIN tree : With(tree, p, i)[s] = tree[s]
    BY <1>5 DEF With
  <2>3. With(tree, p, i) = [s \in DOMAIN With(tree, p, i) |-> With(tree, p, i)[s]] BY DEF With
  <2>4. With(tree, p, i) = tree BY <2>1, <2>2, <2>3
  <2> QED BY <1>1, <2>4
<1>15. \A s \in DOMAIN tree : s # p => tree[s] # i BY <1>2, <1>3, <1>5 DEF IsTree
<1>16. /\ DOMAIN View' = DOMAIN v \cup {p} /\ View'[p] = File(t)
       /\ \A s \in DOMAIN v : s # p => View'[s] = v[s]
  BY <1>2, <1>4, <1>13, <1>14, <1>15, ViewWithFile DEF v
<1> DEFINE x == With(w1, p, File(<<>>))  y == With(w1, p, File(t))
<1>17. Sees(View', With(x, p, File(t)), N) BY <1>5, <1>16, SeesPlaced
<1>18. DOMAIN y = DOMAIN With(x, p, File(t)) /\ \A s \in DOMAIN With(x, p, File(t)) : y[s] = With(x, p, File(t))[s]
  BY DEF With
<1> HIDE DEF x, y
<1>19. Sees(View', y, N) BY <1>17, <1>18, SeesAlike
<1> QED BY <1>19 DEF y, w1, N, p, t

\* one of the files of an upload has been written
LEMMA FileFits ==
  ASSUME NEW b, NEW ps, Len(ps) \in Nat, NEW k \in 1 .. Len(ps), NEW t, NEW w, w = WithFiles(b, ps, k - 1, t),
         AllFit(b, ps, k - 1, t), Whole(w), ps[k] \in Path,
         ~Blocked(w, Parent(ps[k])), ~(ps[k] \in DOMAIN w /\ w[ps[k]].dir),
         NEW v, NEW N, Sees(v, With(WithDirs(w, Parent(ps[k])), ps[k], File(t)), N)
  PROVE  /\ AllFit(b, ps, k, t) /\ Whole(WithFiles(b, ps, k, t))
         /\ Sees(v, WithFiles(b, ps, k, t), N)
<1> DEFINE x == With(WithDirs(w, Parent(ps[k])), ps[k], File(t))  y == WithFiles(b, ps, k, t)
<1>1. k \in Nat /\ k # 0 OBVIOUS
<1>2. DOMAIN y = DOMAIN x /\ \A s \in DOMAIN x : y[s] = x[s] BY <1>1, NextOfFiles
<1>3. Whole(x) BY WholePlaced
<1> HIDE DEF x, y
<1>4. Whole(y) BY <1>2, <1>3, WholeAlike
<1>5. Sees(v, x, N) BY DEF x
<1>6. Sees(v, y, N) BY <1>2, <1>5, SeesAlike
<1>7. Put(w, ps[k], t).status = "ok"
  <2>1. Put(w, ps[k], t) = Outcome("ok", x) BY PutIs DEF x
  <2> QED BY <2>1 DEF Outcome
<1>8. \A i \in 1 .. k : i \in 1 .. k - 1 \/ i = k OBVIOUS
<1>9. AllFit(b, ps, k, t) BY <1>7, <1>8 DEF AllFit
<1> QED BY <1>4, <1>6, <1>9 DEF y

LEMMA FillPromise ==
  ASSUME TreeInv, TreeInv', ReachInv, ReaderInv, PromiseInv, NEW c \in Client, Fill(c)
  PROVE  PromiseInv'
<1>1. Spares(c) BY ChangeSpares
<1> SUFFICES ASSUME base[c] # NoView, ~CopiesOntoItself(req[c])
             PROVE  PromiseOK(View', tree', same'[c], base[c], pc'[c], req[c], job'[c], answer'[c])
  BY <1>1, PromiseStepOf
<1> DEFINE b == base[c]  r == req[c]  j == job[c]  v == View  N == Named(r)  p == j.at  D == j.dir
<1>2. /\ pc[c] = "fill" /\ tree' = tree
      /\ IF j.more # <<>> THEN NextFile(c)
         ELSE Finish(c, IF r.op = "copy" /\ j.src = DirIno THEN "error" ELSE "ok")
  BY DEF Fill
<1>3. /\ PromiseOK(v, tree, same[c], b, "fill", r, j, answer[c])
      /\ Whole(b) /\ Whole(v) /\ DOMAIN v = DOMAIN tree /\ AtOp("fill", r) /\ JobOK(j)
      /\ N \subseteq Path /\ InHand(r, j) /\ Asked(r)
  BY <1>2, OwnFacts, JobOf
<1>4. r.op \in Writes BY <1>3 DEF AtOp, Writes
<1>5. PICK w : Doing(b, r, j, w) /\ Whole(w) /\ Writing(v, tree, w, "fill", j, N)
  BY <1>3, <1>4, UnderWay
<1>6. p \in Path /\ p \in N /\ D = Parent(p) /\ D \in Path /\ OnTheWay(D, N)
  BY <1>3, <1>4, HandOnTheWay DEF Writes, Changes
<1>7. ~Blocked(w, Parent(p)) /\ ~(p \in DOMAIN w /\ w[p].dir) BY <1>5, <1>6 DEF Writing
<1>8. Sees(View', With(WithDirs(w, Parent(p)), p, File(Bytes(c))), N) BY <1>5, <1>6, Filled
<1>9. /\ r.op = "copy" => r.path \in DOMAIN b /\ p = r.to /\ j.more = <<>>
                          /\ r.path \in DOMAIN tree /\ tree[r.path] = j.src
      /\ r.op = "patch" => Promise(b, r) = Put(b, r.path, j.buf) /\ p = r.path /\ j.more = <<>>
  BY <1>3, UnderWay
<1>10. r.op \notin Reads BY <1>4 DEF Writes, Reads
<1>11. CASE r.op \in {"write", "upload"}
  <2>1. /\ r.files \in Seq(Path) /\ Len(r.files) \in Nat \ {0} /\ DOMAIN r.files = 1 .. Len(r.files)
        /\ \A k \in 1 .. Len(r.files) : r.files[k] \in Path /\ r.files[k] \in N
    BY <1>3, <1>11, FilesOK
  <2>2. PICK k \in 1 .. Len(r.files) :
          /\ p = r.files[k] /\ j.more = SubSeq(r.files, k + 1, Len(r.files)) /\ j.buf = r.text
          /\ AllFit(b, r.files, k - 1, r.text) /\ w = WithFiles(b, r.files, k - 1, r.text)
    BY <1>5, <1>11 DEF Doing
  <2>3. Bytes(c) = r.text BY <1>11, <2>2 DEF Bytes
  <2> DEFINE y == WithFiles(b, r.files, k, r.text)
  <2>4. AllFit(b, r.files, k, r.text) /\ Whole(y) /\ Sees(View', y, N)
    <3> DEFINE ps == r.files  t == r.text
    <3>1. /\ Len(ps) \in Nat /\ k \in 1 .. Len(ps) /\ w = WithFiles(b, ps, k - 1, t) /\ AllFit(b, ps, k - 1, t)
          /\ ps[k] \in Path /\ ~Blocked(w, Parent(ps[k])) /\ ~(ps[k] \in DOMAIN w /\ w[ps[k]].dir)
          /\ Sees(View', With(WithDirs(w, Parent(ps[k])), ps[k], File(t)), N)
      BY <1>7, <1>8, <2>1, <2>2, <2>3
    <3> HIDE DEF ps, t, N
    <3>2. AllFit(b, ps, k, t) /\ Whole(WithFiles(b, ps, k, t)) /\ Sees(View', WithFiles(b, ps, k, t), N)
      BY <1>5, <3>1, FileFits
    <3> QED BY <3>2 DEF ps, t, N
  <2> HIDE DEF y
  <2>5. CASE k = Len(r.files)
    <3>1. j.more = <<>>
      <4> DEFINE m == k + 1  n == Len(r.files)
      <4>1. m \in Int /\ n \in Int /\ n < m BY <2>1, <2>5
      <4> HIDE DEF m, n
      <4>2. SubSeq(r.files, m, n) = <<>> BY <4>1, SubSeqEmpty
      <4> QED BY <2>2, <4>2 DEF m, n
    <3>2. Finish(c, "ok") BY <1>2, <1>11, <3>1
    <3>3. Promise(b, r) = Outcome("ok", y)
      <4> DEFINE ps == r.files  t == r.text
      <4>1. Len(ps) \in Nat /\ k \in 0 .. Len(ps) /\ AllFit(b, ps, k, t) /\ k = Len(ps) BY <2>1, <2>4, <2>5
      <4> HIDE DEF ps, t
      <4>2. PutAll(b, ps, t) = Outcome("ok", WithFiles(b, ps, k, t)) BY <4>1, PutAllIs
      <4> QED BY <1>11, <4>2, PromiseOf DEF y, ps, t
    <3> QED BY <1>3, <1>10, <2>4, <3>2, <3>3, Done
  <2>6. CASE k # Len(r.files)
    <3> DEFINE ps == r.files  m == k + 1  n == Len(ps)
    <3>1. m \in 1 .. n /\ n \in m .. n /\ n \in Nat /\ m - 1 = k BY <2>1, <2>2, <2>6
    <3>2. ps \in Seq(Path) /\ j.more = SubSeq(ps, m, n) BY <2>1, <2>2
    <3> HIDE DEF m, ps
    <3>3. Head(j.more) = ps[m] /\ Tail(j.more) = SubSeq(ps, m + 1, n) BY <3>1, <3>2, HeadTailOfSubSeq DEF n
    <3>4. j.more # <<>>
      <4>1. Len(SubSeq(ps, m, n)) = n - m + 1
        <5>1. \A i \in m .. n : ps[i] \in Path BY <3>1, <3>2, ElementOfSeq DEF n
        <5> HIDE DEF n
        <5> QED BY <3>1, <5>1, SubSeqProperties
      <4>2. Len(SubSeq(ps, m, n)) # 0 BY <3>1, <4>1
      <4>3. Len(<<>>) = 0 BY EmptySeq
      <4> QED BY <3>2, <4>2, <4>3
    <3>5. NextFile(c) BY <1>2, <3>4
    <3> DEFINE h == job'[c]
    <3>6. h = [Target(r, Head(j.more)) EXCEPT !.more = Tail(j.more)] /\ pc'[c] = "make" /\ answer' = answer
      BY <3>5 DEF NextFile, Goto, TreeInv
    <3>7. h.at = ps[m] /\ h.dir = Parent(ps[m]) /\ h.depth = Len(h.dir) /\ h.buf = r.text
          /\ h.more = SubSeq(ps, m + 1, n)
      BY <3>3, <3>6, ZenonT(60) DEF Target, NoJob
    <3>8. WithFiles(b, ps, m - 1, r.text) = y /\ AllFit(b, ps, m - 1, r.text)
      BY <2>4, <3>1 DEF y, ps
    <3> HIDE DEF h
    <3>9. Doing(b, r, h, y)
      <4> HIDE DEF b, r
      <4> QED BY <1>11, <3>1, <3>7, <3>8 DEF Doing, ps, n
    <3>10. JobOK(h) BY JobOf DEF TreeInv, h
    <3>11. Making(View', y, "make", h, N)
      <4>1. Len(h.dir) \in Nat /\ h.depth = Len(h.dir) BY <3>7, <3>10 DEF JobOK
      <4>2. \A i : i \notin h.depth + 1 .. Len(h.dir) BY <4>1
      <4> QED BY <2>4, <4>2 DEF Making
    <3>12. Writing(View', tree', y, "make", h, N) BY <2>4, <3>11 DEF Writing
    <3> HIDE DEF b, r, N, y
    <3>13. /\ r.op \in Changes /\ Whole(b) /\ r.op \notin {"mkdir", "move", "copy", "patch"} /\ N = Named(r)
      BY <1>3, <1>11 DEF Changes, N
    <3>14. PromiseOK(View', tree', same'[c], b, "make", r, h, answer'[c])
      BY <3>9, <3>12, <3>13, StillUnderWay
    <3> QED BY <3>6, <3>14 DEF h, b, r
  <2> QED BY <2>5, <2>6
<1>12. CASE r.op = "patch"
  <2>1. w = b BY <1>5, <1>12 DEF Doing
  <2>2. Finish(c, "ok") BY <1>2, <1>9, <1>12
  <2>3. Bytes(c) = j.buf BY <1>12 DEF Bytes
  <2> DEFINE x == With(WithDirs(b, Parent(p)), p, File(j.buf))
  <2>4. Put(b, p, j.buf) = Outcome("ok", x) BY <1>7, <2>1, PutIs
  <2>5. Promise(b, r) = Outcome("ok", x) BY <1>9, <1>12, <2>4
  <2>6. Sees(View', x, N) BY <1>8, <2>1, <2>3
  <2> HIDE DEF x
  <2> QED BY <1>3, <1>10, <2>2, <2>5, <2>6, Done
<1>13. CASE r.op = "copy"
  <2>1. w = b BY <1>5, <1>13 DEF Doing
  <2>2. Finish(c, IF j.src = DirIno THEN "error" ELSE "ok") BY <1>2, <1>9, <1>13
  <2> DEFINE q == r.path
  <2>3. q # p /\ q \in Path /\ q \in N /\ q \in DOMAIN b /\ q \in DOMAIN tree /\ tree[q] = j.src
    BY <1>3, <1>9, <1>13, JobOf DEF CopiesOntoItself, Named
  <2>4. v[q] = b[q]
    <3> DEFINE x == With(WithDirs(b, D), p, File(<<>>))
    <3>1. Sees(v, x, N) BY <1>5, <2>1 DEF Writing
    <3>2. q \in DOMAIN x /\ x[q] = b[q] BY <2>3 DEF With, WithDirs
    <3>3. Below(q, N) BY <2>3, PathOrder DEF Below
    <3> HIDE DEF x
    <3> QED BY <2>3, <3>1, <3>2, <3>3 DEF Sees
  <2>5. /\ b[q].dir <=> j.src = DirIno
        /\ Bytes(c) = b[q].text
    BY <1>13, <2>3, <2>4 DEF View, Dir, File, Bytes
  <2> DEFINE x == With(WithDirs(b, Parent(p)), p, File(b[q].text))
  <2>6. Put(b, r.to, b[q].text) = Outcome("ok", x) BY <1>7, <1>9, <1>13, <2>1, PutIs
  <2>7. Promise(b, r) = Outcome(IF j.src = DirIno THEN "error" ELSE "ok", x)
    <3> HIDE DEF x
    <3>1. Outcome("ok", x).view = x BY DEF Outcome
    <3> QED BY <1>13, <2>3, <2>5, <2>6, <3>1, PromiseOf
  <2>8. Sees(View', x, N) BY <1>8, <2>1, <2>5
  <2> HIDE DEF x
  <2> QED BY <1>3, <1>10, <2>2, <2>7, <2>8, Done
<1> QED BY <1>4, <1>11, <1>12, <1>13 DEF Writes

-------------------------------------------------------------------------------
(* What is read first *)

\* the promise of a request for a file
Content(v, p) == {<<p, v[p].text>>}

LEMMA PromiseOfFile ==
  ASSUME NEW v, NEW r, r.op \in {"read", "download", "view"}, Whole(v)
  PROVE  /\ r.path \notin DOMAIN v => Promise(v, r) = Outcome(Missing(v, r.path), v)
         /\ r.path \in DOMAIN v /\ v[r.path].dir => Promise(v, r) = Outcome("error", v)
         /\ r.path \in DOMAIN v /\ ~v[r.path].dir => Promise(v, r) = Tells(v, Content(v, r.path))
<1>1. (r.op = "list") = FALSE /\ r.op # "stat" /\ r.op # "chmod" /\ r.op # "list" OBVIOUS
<1>2. r.path \in DOMAIN v => v[r.path].dir \in BOOLEAN BY DEF Whole, IsView
<1> QED BY <1>1, <1>2 DEF Promise, Reads, Content

\* a file that is sent
LEMMA Reading ==
  ASSUME NEW v, NEW t, NEW s, NEW b, NEW l, NEW r, NEW j, NEW a, Whole(b),
         r.op \in {"read", "download", "view"}, l # "answered", Sees(v, b, Named(r)),
         l \in {"size", "send"} => r.path \in DOMAIN t /\ t[r.path] = j.src /\ j.src # DirIno,
         l = "send" /\ r.op # "read" => j.depth = Len(b[r.path].text)
  PROVE  PromiseOK(v, t, s, b, l, r, j, a)
BY DEF PromiseOK, Reads

\* the path that a request names, then and now
LEMMA PathSeen ==
  ASSUME NEW v, NEW b, NEW r, r.op \notin {"write", "upload"}, Named(r) \subseteq Path, r.path \in Path,
         Sees(v, b, Named(r)), Whole(v), Whole(b)
  PROVE  /\ r.path \in Named(r)
         /\ r.path \in DOMAIN v <=> r.path \in DOMAIN b
         /\ r.path \in DOMAIN b => v[r.path] = b[r.path]
         /\ Missing(v, r.path) = Missing(b, r.path)
<1>1. r.path \in Named(r) BY DEF Named
<1>2. Below(r.path, Named(r)) /\ OnTheWay(r.path, Named(r)) BY <1>1, PathOrder DEF Below, OnTheWay
<1>3. DOMAIN v \subseteq Path /\ DOMAIN b \subseteq Path BY DEF Whole, IsView
<1>4. Missing(v, r.path) = Missing(b, r.path) BY <1>2, <1>3, BlockedToo
<1>5. /\ r.path \in DOMAIN v <=> r.path \in DOMAIN b
      /\ r.path \in DOMAIN b => v[r.path] = b[r.path]
  BY <1>2 DEF Sees
<1> QED BY <1>1, <1>4, <1>5

LEMMA OpenSourcePromise ==
  ASSUME TreeInv, TreeInv', ReachInv, ReaderInv, PromiseInv, NEW c \in Client, OpenSource(c)
  PROVE  PromiseInv'
<1>1. Spares(c) BY QuietSpares
<1> SUFFICES ASSUME base[c] # NoView, ~CopiesOntoItself(req[c])
             PROVE  PromiseOK(View', tree', same'[c], base[c], pc'[c], req[c], job'[c], answer'[c])
  BY <1>1, PromiseStepOf
<1> DEFINE b == base[c]  r == req[c]  j == job[c]  v == View  N == Named(r)  p == r.path
<1>2. /\ pc[c] = "source" /\ tree' = tree /\ View' = v
      /\ IF p \notin DOMAIN tree THEN Finish(c, Missing(View, p))
         ELSE IF IsDir(p) /\ r.op # "copy" THEN Finish(c, "error")
         ELSE /\ job' = [job EXCEPT ![c].src = tree[p]]
              /\ Goto(c, CASE r.op = "copy" -> "make" [] r.op = "read" -> "send" [] OTHER -> "size")
              /\ UNCHANGED answer
  BY DEF OpenSource, View
<1>3. /\ PromiseOK(v, tree, same[c], b, "source", r, j, answer[c])
      /\ Whole(b) /\ Whole(v) /\ DOMAIN v = DOMAIN tree /\ AtOp("source", r) /\ JobOK(j)
      /\ N \subseteq Path /\ InHand(r, j) /\ p \in Path
  BY <1>2, OwnFacts
<1>4. r.op \in {"copy", "read", "download", "view"} BY <1>3 DEF AtOp
<1>5. /\ Sees(v, b, N)
      /\ r.op = "copy" => j.at = r.to /\ j.more = <<>> /\ j.depth = Len(j.dir)
  BY <1>3, <1>4 DEF PromiseOK, Reads
<1>6. /\ p \in DOMAIN v <=> p \in DOMAIN b
      /\ p \in DOMAIN b => v[p] = b[p]
      /\ Missing(v, p) = Missing(b, p)
  BY <1>3, <1>4, <1>5, PathSeen
<1>7. \A s \in DOMAIN tree : v[s].dir = IsDir(s) BY ViewIs DEF TreeInv
<1> HIDE DEF v
<1>8. ASSUME NEW s, Finish(c, s), Promise(b, r) = Outcome(s, b)
      PROVE  PromiseOK(v, tree', same'[c], b, pc'[c], r, job'[c], answer'[c])
  <2>1. CASE r.op = "copy"
    <3>1. r.op \notin Reads BY <2>1 DEF Reads
    <3> QED BY <1>3, <1>5, <1>8, <3>1, Done
  <2>2. CASE r.op # "copy"
    <3>1. r.op \in Reads /\ r.op \notin {"list", "search"} BY <1>4, <2>2 DEF Reads
    <3>2. FinishWith(c, s, {}) BY <1>8 DEF Finish, FinishWith, Answer
    <3>3. Promise(b, r).status = s /\ Promise(b, r).view = b /\ Promise(b, r).body = {} BY <1>8 DEF Outcome
    <3>4. PromiseOK(v, tree', same[c], b, "source", r, j, answer[c]) BY <1>2, <1>3
    <3>5. r.op # "search" BY <3>1
    <3> HIDE DEF b, r, j
    <3>6. PromiseOK(v, tree', same[c], b, pc'[c], r, job'[c], answer'[c])
      BY <3>1, <3>2, <3>3, <3>4, <3>5, Told
    <3>7. same' = same BY QuietSpares
    <3> QED BY <3>6, <3>7
  <2> QED BY <2>1, <2>2
<1>9. CASE p \notin DOMAIN tree
  <2>1. Finish(c, Missing(b, p)) BY <1>2, <1>6, <1>9 DEF v
  <2>2. p \notin DOMAIN b BY <1>3, <1>6, <1>9
  <2>3. Promise(b, r) = Outcome(Missing(b, r.path), b)
    <3> HIDE DEF b, r
    <3>1. CASE r.op = "copy" BY <2>2, <3>1, PromiseOf
    <3>2. CASE r.op # "copy" BY <1>3, <1>4, <2>2, <3>2, PromiseOfFile
    <3> QED BY <3>1, <3>2
  <2> QED BY <1>2, <1>8, <2>1, <2>3
<1>10. CASE p \in DOMAIN tree /\ IsDir(p) /\ r.op # "copy"
  <2>1. Finish(c, "error") BY <1>2, <1>10
  <2>2. p \in DOMAIN b /\ b[p].dir = TRUE BY <1>3, <1>6, <1>7, <1>10
  <2>3. Promise(b, r) = Outcome("error", b) BY <1>3, <1>4, <1>10, <2>2, PromiseOfFile
  <2> QED BY <1>2, <1>8, <2>1, <2>3
<1>11. CASE p \in DOMAIN tree /\ ~(IsDir(p) /\ r.op # "copy")
  <2>1. /\ job' = [job EXCEPT ![c].src = tree[p]] /\ answer' = answer
        /\ pc'[c] = CASE r.op = "copy" -> "make" [] r.op = "read" -> "send" [] OTHER -> "size"
    BY <1>2, <1>11 DEF Goto, TreeInv
  <2> DEFINE k == job'[c]
  <2>2. /\ k.at = j.at /\ k.dir = j.dir /\ k.depth = j.depth /\ k.more = j.more /\ k.buf = j.buf
        /\ k.src = tree[p]
    BY <1>3, <2>1 DEF TreeInv, JobOK, NoJob
  <2> HIDE DEF k
  <2>3. CASE r.op = "copy"
    <3>1. pc'[c] = "make" BY <2>1, <2>3
    <3>2. Making(v, b, "make", k, N)
      <4>1. Len(k.dir) \in Nat /\ k.depth = Len(k.dir) BY <1>3, <1>5, <2>2, <2>3 DEF JobOK
      <4>2. \A i : i \notin k.depth + 1 .. Len(k.dir) BY <4>1
      <4> QED BY <1>5, <4>2 DEF Making
    <3>3. Writing(v, tree', b, "make", k, N) BY <1>3, <3>2 DEF Writing
    <3>4. Doing(b, r, k, b) BY <2>3 DEF Doing
    <3>5. /\ p \in DOMAIN b /\ p \in DOMAIN tree' /\ tree'[p] = k.src /\ k.at = r.to /\ k.more = <<>>
      BY <1>2, <1>3, <1>5, <1>6, <1>11, <2>2, <2>3
    <3> HIDE DEF b, r, N
    <3>6. r.op \in Changes /\ Whole(b) /\ N = Named(r) BY <1>3, <2>3 DEF Changes, N
    <3>7. PromiseOK(v, tree', same'[c], b, "make", r, k, answer'[c])
      BY <2>3, <3>3, <3>4, <3>5, <3>6, StillUnderWay
    <3> QED BY <1>2, <3>1, <3>7 DEF k, b, r
  <2>4. CASE r.op # "copy"
    <3>1. pc'[c] \in {"send", "size"} /\ (pc'[c] = "send" => r.op = "read") BY <1>4, <2>1, <2>4
    <3>2. r.op \in {"read", "download", "view"} BY <1>4, <2>4
    <3>3. /\ r.path \in DOMAIN tree' /\ tree'[r.path] = k.src /\ k.src # DirIno
      BY <1>2, <1>11, <2>2, <2>4 DEF IsDir
    <3> HIDE DEF b, r
    <3>4. PromiseOK(v, tree', same'[c], b, pc'[c], r, k, answer'[c])
      BY <1>3, <1>5, <3>1, <3>2, <3>3, Reading
    <3> QED BY <1>2, <3>4 DEF k, b, r
  <2> QED BY <2>3, <2>4
<1> QED BY <1>9, <1>10, <1>11

\* Patch's text goes where the old one was
LEMMA PatchIsPut ==
  ASSUME NEW b, Whole(b), NEW p \in DOMAIN b, ~b[p].dir, NEW x
  PROVE  Put(b, p, x) = Outcome("ok", With(b, p, File(x)))
<1> DEFINE w == WithDirs(b, Parent(p))
<1>1. /\ DOMAIN b = DOMAIN w /\ \A s \in DOMAIN b : w[s] = b[s]
      /\ ~Blocked(b, Parent(p))
  BY NoDirsMissing
<1>2. Put(b, p, x) = Outcome("ok", With(w, p, File(x))) BY <1>1, PutIs
<1> HIDE DEF w
<1>3. With(w, p, File(x)) = With(b, p, File(x)) BY <1>1 DEF With
<1> QED BY <1>2, <1>3

LEMMA ReadOldPromise ==
  ASSUME TreeInv, TreeInv', ReachInv, ReaderInv, PromiseInv, NEW c \in Client, ReadOld(c)
  PROVE  PromiseInv'
<1>1. Spares(c) BY QuietSpares
<1> SUFFICES ASSUME base[c] # NoView, ~CopiesOntoItself(req[c])
             PROVE  PromiseOK(View', tree', same'[c], base[c], pc'[c], req[c], job'[c], answer'[c])
  BY <1>1, PromiseStepOf
<1> DEFINE b == base[c]  r == req[c]  j == job[c]  v == View  N == Named(r)  p == r.path
           t == data[tree[p]]  x == Replace(t, r.old, r.text)
<1>2. /\ pc[c] = "read" /\ tree' = tree /\ View' = v
      /\ IF p \notin DOMAIN tree THEN Finish(c, Missing(View, p))
         ELSE IF IsDir(p) THEN Finish(c, "error")
         ELSE IF Cardinality(Places(t, r.old)) # 1 THEN Finish(c, "conflict")
         ELSE /\ job' = [job EXCEPT ![c].buf = x]
              /\ Goto(c, "open") /\ UNCHANGED answer
  BY DEF ReadOld, View
<1>3. /\ PromiseOK(v, tree, same[c], b, "read", r, j, answer[c])
      /\ Whole(b) /\ Whole(v) /\ DOMAIN v = DOMAIN tree /\ AtOp("read", r) /\ JobOK(j)
      /\ N \subseteq Path /\ InHand(r, j) /\ p \in Path
  BY <1>2, OwnFacts
<1>4. r.op = "patch" /\ r.old # <<>> /\ r.op \notin Reads BY <1>3 DEF AtOp, Reads
<1>5. Sees(v, b, N) /\ j.at = p /\ j.more = <<>> BY <1>3, <1>4 DEF PromiseOK
<1>6. /\ p \in DOMAIN v <=> p \in DOMAIN b
      /\ p \in DOMAIN b => v[p] = b[p]
      /\ Missing(v, p) = Missing(b, p)
  BY <1>3, <1>4, <1>5, PathSeen
<1>7. /\ \A s \in DOMAIN tree : v[s].dir = IsDir(s)
      /\ \A s \in DOMAIN tree : ~IsDir(s) => v[s].text = data[tree[s]]
  BY ViewIs DEF TreeInv
<1>8. Promise(b, r) =
        IF p \notin DOMAIN b THEN Outcome(Missing(b, p), b)
        ELSE IF b[p].dir THEN Outcome("error", b)
        ELSE IF Cardinality(Places(b[p].text, r.old)) # 1 THEN Outcome("conflict", b)
        ELSE Outcome("ok", With(b, p, File(Replace(b[p].text, r.old, r.text))))
  BY <1>4, PromiseOfPatch
<1> HIDE DEF v
<1>9. ASSUME NEW s, Finish(c, s), Promise(b, r) = Outcome(s, b)
      PROVE  PromiseOK(v, tree', same'[c], b, pc'[c], r, job'[c], answer'[c])
  BY <1>3, <1>4, <1>5, <1>9, Done
<1>10. CASE p \notin DOMAIN tree
  <2>1. Finish(c, Missing(b, p)) BY <1>2, <1>6, <1>10 DEF v
  <2>2. Promise(b, r) = Outcome(Missing(b, p), b) BY <1>3, <1>6, <1>8, <1>10
  <2> QED BY <1>2, <1>9, <2>1, <2>2
<1>11. CASE p \in DOMAIN tree /\ IsDir(p)
  <2>1. Finish(c, "error") BY <1>2, <1>11
  <2>2. p \in DOMAIN b /\ b[p].dir BY <1>3, <1>6, <1>7, <1>11
  <2>3. Promise(b, r) = Outcome("error", b) BY <1>8, <2>2
  <2> QED BY <1>2, <1>9, <2>1, <2>3
<1>12. ASSUME p \in DOMAIN tree, ~IsDir(p) PROVE p \in DOMAIN b /\ ~b[p].dir /\ b[p].text = t
  BY <1>3, <1>6, <1>7, <1>12
<1>13. CASE p \in DOMAIN tree /\ ~IsDir(p) /\ Cardinality(Places(t, r.old)) # 1
  <2>1. Finish(c, "conflict") BY <1>2, <1>13
  <2>2. Promise(b, r) = Outcome("conflict", b) BY <1>8, <1>12, <1>13
  <2> QED BY <1>2, <1>9, <2>1, <2>2
<1>14. CASE p \in DOMAIN tree /\ ~IsDir(p) /\ Cardinality(Places(t, r.old)) = 1
  <2>1. /\ job' = [job EXCEPT ![c].buf = x] /\ answer' = answer /\ pc'[c] = "open"
    BY <1>2, <1>14 DEF Goto, TreeInv
  <2> DEFINE k == job'[c]
  <2>2. /\ k.at = p /\ k.dir = j.dir /\ k.more = <<>> /\ k.buf = x /\ j.dir = Parent(p)
    BY <1>3, <1>4, <1>5, <2>1 DEF TreeInv, JobOK, NoJob, InHand
  <2>3. Promise(b, r) = Put(b, p, x)
    <3>1. Promise(b, r) = Outcome("ok", With(b, p, File(x))) BY <1>8, <1>12, <1>14
    <3> HIDE DEF x, b, p
    <3> QED BY <1>3, <1>12, <1>14, <3>1, PatchIsPut
  <2> HIDE DEF k, x, b, r, N, p
  <2>4. p \in DOMAIN b /\ ~Blocked(b, Parent(p)) /\ Sees(v, WithDirs(b, Parent(p)), N)
    <3>1. p \in DOMAIN b BY <1>12, <1>14
    <3> QED BY <1>3, <1>5, <3>1, NoDirsMissing, SeesAlike
  <2>5. Writing(v, tree', b, "open", k, N) BY <1>3, <2>2, <2>4 DEF Writing, Making
  <2>6. /\ Doing(b, r, k, b) /\ r.op \in Changes /\ r.op \notin {"mkdir", "move", "copy"}
        /\ N = Named(r) /\ k.at = r.path
    BY <1>4, <2>2 DEF Doing, Changes, N, p
  <2>7. PromiseOK(v, tree', same'[c], b, "open", r, k, answer'[c])
    BY <1>3, <1>4, <2>2, <2>3, <2>5, <2>6, StillUnderWay DEF p
  <2> QED BY <1>2, <2>1, <2>7 DEF k, b, r
<1> QED BY <1>10, <1>11, <1>13, <1>14

-------------------------------------------------------------------------------
(* Looking at a path, sending a file *)

Kind(v, p) == {<<p, v[p].dir>>}

LEMMA PromiseOfLook ==
  ASSUME NEW v, NEW r, r.op \in {"stat", "chmod"}
  PROVE  /\ r.path \notin DOMAIN v => Promise(v, r) = Outcome(Missing(v, r.path), v)
         /\ r.path \in DOMAIN v /\ r.op = "stat" => Promise(v, r) = Tells(v, Kind(v, r.path))
         /\ r.path \in DOMAIN v /\ r.op = "chmod" => Promise(v, r) = Outcome("ok", v)
BY DEF Promise, Reads, Kind

\* a reader's answer, when it is what it promised
LEMMA ToldAll ==
  ASSUME TreeInv, TreeInv', ReachInv, ReaderInv, PromiseInv, NEW c \in Client,
         base[c] # NoView, ~CopiesOntoItself(req[c]), req[c].op \in Reads \ {"list", "search"},
         tree' = tree, View' = View, same' = same, NEW s, NEW bd, FinishWith(c, s, bd),
         Promise(base[c], req[c]) = [status |-> s, view |-> base[c], body |-> bd]
  PROVE  PromiseOK(View', tree', same'[c], base[c], pc'[c], req[c], job'[c], answer'[c])
<1> DEFINE b == base[c]  r == req[c]
<1>1. PromiseOK(View, tree, same[c], b, pc[c], r, job[c], answer[c]) BY OwnFacts
<1>2. /\ r.op \in Reads /\ r.op \notin {"list", "search"} /\ r.op # "search"
      /\ Promise(b, r).status = s /\ Promise(b, r).view = b /\ Promise(b, r).body = bd
  OBVIOUS
<1> HIDE DEF b, r
<1>3. PromiseOK(View, tree, same[c], b, pc'[c], r, job'[c], answer'[c]) BY <1>1, <1>2, Told
<1> QED BY <1>3 DEF b, r

LEMMA LookPromise ==
  ASSUME TreeInv, TreeInv', ReachInv, ReaderInv, PromiseInv, NEW c \in Client, StatPath(c) \/ Chmod(c)
  PROVE  PromiseInv'
<1>1. Spares(c) /\ same' = same BY QuietSpares
<1> SUFFICES ASSUME base[c] # NoView, ~CopiesOntoItself(req[c])
             PROVE  PromiseOK(View', tree', same'[c], base[c], pc'[c], req[c], job'[c], answer'[c])
  BY <1>1, PromiseStepOf
<1> DEFINE b == base[c]  r == req[c]  v == View  N == Named(r)  p == r.path
           found == IF r.op = "stat" THEN {<<p, IsDir(p)>>} ELSE {}
<1>2. /\ pc[c] \in {"stat", "chmod"} /\ tree' = tree /\ View' = v
      /\ r.op \in {"stat", "chmod"}
      /\ IF p \in DOMAIN tree THEN FinishWith(c, "ok", found) ELSE Finish(c, Missing(View, p))
  <2>1. pc[c] \in {"stat", "chmod"} /\ AtOp(pc[c], r) BY OwnFacts DEF StatPath, Chmod
  <2> QED BY <2>1 DEF StatPath, Chmod, Look, View, AtOp
<1>3. /\ PromiseOK(v, tree, same[c], b, pc[c], r, job[c], answer[c])
      /\ Whole(b) /\ Whole(v) /\ DOMAIN v = DOMAIN tree /\ N \subseteq Path /\ p \in Path
  BY OwnFacts
<1>4. r.op \in Reads \ {"list", "search"} BY <1>2 DEF Reads
<1>5. Sees(v, b, N) BY <1>3, <1>4 DEF PromiseOK
<1>6. /\ p \in DOMAIN v <=> p \in DOMAIN b
      /\ p \in DOMAIN b => v[p] = b[p]
      /\ Missing(v, p) = Missing(b, p)
  BY <1>2, <1>3, <1>5, PathSeen
<1>7. \A s \in DOMAIN tree : v[s].dir = IsDir(s) BY ViewIs DEF TreeInv
<1>8. CASE p \notin DOMAIN tree
  <2>1. FinishWith(c, Missing(b, p), {}) BY <1>2, <1>6, <1>8 DEF Finish, FinishWith, Answer
  <2>2. p \notin DOMAIN b BY <1>3, <1>6, <1>8
  <2>3. Promise(b, r) = [status |-> Missing(b, p), view |-> b, body |-> {}]
    <3>1. Promise(b, r) = Outcome(Missing(b, p), b) BY <1>2, <2>2, PromiseOfLook
    <3> QED BY <3>1 DEF Outcome
  <2> QED BY <1>1, <1>2, <1>4, <2>1, <2>3, ToldAll
<1>9. CASE p \in DOMAIN tree
  <2>1. FinishWith(c, "ok", found) BY <1>2, <1>9
  <2>2. p \in DOMAIN b /\ b[p].dir = IsDir(p) BY <1>3, <1>6, <1>7, <1>9
  <2>3. r.op = "stat" => Kind(b, p) = found BY <2>2 DEF Kind
  <2>4. Promise(b, r) = [status |-> "ok", view |-> b, body |-> found]
    <3> HIDE DEF b
    <3>1. CASE r.op = "stat" BY <2>2, <2>3, <3>1, PromiseOfLook DEF Tells
    <3>2. CASE r.op = "chmod" BY <2>2, <3>2, PromiseOfLook DEF Outcome
    <3> QED BY <1>2, <3>1, <3>2
  <2> HIDE DEF found
  <2> QED BY <1>1, <1>2, <1>4, <2>1, <2>4, ToldAll
<1> QED BY <1>8, <1>9

LEMMA SendPromise ==
  ASSUME TreeInv, TreeInv', ReachInv, ReaderInv, PromiseInv, NEW c \in Client, Measure(c) \/ Send(c)
  PROVE  PromiseInv'
<1>1. Spares(c) /\ same' = same BY QuietSpares
<1> SUFFICES ASSUME base[c] # NoView, ~CopiesOntoItself(req[c])
             PROVE  PromiseOK(View', tree', same'[c], base[c], pc'[c], req[c], job'[c], answer'[c])
  BY <1>1, PromiseStepOf
<1> DEFINE b == base[c]  r == req[c]  v == View  N == Named(r)  p == r.path  j == job[c]  t == data[j.src]
<1>2. pc[c] \in {"size", "send"} /\ tree' = tree /\ View' = v
  BY DEF Measure, Send, View
<1>3. /\ PromiseOK(v, tree, same[c], b, pc[c], r, j, answer[c]) /\ AtOp(pc[c], r) /\ JobOK(j)
      /\ Whole(b) /\ Whole(v) /\ DOMAIN v = DOMAIN tree /\ N \subseteq Path /\ p \in Path
  BY OwnFacts
<1>4. r.op \in {"read", "download", "view"} /\ (pc[c] = "size" => r.op # "read") BY <1>2, <1>3 DEF AtOp
<1>5. /\ Sees(v, b, N) /\ p \in DOMAIN tree /\ tree[p] = j.src /\ j.src # DirIno
      /\ pc[c] = "send" /\ r.op # "read" => j.depth = Len(b[p].text)
  BY <1>2, <1>3, <1>4 DEF PromiseOK, Reads
<1>6. p \in DOMAIN b /\ v[p] = b[p] BY <1>3, <1>4, <1>5, PathSeen
<1>7. v[p] = File(t) BY <1>5 DEF View
<1>8. b[p].text = t /\ ~b[p].dir BY <1>6, <1>7 DEF File
<1>9. t \in Seq(Blocks) BY <1>3, <1>5 DEF JobOK, TreeInv
<1> HIDE DEF v, t
<1>10. CASE Measure(c)
  <2>1. /\ pc'[c] = "send" /\ answer' = answer
        /\ job'[c].depth = Len(b[p].text) /\ job'[c].src = j.src
    BY <1>3, <1>8, <1>10 DEF Measure, Goto, TreeInv, JobOK, NoJob, t
  <2> HIDE DEF b, r
  <2>2. PromiseOK(v, tree', same'[c], b, "send", r, job'[c], answer'[c])
    BY <1>2, <1>3, <1>4, <1>5, <2>1, Reading
  <2> QED BY <1>2, <2>1, <2>2 DEF b, r
<1>11. CASE Send(c)
  <2>1. PICK n \in Sendable(r.op, j.depth, Len(t)) :
          FinishWith(c, IF r.op = "read" \/ n = j.depth THEN "ok" ELSE "broken", {<<p, SubSeq(t, 1, n)>>})
    BY <1>11 DEF Send, t
  <2>2. n = Len(t) /\ (r.op = "read" \/ n = j.depth)
    <3>1. Len(t) \in Nat /\ (r.op # "read" => j.depth = Len(t)) BY <1>5, <1>8, <1>9, <1>11, LenProperties DEF Send
    <3> QED BY <2>1, <3>1 DEF Sendable
  <2>3. SubSeq(t, 1, n) = t BY <1>9, <2>2, SubSeqFull
  <2>4. FinishWith(c, "ok", {<<p, t>>}) BY <2>1, <2>2, <2>3
  <2>5. Promise(b, r) = [status |-> "ok", view |-> b, body |-> {<<p, t>>}]
    <3>1. Content(b, p) = {<<p, t>>} BY <1>8 DEF Content
    <3>2. Promise(b, r) = Tells(b, Content(b, p))
      <4> HIDE DEF b, r
      <4> QED BY <1>3, <1>4, <1>6, <1>8, PromiseOfFile
    <3> QED BY <3>1, <3>2 DEF Tells
  <2>6. r.op \in Reads \ {"list", "search"} BY <1>4 DEF Reads
  <2>7. View' = View BY <1>2 DEF v
  <2> DEFINE bd == {<<p, t>>}
  <2> HIDE DEF bd
  <2> QED BY <1>1, <1>2, <2>4, <2>5, <2>6, <2>7, ToldAll DEF bd
<1> QED BY <1>10, <1>11

-------------------------------------------------------------------------------
(* A move *)

\* u is v with what was at p and below it at q now
IsRelocated(v, p, q, u) ==
  /\ \A s \in Path : ~IsPrefix(p, s) /\ ~IsPrefix(q, s) =>
       (s \in DOMAIN u <=> s \in DOMAIN v) /\ (s \in DOMAIN v => u[s] = v[s])
  /\ \A s \in Path : IsPrefix(p, s) => s \notin DOMAIN u
  /\ \A s \in Path : IsPrefix(q, s) =>
       /\ IsPrefix(p, Moved(q, p, s))
       /\ s \in DOMAIN u <=> Moved(q, p, s) \in DOMAIN v
       /\ s \in DOMAIN u => u[s] = v[Moved(q, p, s)]

LEMMA SeesRelocated ==
  ASSUME NEW v, NEW w, NEW p \in Path, NEW q \in Path, NEW N, N = {p, q}, Sees(v, w, N),
         DOMAIN v \subseteq Path, DOMAIN w \subseteq Path,
         NEW u, IsRelocated(v, p, q, u), NEW x, IsRelocated(w, p, q, x)
  PROVE  Sees(u, x, N)
<1>1. \A s : Below(s, N) <=> IsPrefix(p, s) \/ IsPrefix(q, s) BY DEF Below
<1>2. ASSUME NEW s \in Path, Below(s, N)
      PROVE  (s \in DOMAIN u <=> s \in DOMAIN x) /\ (s \in DOMAIN x => u[s] = x[s])
  <2>1. CASE IsPrefix(p, s) BY <2>1 DEF IsRelocated
  <2>2. CASE IsPrefix(q, s)
    <3> DEFINE m == Moved(q, p, s)
    <3>1. /\ IsPrefix(p, m) /\ (s \in DOMAIN u <=> m \in DOMAIN v) /\ (s \in DOMAIN x <=> m \in DOMAIN w)
          /\ (s \in DOMAIN u => u[s] = v[m]) /\ (s \in DOMAIN x => x[s] = w[m])
      BY <2>2 DEF IsRelocated
    <3> HIDE DEF m
    <3>2. Below(m, N) BY <1>1, <3>1
    <3>3. m \in DOMAIN v \/ m \in DOMAIN w => (m \in DOMAIN v <=> m \in DOMAIN w) /\ v[m] = w[m]
      BY <3>2 DEF Sees
    <3> QED BY <3>1, <3>3
  <2> QED BY <1>1, <1>2, <2>1, <2>2
<1>3. ASSUME NEW s \in Path, OnTheWay(s, N)
      PROVE  /\ s \in DOMAIN x => s \in DOMAIN u /\ u[s].dir = x[s].dir
             /\ s \in DOMAIN u /\ s \notin DOMAIN x => u[s].dir
  <2>1. CASE Below(s, N) BY <1>2, <2>1
  <2>2. CASE ~Below(s, N)
    <3>1. /\ (s \in DOMAIN u <=> s \in DOMAIN v) /\ (s \in DOMAIN v => u[s] = v[s])
          /\ (s \in DOMAIN x <=> s \in DOMAIN w) /\ (s \in DOMAIN w => x[s] = w[s])
      BY <1>1, <2>2 DEF IsRelocated
    <3>2. /\ s \in DOMAIN w => s \in DOMAIN v /\ v[s].dir = w[s].dir
          /\ s \in DOMAIN v /\ s \notin DOMAIN w => v[s].dir
      BY <1>3 DEF Sees
    <3> QED BY <3>1, <3>2
  <2> QED BY <2>1, <2>2
<1> QED BY <1>2, <1>3 DEF Sees

LEMMA MovedToItself ==
  ASSUME NEW p \in Path, NEW s \in Path, IsPrefix(p, s)
  PROVE  Moved(p, p, s) = s
<1> DEFINE t == Moved(p, p, s)
<1>1. p \in Seq(Name) /\ s \in Seq(Name) BY FsAssumption
<1>2. t \in Seq(Name) /\ HasMoved(p, p, s, t) BY <1>1, MovedElements
<1> HIDE DEF t
<1>3. /\ Len(p) <= Len(s) /\ (\A i \in 1 .. Len(p) : p[i] = s[i])
      /\ Len(p) \in Nat /\ Len(s) \in Nat /\ Len(t) \in Nat
  BY <1>1, <1>2, PrefixDef, LenProperties
<1>4. Len(t) = Len(s) BY <1>2, <1>3 DEF HasMoved
<1>5. ASSUME NEW i \in 1 .. Len(t) PROVE t[i] = s[i]
  <2>1. CASE i \in 1 .. Len(p) BY <1>2, <1>3, <2>1 DEF HasMoved
  <2>2. CASE i \notin 1 .. Len(p)
    <3> DEFINE k == i - Len(p)
    <3>1. k \in 1 .. Len(s) - Len(p) /\ Len(p) + k = i BY <1>3, <1>4, <2>2
    <3> HIDE DEF k
    <3>2. t[Len(p) + k] = s[Len(p) + k] BY <1>2, <3>1 DEF HasMoved
    <3> QED BY <3>1, <3>2
  <2> QED BY <2>1, <2>2
<1>6. t = s BY <1>1, <1>2, <1>4, <1>5, SeqEqual
<1> QED BY <1>6 DEF t

LEMMA NotRelocated ==
  ASSUME NEW w, DOMAIN w \subseteq Path, NEW p \in DOMAIN w
  PROVE  DOMAIN Relocated(w, p, p) = DOMAIN w /\ \A s \in DOMAIN w : Relocated(w, p, p)[s] = w[s]
<1> DEFINE rest == Without(w, p)  moved == {s \in DOMAIN w : IsPrefix(p, s)}  x == Relocated(w, p, p)
<1>1. /\ DOMAIN x = DOMAIN rest \cup {Moved(p, p, m) : m \in moved}
      /\ \A s \in DOMAIN x : x[s] = IF IsPrefix(p, s) THEN w[Moved(p, p, s)] ELSE rest[s]
  BY DEF Relocated
<1>2. \A s : s \in DOMAIN rest <=> s \in DOMAIN w /\ ~IsPrefix(p, s) BY DEF Without, Within
<1>3. \A s \in DOMAIN rest : rest[s] = w[s] BY DEF Without
<1> HIDE DEF rest, x
<1>4. \A s \in DOMAIN w : IsPrefix(p, s) => Moved(p, p, s) = s BY MovedToItself
<1>5. {Moved(p, p, m) : m \in moved} = moved BY <1>4
<1>6. DOMAIN x = DOMAIN w BY <1>1, <1>2, <1>5
<1>7. \A s \in DOMAIN w : x[s] = w[s] BY <1>1, <1>2, <1>3, <1>4, <1>6
<1> QED BY <1>6, <1>7 DEF x

\* the directories that are made block nothing
LEMMA DirsBlockNothing ==
  ASSUME NEW w, NEW d, NEW p
  PROVE  (Blocked(WithDirs(w, d), p) <=> Blocked(w, p)) /\ Missing(WithDirs(w, d), p) = Missing(w, p)
<1> DEFINE x == WithDirs(w, d)
<1>1. /\ \A s \in DOMAIN w : s \in DOMAIN x /\ x[s] = w[s]
      /\ \A s \in DOMAIN x : s \notin DOMAIN w => x[s] = Dir
  BY DEF WithDirs
<1> HIDE DEF x
<1>2. Dir.dir BY DEF Dir
<1>3. Blocked(x, p) <=> Blocked(w, p) BY <1>1, <1>2 DEF Blocked
<1>4. Missing(x, p) = Missing(w, p) BY <1>3 DEF Missing
<1> QED BY <1>3, <1>4 DEF x

\* what a move has seen, before it renames
LEMMA MoveFacts ==
  ASSUME TreeInv, ReachInv, PromiseInv, NEW c \in Client, base[c] # NoView, ~CopiesOntoItself(req[c]),
         pc[c] \in {"lstat", "rename"}
  PROVE  LET b == base[c]  r == req[c]  v == View  N == Named(req[c])  d == Parent(req[c].to)
             x == WithDirs(base[c], Parent(req[c].to)) IN
         /\ r.op = "move" /\ N = {r.path, r.to} /\ r.path \in Path /\ r.to \in Path
         /\ Whole(b) /\ Whole(v) /\ DOMAIN v = DOMAIN tree /\ DOMAIN x \subseteq Path
         /\ job[c].at = r.to /\ job[c].dir = d /\ d \in DOMAIN v /\ v[d].dir
         /\ Sees(v, x, N) /\ ~Blocked(b, d)
         /\ \A s \in N : (s \in DOMAIN v <=> s \in DOMAIN x) /\ (s \in DOMAIN x => v[s] = x[s])
         /\ Missing(v, r.path) = Missing(b, r.path)
         /\ pc[c] = "rename" => ~(r.to \in DOMAIN v /\ v[r.to].dir)
<1> DEFINE b == base[c]  r == req[c]  v == View  N == Named(r)  d == Parent(r.to)  x == WithDirs(b, d)
<1>1. /\ PromiseOK(v, tree, same[c], b, pc[c], r, job[c], answer[c]) /\ AtOp(pc[c], r)
      /\ Whole(b) /\ Whole(v) /\ DOMAIN v = DOMAIN tree /\ N \subseteq Path
      /\ r.path \in Path /\ r.to \in Path /\ InHand(r, job[c])
  BY OwnFacts
<1>2. r.op = "move" BY <1>1 DEF AtOp
<1>3. N = {r.path, r.to} BY <1>2 DEF Named
<1>4. /\ Making(v, b, pc[c], job[c], N) /\ job[c].at = r.to
      /\ pc[c] = "rename" => ~(r.to \in DOMAIN v /\ v[r.to].dir)
  BY <1>1, <1>2 DEF PromiseOK
<1>5. job[c].dir = d BY <1>1, <1>2, <1>4 DEF InHand
<1>6. Sees(v, x, N) /\ ~Blocked(b, d) BY <1>4, <1>5 DEF Making
<1>7. d \in Path /\ IsPrefix(d, r.to) BY <1>1, PathParent, PathOrder
<1>8. OnTheWay(d, N) BY <1>3, <1>7 DEF OnTheWay
<1>9. d \in DOMAIN v /\ v[d].dir BY <1>1, <1>6, <1>7, <1>8, WayIsMade
<1>10. DOMAIN b \subseteq Path /\ DOMAIN v \subseteq Path BY <1>1 DEF Whole, IsView
<1>11. DOMAIN x \subseteq Path BY <1>10 DEF WithDirs
<1>12. \A s \in N : Below(s, N) /\ OnTheWay(s, N) BY <1>1, PathOrder DEF Below, OnTheWay
<1>13. \A s \in N : (s \in DOMAIN v <=> s \in DOMAIN x) /\ (s \in DOMAIN x => v[s] = x[s])
  BY <1>1, <1>6, <1>12 DEF Sees
<1>14. Missing(x, r.path) = Missing(b, r.path) BY DirsBlockNothing
<1>15. Missing(v, r.path) = Missing(x, r.path)
  <2> HIDE DEF x, v, N
  <2> QED BY <1>1, <1>3, <1>6, <1>10, <1>11, <1>12, BlockedToo
<1> QED BY <1>1, <1>2, <1>3, <1>4, <1>5, <1>6, <1>9, <1>11, <1>13, <1>14, <1>15

\* the outcomes of a move
LEMMA MoveOutcome ==
  ASSUME NEW b, NEW r, r.op = "move", ~Blocked(b, Parent(r.to)), NEW x, x = WithDirs(b, Parent(r.to))
  PROVE  /\ r.path \notin DOMAIN x => Promise(b, r) = Outcome(Missing(b, r.path), x)
         /\ r.path \in DOMAIN x /\ r.to \in DOMAIN x /\ (x[r.to].dir \/ x[r.path].dir) =>
              Promise(b, r) = Outcome("error", x)
         /\ r.path \in DOMAIN x /\ r.to # r.path /\ IsPrefix(r.path, r.to) =>
              Promise(b, r) = Outcome("error", x)
         /\ r.path \in DOMAIN x /\ ~(r.to \in DOMAIN x /\ (x[r.to].dir \/ x[r.path].dir))
              /\ ~(r.to # r.path /\ IsPrefix(r.path, r.to)) =>
              Promise(b, r) = Outcome("ok", Relocated(x, r.path, r.to))
<1>1. Promise(b, r) =
        IF r.path \notin DOMAIN x THEN Outcome(Missing(b, r.path), x)
        ELSE IF r.to \in DOMAIN x /\ (x[r.to].dir \/ x[r.path].dir) THEN Outcome("error", x)
        ELSE IF r.to # r.path /\ IsPrefix(r.path, r.to) THEN Outcome("error", x)
        ELSE Outcome("ok", Relocated(x, r.path, r.to))
  BY PromiseOfMove
<1> QED BY <1>1

LEMMA LstatPromise ==
  ASSUME TreeInv, TreeInv', ReachInv, ReaderInv, PromiseInv, NEW c \in Client, Lstat(c)
  PROVE  PromiseInv'
<1>1. Spares(c) BY QuietSpares
<1> SUFFICES ASSUME base[c] # NoView, ~CopiesOntoItself(req[c])
             PROVE  PromiseOK(View', tree', same'[c], base[c], pc'[c], req[c], job'[c], answer'[c])
  BY <1>1, PromiseStepOf
<1> DEFINE b == base[c]  r == req[c]  v == View  N == Named(r)  p == r.path  q == r.to  d == Parent(q)
           x == WithDirs(b, d)
<1>2. /\ pc[c] = "lstat" /\ tree' = tree /\ View' = v
      /\ IF IsDir(q)
           THEN Finish(c, IF p \in DOMAIN tree THEN "error" ELSE Missing(View, p))
           ELSE Goto(c, "rename") /\ UNCHANGED <<job, answer>>
  BY DEF Lstat, View
<1>3. /\ r.op = "move" /\ N = {p, q} /\ Whole(b) /\ DOMAIN v = DOMAIN tree
      /\ job[c].at = q /\ job[c].dir = d /\ Sees(v, x, N) /\ ~Blocked(b, d)
      /\ \A s \in N : (s \in DOMAIN v <=> s \in DOMAIN x) /\ (s \in DOMAIN x => v[s] = x[s])
      /\ Missing(v, p) = Missing(b, p)
  BY <1>2, MoveFacts
<1>4. \A s \in DOMAIN tree : v[s].dir = IsDir(s) BY ViewIs DEF TreeInv
<1>5. r.op \notin Reads BY <1>3 DEF Reads
<1>6. CASE IsDir(q)
  <2> DEFINE a == IF p \in DOMAIN tree THEN "error" ELSE Missing(b, p)
  <2>1. Finish(c, a) BY <1>2, <1>3, <1>6
  <2>2. q \in DOMAIN x /\ x[q].dir BY <1>3, <1>4, <1>6 DEF IsDir
  <2>3. p \in DOMAIN x <=> p \in DOMAIN tree BY <1>3
  <2>4. Promise(b, r) = Outcome(a, x)
    <3>1. CASE p \in DOMAIN tree
      <4>1. Promise(b, r) = Outcome("error", x) BY <1>3, <2>2, <2>3, <3>1, MoveOutcome
      <4> QED BY <3>1, <4>1
    <3>2. CASE p \notin DOMAIN tree
      <4>1. Promise(b, r) = Outcome(Missing(b, p), x) BY <1>3, <2>2, <2>3, <3>2, MoveOutcome
      <4> QED BY <3>2, <4>1
    <3> QED BY <3>1, <3>2
  <2> HIDE DEF a, x
  <2> QED BY <1>2, <1>3, <1>5, <2>1, <2>4, Done
<1>7. CASE ~IsDir(q)
  <2>1. pc'[c] = "rename" /\ UNCHANGED <<job, answer>> BY <1>2, <1>7 DEF Goto, TreeInv
  <2>2. ~(q \in DOMAIN v /\ v[q].dir) BY <1>3, <1>4, <1>7
  <2>3. Making(v, b, "rename", job[c], N) BY <1>3 DEF Making
  <2>4. Doing(b, r, job[c], b) BY <1>3 DEF Doing
  <2> HIDE DEF b, r, N, v
  <2>5. r.op \in Changes /\ r.op \notin Writes /\ N = Named(r) BY <1>3 DEF Changes, Writes, N
  <2>6. PromiseOK(v, tree, same'[c], b, "rename", r, job[c], answer[c])
    BY <1>3, <2>2, <2>3, <2>4, <2>5, StillUnderWay
  <2> QED BY <1>2, <2>1, <2>6 DEF b, r
<1> QED BY <1>6, <1>7

\* the view after a move, and what the move promises
LEMMA ViewRelocated ==
  ASSUME IsTree(tree), NEW p \in DOMAIN tree, NEW q \in Path, ~IsPrefix(p, q), ~IsPrefix(q, p),
         \A s \in DOMAIN tree : IsPrefix(q, s) => s = q,
         \A s \in Path : IsPrefix(p, s) => Moved(p, q, s) \in Path,
         tree' = Relocated(tree, p, q), data' = data
  PROVE  IsRelocated(View, p, q, View')
<1>1. DOMAIN tree \subseteq Path BY DEF IsTree
<1>2. /\ \A s \in Path : ~IsPrefix(p, s) /\ ~IsPrefix(q, s) =>
           (s \in DOMAIN tree' <=> s \in DOMAIN tree) /\ (s \in DOMAIN tree => tree'[s] = tree[s])
      /\ \A s \in Path : IsPrefix(p, s) => s \notin DOMAIN tree'
      /\ \A s \in Path : IsPrefix(q, s) =>
           /\ IsPrefix(p, Moved(q, p, s))
           /\ s \in DOMAIN tree' <=> Moved(q, p, s) \in DOMAIN tree
           /\ s \in DOMAIN tree' => tree'[s] = tree[Moved(q, p, s)]
  BY <1>1, RelocatedIs
<1>3. /\ DOMAIN View = DOMAIN tree /\ DOMAIN View' = DOMAIN tree'
      /\ \A s \in DOMAIN tree : View[s] = IF tree[s] = DirIno THEN Dir ELSE File(data[tree[s]])
      /\ \A s \in DOMAIN tree' : View'[s] = IF tree'[s] = DirIno THEN Dir ELSE File(data[tree'[s]])
  BY DEF View
<1>4. \A s \in DOMAIN tree, u \in DOMAIN tree' : tree'[u] = tree[s] => View'[u] = View[s]
  BY <1>3
<1> QED BY <1>2, <1>3, <1>4 DEF IsRelocated

LEMMA RenamePromise ==
  ASSUME TreeInv, TreeInv', ReachInv, ReaderInv, PromiseInv, NEW c \in Client, Rename(c)
  PROVE  PromiseInv'
<1>1. Spares(c) BY RenameSpares
<1> SUFFICES ASSUME base[c] # NoView, ~CopiesOntoItself(req[c])
             PROVE  PromiseOK(View', tree', same'[c], base[c], pc'[c], req[c], job'[c], answer'[c])
  BY <1>1, PromiseStepOf
<1> DEFINE b == base[c]  r == req[c]  v == View  N == Named(r)  p == r.path  q == r.to  d == Parent(q)
           x == WithDirs(b, d)
           refused == \/ p # q /\ IsPrefix(p, q)
                      \/ IsDir(p) /\ (IsFile(q) \/ Children(q) # {})
                      \/ IsFile(p) /\ IsDir(q)
<1>2. /\ pc[c] = "rename" /\ data' = data
      /\ \/ /\ ~IsDir(d) \/ p \notin DOMAIN tree
            /\ Finish(c, IF ~IsDir(d) THEN Missing(View, d) ELSE Missing(View, p))
            /\ tree' = tree
         \/ /\ IsDir(d) /\ p \in DOMAIN tree /\ (refused \/ p = q)
            /\ Finish(c, IF refused THEN "error" ELSE "ok")
            /\ tree' = tree
         \/ /\ IsDir(d) /\ p \in DOMAIN tree /\ ~refused /\ p # q
            /\ tree' = Relocated(tree, p, q) /\ Answer(c, "ok")
  BY DEF Rename
<1>3. /\ r.op = "move" /\ N = {p, q} /\ p \in Path /\ q \in Path /\ Whole(b) /\ Whole(v)
      /\ DOMAIN v = DOMAIN tree /\ DOMAIN x \subseteq Path
      /\ d \in DOMAIN v /\ v[d].dir /\ Sees(v, x, N) /\ ~Blocked(b, d)
      /\ \A s \in N : (s \in DOMAIN v <=> s \in DOMAIN x) /\ (s \in DOMAIN x => v[s] = x[s])
      /\ Missing(v, p) = Missing(b, p)
      /\ ~(q \in DOMAIN v /\ v[q].dir)
  BY <1>2, MoveFacts
<1>4. \A s \in DOMAIN tree : v[s].dir = IsDir(s) BY ViewIs DEF TreeInv
<1>5. r.op \notin Reads BY <1>3 DEF Reads
<1>6. IsDir(d) /\ ~IsDir(q) BY <1>3, <1>4 DEF IsDir
<1>7. Children(q) = {}
  <2>1. ASSUME NEW s \in Children(q) PROVE FALSE
    <3>1. s \in DOMAIN tree /\ s # Root /\ Parent(s) = q /\ s \in Path
      BY <2>1 DEF Children, ChildrenIn, TreeInv, IsTree
    <3>2. IsPrefix(q, s) /\ q # s BY <3>1, PathParent
    <3>3. q \in DOMAIN tree /\ tree[q] = DirIno BY <1>3, <3>1, <3>2 DEF TreeInv, IsTree
    <3> QED BY <1>6, <3>3 DEF IsDir
  <2> QED BY <2>1
<1> HIDE DEF x
<1>8. ASSUME NEW s, Answer(c, s) \/ Finish(c, s), NEW u, Promise(b, r) = Outcome(s, u), Sees(View', u, N)
      PROVE  PromiseOK(View', tree', same'[c], b, pc'[c], r, job'[c], answer'[c])
  BY <1>3, <1>5, <1>8, Done
<1>9. ASSUME tree' = tree PROVE View' = View BY <1>2, <1>9 DEF View
<1>10. CASE p \notin DOMAIN tree
  <2>1. Finish(c, Missing(b, p)) /\ tree' = tree BY <1>2, <1>3, <1>6, <1>10
  <2>2. Promise(b, r) = Outcome(Missing(b, p), x) BY <1>3, <1>10, MoveOutcome DEF x
  <2> QED BY <1>3, <1>8, <1>9, <2>1, <2>2
<1>11. CASE p \in DOMAIN tree /\ refused
  <2>1. Finish(c, "error") /\ tree' = tree BY <1>2, <1>6, <1>11
  <2>2. p \in DOMAIN x BY <1>3, <1>11
  <2>3. \/ p # q /\ IsPrefix(p, q)
        \/ q \in DOMAIN x /\ x[p].dir
    BY <1>3, <1>4, <1>6, <1>7, <1>11, <2>2 DEF IsDir, IsFile
  <2>4. Promise(b, r) = Outcome("error", x)
    <3>1. CASE p # q /\ IsPrefix(p, q) BY <1>3, <2>2, <3>1, MoveOutcome DEF x
    <3>2. CASE q \in DOMAIN x /\ x[p].dir BY <1>3, <2>2, <3>2, MoveOutcome DEF x
    <3> QED BY <2>3, <3>1, <3>2
  <2> QED BY <1>3, <1>8, <1>9, <2>1, <2>4
<1>12. ASSUME p \in DOMAIN tree, ~refused
       PROVE  p \in DOMAIN x /\ Promise(b, r) = Outcome("ok", Relocated(x, p, q))
  <2>1. p \in DOMAIN x /\ ~(q # p /\ IsPrefix(p, q)) BY <1>3, <1>12
  <2>2. ASSUME q \in DOMAIN x PROVE ~x[q].dir /\ ~x[p].dir
    <3>1. q \in DOMAIN v /\ v[q] = x[q] /\ v[p] = x[p] BY <1>3, <2>1, <2>2
    <3>2. IsFile(q) BY <1>3, <1>6, <3>1 DEF IsFile, IsDir
    <3>3. ~IsDir(p) BY <1>12, <3>2
    <3> QED BY <1>3, <1>4, <1>12, <3>1, <3>3
  <2> QED BY <1>3, <2>1, <2>2, MoveOutcome DEF x
<1>13. CASE p \in DOMAIN tree /\ ~refused /\ p = q
  <2>1. Finish(c, "ok") /\ tree' = tree BY <1>2, <1>6, <1>13
  <2>2. p \in DOMAIN x /\ Promise(b, r) = Outcome("ok", Relocated(x, p, p)) BY <1>12, <1>13
  <2> DEFINE y == Relocated(x, p, p)
  <2>3. DOMAIN y = DOMAIN x /\ \A s \in DOMAIN x : y[s] = x[s] BY <1>3, <2>2, NotRelocated
  <2> HIDE DEF y
  <2>4. Sees(View', y, N) BY <1>3, <1>9, <2>1, <2>3, SeesAlike
  <2> QED BY <1>8, <2>1, <2>2, <2>4 DEF y
<1>14. CASE p \in DOMAIN tree /\ ~refused /\ p # q
  <2>1. tree' = Relocated(tree, p, q) /\ Answer(c, "ok") BY <1>2, <1>6, <1>14
  <2>2. p \in DOMAIN x /\ Promise(b, r) = Outcome("ok", Relocated(x, p, q)) BY <1>12, <1>14
  <2>3. /\ ~IsPrefix(p, q) /\ ~IsPrefix(q, p)
        /\ \A s \in DOMAIN tree : IsPrefix(q, s) => s = q
    <3>1. p \in DOMAIN tree /\ q \in Path /\ p # q /\ IsTree(tree) BY <1>3, <1>14 DEF TreeInv
    <3>2. /\ ~(p # q /\ IsPrefix(p, q)) /\ ~(IsDir(p) /\ (IsFile(q) \/ Children(q) # {}))
          /\ ~(IsFile(p) /\ IsDir(q))
      BY <1>14
    <3> HIDE DEF p, q
    <3> QED BY <3>1, <3>2, MayMove
  <2>4. \A s \in Path : IsPrefix(p, s) => Moved(p, q, s) \in Path
    BY <1>3, <2>3, JobOf, AskedOK
  <2>5. IsRelocated(v, p, q, View')
    <3> HIDE DEF p, q
    <3> QED BY <1>2, <1>3, <1>14, <2>1, <2>3, <2>4, ViewRelocated DEF TreeInv
  <2> DEFINE y == Relocated(x, p, q)
  <2>6. IsRelocated(x, p, q, y)
    <3>1. \A s \in DOMAIN x : IsPrefix(q, s) => s = q
      <4>1. ASSUME NEW s \in DOMAIN x, IsPrefix(q, s) PROVE s \in DOMAIN tree
        <5>1. s \in Path /\ Below(s, N) BY <1>3, <4>1 DEF Below
        <5> QED BY <1>3, <5>1 DEF Sees
      <4> QED BY <2>3, <4>1
    <3> HIDE DEF p, q, y
    <3>2. /\ \A s \in Path : ~IsPrefix(p, s) /\ ~IsPrefix(q, s) =>
               (s \in DOMAIN y <=> s \in DOMAIN x) /\ (s \in DOMAIN x => y[s] = x[s])
          /\ \A s \in Path : IsPrefix(p, s) => s \notin DOMAIN y
          /\ \A s \in Path : IsPrefix(q, s) =>
               /\ IsPrefix(p, Moved(q, p, s))
               /\ s \in DOMAIN y <=> Moved(q, p, s) \in DOMAIN x
               /\ s \in DOMAIN y => y[s] = x[Moved(q, p, s)]
      BY <1>3, <2>2, <2>3, <2>4, <3>1, RelocatedIs DEF y
    <3> QED BY <3>2 DEF IsRelocated
  <2> HIDE DEF y
  <2>7. DOMAIN v \subseteq Path BY <1>3 DEF Whole, IsView
  <2>8. Sees(View', y, N)
    <3> HIDE DEF p, q, N, v
    <3> QED BY <1>3, <2>5, <2>6, <2>7, SeesRelocated
  <2> QED BY <1>8, <2>1, <2>2, <2>8 DEF y
<1> QED BY <1>10, <1>11, <1>13, <1>14

-------------------------------------------------------------------------------
(* What is removed *)

\* a request to remove that is under way
LEMMA StillRemoving ==
  ASSUME NEW v, NEW t, NEW s, NEW b, NEW r, NEW j, NEW a, Whole(b),
         r.op = "delete", Deleting(v, b, r, j.todo)
  PROVE  PromiseOK(v, t, s, b, "remove", r, j, a)
BY DEF PromiseOK, Reads

\* what is removed is a leaf, or was not there any more
LEMMA LeafRemoved ==
  ASSUME IsTree(tree), NEW p \in Path, Children(p) = {}, data' = data,
         tree' = IF p \in DOMAIN tree THEN Without(tree, p) ELSE tree
  PROVE  View' = Without(View, p) /\ p \notin DOMAIN tree'
<1>1. IsPrefix(p, p) /\ p \in Within(p) BY PathOrder DEF Within
<1>2. CASE p \in DOMAIN tree
  <2>1. /\ DOMAIN tree' = DOMAIN tree \ Within(p)
        /\ \A q \in DOMAIN tree' : tree'[q] = tree[q]
    BY <1>2 DEF Without
  <2>2. View' = [q \in DOMAIN tree' |-> IF tree'[q] = DirIno THEN Dir ELSE File(data[tree'[q]])]
    BY DEF View
  <2>3. /\ DOMAIN View' = DOMAIN View \ Within(p)
        /\ \A q \in DOMAIN View' : View'[q] = View[q]
    BY <2>1, <2>2 DEF View
  <2>4. View' = [q \in DOMAIN View \ Within(p) |-> View[q]] BY <2>2, <2>3
  <2> QED BY <1>1, <2>1, <2>4 DEF Without
<1>3. CASE p \notin DOMAIN tree
  <2>1. ChildrenIn(tree, p) = {} BY DEF Children
  <2>2. \A s \in DOMAIN tree : IsPrefix(p, s) => s = p BY <2>1, NothingBelow
  <2>3. DOMAIN View \ Within(p) = DOMAIN View
    BY <1>3, <2>2 DEF Within, View
  <2>4. View = [q \in DOMAIN View |-> View[q]] BY DEF View
  <2>5. View' = View BY <1>3 DEF View
  <2>6. [q \in DOMAIN View \ Within(p) |-> View[q]] = [q \in DOMAIN View |-> View[q]] BY <2>3
  <2> QED BY <1>3, <2>4, <2>5, <2>6 DEF Without
<1> QED BY <1>2, <1>3

LEMMA WithoutBoth ==
  ASSUME NEW v, DOMAIN v \subseteq Path, NEW p \in Path, NEW q \in Path, IsPrefix(q, p)
  PROVE  Without(Without(v, p), q) = Without(v, q)
<1>1. \A s \in Within(p) : s \in Within(q) BY PathOrder DEF Within
<1>2. (DOMAIN v \ Within(p)) \ Within(q) = DOMAIN v \ Within(q) BY <1>1
<1>3. \A s \in DOMAIN v \ Within(p) : Without(v, p)[s] = v[s] BY DEF Without
<1>4. DOMAIN Without(v, p) = DOMAIN v \ Within(p) BY DEF Without
<1>5. DOMAIN Without(v, p) \ Within(q) = DOMAIN v \ Within(q) BY <1>2, <1>4
<1>6. \A s \in DOMAIN v \ Within(q) : Without(v, p)[s] = v[s] BY <1>2, <1>3
<1>7. Without(Without(v, p), q) = [s \in DOMAIN Without(v, p) \ Within(q) |-> Without(v, p)[s]] BY DEF Without
<1>8. Without(v, q) = [s \in DOMAIN v \ Within(q) |-> v[s]] BY DEF Without
<1> QED BY <1>5, <1>6, <1>7, <1>8

\* the way to p is the same without p
LEMMA BlockedWithout ==
  ASSUME NEW v, DOMAIN v \subseteq Path, NEW p \in Path, p # Root
  PROVE  Blocked(Without(v, p), Parent(p)) <=> Blocked(v, Parent(p))
<1>1. \A q \in Path : IsPrefix(q, Parent(p)) => ~IsPrefix(p, q)
  <2> SUFFICES ASSUME NEW q \in Path, IsPrefix(q, Parent(p)), IsPrefix(p, q) PROVE FALSE OBVIOUS
  <2>1. Parent(p) \in Path /\ Parent(p) # p /\ IsPrefix(Parent(p), p) BY PathParent
  <2>2. IsPrefix(p, Parent(p)) BY <2>1, PathOrder
  <2> QED BY <2>1, <2>2, PathOrder
<1>2. DOMAIN Without(v, p) = DOMAIN v \ Within(p) /\ \A q \in DOMAIN v \ Within(p) : Without(v, p)[q] = v[q]
  BY DEF Without
<1>3. \A q \in DOMAIN v : IsPrefix(q, Parent(p)) => q \in DOMAIN v \ Within(p)
  BY <1>1 DEF Within
<1> QED BY <1>2, <1>3 DEF Blocked

\* ... and nothing is below what cannot be there
LEMMA NothingBehind ==
  ASSUME NEW b, Whole(b), NEW p \in Path, p # Root, Blocked(b, Parent(p))
  PROVE  \A s \in DOMAIN b : ~IsPrefix(p, s)
<1>1. PICK q \in DOMAIN b : IsPrefix(q, Parent(p)) /\ ~b[q].dir BY DEF Blocked
<1>2. q \in Path /\ DOMAIN b \subseteq Path /\ Parent(p) \in Path /\ Parent(p) # p /\ IsPrefix(Parent(p), p)
  BY PathParent DEF Whole, IsView
<1> SUFFICES ASSUME NEW s \in DOMAIN b, IsPrefix(p, s) PROVE FALSE OBVIOUS
<1>3. IsPrefix(q, p) /\ IsPrefix(q, s) /\ s \in Path BY <1>1, <1>2, PathOrder
<1>4. q # s
  <2>1. ASSUME q = s PROVE FALSE
    <3>1. IsPrefix(p, q) BY <2>1
    <3>2. q = p BY <1>2, <1>3, <3>1, PathOrder
    <3>3. IsPrefix(p, Parent(p)) BY <1>1, <3>2
    <3> QED BY <1>2, <3>3, PathOrder
  <2> QED BY <2>1
<1>5. b[q] = Dir BY <1>2, <1>3, <1>4 DEF Whole, IsView
<1>6. Dir.dir = TRUE BY DEF Dir
<1> QED BY <1>1, <1>5, <1>6

LEMMA RefuseRootPromise ==
  ASSUME TreeInv, TreeInv', ReachInv, ReaderInv, PromiseInv, NEW c \in Client, RefuseRoot(c)
  PROVE  PromiseInv'
<1>1. Spares(c) BY QuietSpares
<1> SUFFICES ASSUME base[c] # NoView, ~CopiesOntoItself(req[c])
             PROVE  PromiseOK(View', tree', same'[c], base[c], pc'[c], req[c], job'[c], answer'[c])
  BY <1>1, PromiseStepOf
<1> DEFINE b == base[c]  r == req[c]  j == job[c]  v == View  N == Named(r)
<1>2. pc[c] = "remove" /\ View' = v /\ Finish(c, "error") /\ j.todo[1].at = Root
  BY DEF RefuseRoot, View
<1>3. PromiseOK(v, tree, same[c], b, "remove", r, j, answer[c]) /\ Whole(b) /\ AtOp("remove", r)
  BY <1>2, OwnFacts
<1>4. r.op = "delete" BY <1>3 DEF AtOp
<1>5. r.path = Root /\ Sees(v, b, N) BY <1>2, <1>3, <1>4 DEF PromiseOK, Deleting
<1>6. Promise(b, r) = Outcome("error", b)
  <2> HIDE DEF b, r
  <2> QED BY <1>4, <1>5, PromiseOf
<1>7. r.op \notin Reads BY <1>4 DEF Reads
<1> HIDE DEF b, r, v
<1> QED BY <1>2, <1>3, <1>5, <1>6, <1>7, Done DEF N, b, r, v

\* what is on the stack: the directory that was removed is not there any more
LEMMA DeletingFront ==
  ASSUME NEW v, IsView(v), NEW b, NEW r, r.path \in Path, r.path # Root,
         NEW t \in Seq([at : Seq(Names), listed : BOOLEAN]), t # <<>>, Len(t) > 1,
         Deleting(v, b, r, t)
  PROVE  Deleting(Without(v, t[Len(t)].at), b, r, Front(t))
<1> DEFINE p == t[Len(t)].at  w == Without(v, p)  f == Front(t)  E == [at : Seq(Names), listed : BOOLEAN]
<1>1. /\ Len(t) \in Nat \ {0} /\ DOMAIN t = 1 .. Len(t)
      /\ \A i \in DOMAIN f : i \in DOMAIN t /\ i # Len(t) /\ f[i] = t[i]
      /\ \A i \in DOMAIN t : i # Len(t) => i \in DOMAIN f
  <2> HIDE DEF E
  <2>1. t \in Seq(E) BY DEF E
  <2> QED BY <2>1, FrontIs
<1>2. 1 \in DOMAIN f /\ Len(t) \in DOMAIN t BY <1>1
<1>3. /\ f[1].at = r.path
      /\ \A i \in DOMAIN t : t[i].at \in Path /\ IsPrefix(r.path, t[i].at)
      /\ Sees(Without(v, r.path), Without(b, r.path), Named(r))
  BY <1>1, <1>2 DEF Deleting
<1>4. p \in Path /\ IsPrefix(r.path, p) /\ DOMAIN v \subseteq Path BY <1>2, <1>3 DEF IsView
<1>5. Sees(Without(w, r.path), Without(b, r.path), Named(r))
  BY <1>3, <1>4, WithoutBoth
<1>6. /\ DOMAIN w = DOMAIN v \ Within(p)
      /\ \A s \in DOMAIN w : w[s] = v[s]
      /\ p \notin DOMAIN w
  <2>1. p \in Within(p) BY <1>4, PathOrder DEF Within
  <2> QED BY <2>1 DEF Without
<1> HIDE DEF w, f
<1>7. ASSUME NEW i \in DOMAIN f, f[i].listed
      PROVE  /\ f[i].at \in DOMAIN w => w[f[i].at].dir
             /\ \A s \in ChildrenIn(w, f[i].at) : \E k \in DOMAIN f : i < k /\ f[k].at = s
  <2>1. i \in DOMAIN t /\ f[i] = t[i] /\ t[i].listed BY <1>1, <1>7
  <2> DEFINE a == t[i].at
  <2>2. /\ a \in DOMAIN v => v[a].dir
        /\ \A s \in ChildrenIn(v, a) : \E k \in DOMAIN t : i < k /\ t[k].at = s
    BY <2>1 DEF Deleting
  <2>3. ASSUME NEW s \in ChildrenIn(w, a)
        PROVE  \E k \in DOMAIN f : i < k /\ f[k].at = s
    <3>1. s \in ChildrenIn(v, a) /\ s # p BY <1>6, <2>3 DEF ChildrenIn
    <3>2. PICK k \in DOMAIN t : i < k /\ t[k].at = s BY <2>2, <3>1
    <3>3. k # Len(t) BY <3>1, <3>2
    <3>4. k \in DOMAIN f /\ f[k] = t[k] BY <1>1, <3>3
    <3> QED BY <3>2, <3>4
  <2> QED BY <1>6, <2>1, <2>2, <2>3
<1>8. \A i \in DOMAIN f : f[i].at \in Path /\ IsPrefix(r.path, f[i].at) BY <1>1, <1>3
<1>9. Deleting(w, b, r, f) BY <1>3, <1>5, <1>7, <1>8 DEF Deleting
<1> QED BY <1>9 DEF w, f, p

\* ... a directory that has just been listed
LEMMA DeletingListed ==
  ASSUME NEW v, IsView(v), NEW b, NEW r, r.path \in Path,
         NEW t \in Seq([at : Seq(Names), listed : BOOLEAN]), t # <<>>, Deleting(v, b, r, t),
         t[Len(t)].at \in DOMAIN v => v[t[Len(t)].at].dir,
         NEW C, IsFiniteSet(C), C \subseteq Path, ChildrenIn(v, t[Len(t)].at) \subseteq C,
         \A s \in C : IsPrefix(t[Len(t)].at, s),
         NEW names \in SetToSeqs(C)
  PROVE  Deleting(v, b, r, Listed(t, names))
<1> DEFINE n == Len(t)  p == t[n].at  new == Listed(t, names)  E == [at : Seq(Names), listed : BOOLEAN]
<1>1. /\ n \in Nat \ {0} /\ DOMAIN t = 1 .. n /\ \A i \in DOMAIN t : i \in DOMAIN new /\ i <= n
      /\ \A i \in DOMAIN t : new[i].at = t[i].at /\ (new[i].listed => i = n \/ t[i].listed)
      /\ \A i \in DOMAIN new :
           i \in Nat /\ (i \in DOMAIN t \/ (n < i /\ new[i].at \in C /\ ~new[i].listed))
      /\ \A s \in C : \E i \in DOMAIN new : n < i /\ new[i].at = s
  <2>1. C \subseteq Seq(Names) BY PathIsNames
  <2>2. /\ Len(t) \in Nat \ {0} /\ DOMAIN t = 1 .. Len(t)
        /\ \A i \in DOMAIN t : i \in DOMAIN Listed(t, names) /\ i <= Len(t)
    BY <2>1, ListedIs
  <2>3. \A i \in DOMAIN t : /\ Listed(t, names)[i].at = t[i].at
                            /\ Listed(t, names)[i].listed => i = Len(t) \/ t[i].listed
    BY <2>1, ListedIs
  <2>4. \A i \in DOMAIN Listed(t, names) :
          /\ i \in Nat
          /\ \/ i \in DOMAIN t
             \/ Len(t) < i /\ Listed(t, names)[i].at \in C /\ ~Listed(t, names)[i].listed
    BY <2>1, ListedIs
  <2>5. \A s \in C : OnTop(s, Listed(t, names), Len(t)) BY <2>1, ListedIs
  <2> QED BY <2>2, <2>3, <2>4, <2>5 DEF OnTop
<1>2. 1 \in DOMAIN t /\ n \in DOMAIN t BY <1>1
<1>3. /\ t[1].at = r.path
      /\ r.path = Root => Sees(v, b, Named(r))
      /\ Sees(Without(v, r.path), Without(b, r.path), Named(r))
      /\ \A i \in DOMAIN t : t[i].at \in Path /\ IsPrefix(r.path, t[i].at)
      /\ \A i \in DOMAIN t : t[i].listed =>
           /\ t[i].at \in DOMAIN v => v[t[i].at].dir
           /\ \A s \in ChildrenIn(v, t[i].at) : \E k \in DOMAIN t : i < k /\ t[k].at = s
  BY DEF Deleting
<1> HIDE DEF new, n
<1>4. \A i \in DOMAIN new : new[i].at \in Path /\ IsPrefix(r.path, new[i].at)
  <2> SUFFICES ASSUME NEW i \in DOMAIN new PROVE new[i].at \in Path /\ IsPrefix(r.path, new[i].at)
    OBVIOUS
  <2>1. CASE i \in DOMAIN t BY <1>1, <1>3, <2>1
  <2>2. CASE i \notin DOMAIN t
    <3>1. new[i].at \in C BY <1>1, <2>2
    <3>2. p \in Path /\ IsPrefix(r.path, p) BY <1>2, <1>3
    <3>3. new[i].at \in Path /\ IsPrefix(p, new[i].at) BY <3>1 DEF n
    <3> QED BY <3>2, <3>3, PathOrder
  <2> QED BY <2>1, <2>2
<1>5. ASSUME NEW i \in DOMAIN new, new[i].listed
      PROVE  /\ new[i].at \in DOMAIN v => v[new[i].at].dir
             /\ \A s \in ChildrenIn(v, new[i].at) : \E k \in DOMAIN new : i < k /\ new[k].at = s
  <2>1. i \in DOMAIN t /\ new[i].at = t[i].at BY <1>1, <1>5
  <2>2. CASE i = n
    <3>1. new[i].at = p BY <2>1, <2>2
    <3>2. p \in DOMAIN v => v[p].dir BY DEF n
    <3>3. \A s \in ChildrenIn(v, p) : s \in C BY DEF n
    <3> HIDE DEF p
    <3> QED BY <1>1, <2>2, <3>1, <3>2, <3>3
  <2>3. CASE i # n
    <3>1. t[i].listed BY <1>1, <1>5, <2>1, <2>3
    <3>2. /\ t[i].at \in DOMAIN v => v[t[i].at].dir
          /\ \A s \in ChildrenIn(v, t[i].at) : \E k \in DOMAIN t : i < k /\ t[k].at = s
      BY <1>3, <2>1, <3>1
    <3>3. \A k \in DOMAIN t : k \in DOMAIN new /\ new[k].at = t[k].at BY <1>1
    <3> QED BY <2>1, <3>2, <3>3
  <2> QED BY <2>2, <2>3
<1>6. new[1].at = r.path BY <1>1, <1>2, <1>3
<1> QED BY <1>3, <1>4, <1>5, <1>6 DEF Deleting, new

LEMMA RemoveEntryPromise ==
  ASSUME TreeInv, TreeInv', ReachInv, ReaderInv, PromiseInv, NEW c \in Client, RemoveEntry(c)
  PROVE  PromiseInv'
<1>1. Spares(c) BY RemoveSpares
<1> SUFFICES ASSUME base[c] # NoView, ~CopiesOntoItself(req[c])
             PROVE  PromiseOK(View', tree', same'[c], base[c], pc'[c], req[c], job'[c], answer'[c])
  BY <1>1, PromiseStepOf
<1> DEFINE b == base[c]  r == req[c]  v == View  N == Named(r)  todo == job[c].todo  p == Last(todo).at
           E == [at : Seq(Names), listed : BOOLEAN]
           removed == \/ IsFile(p) /\ ~Last(todo).listed
                      \/ IsDir(p) /\ Children(p) = {}
<1>2. pc[c] = "remove" /\ data' = data /\ todo[1].at # Root BY DEF RemoveEntry
<1>3. /\ PromiseOK(v, tree, same[c], b, "remove", r, job[c], answer[c]) /\ Whole(b) /\ AtOp("remove", r)
      /\ Whole(v) /\ DOMAIN v = DOMAIN tree /\ JobOK(job[c]) /\ AtStep("remove", r, job[c])
      /\ r.path \in Path /\ N \subseteq Path
  BY <1>2, OwnFacts
<1>4. r.op = "delete" /\ Deleting(v, b, r, todo) BY <1>3 DEF AtOp, PromiseOK
<1>5. /\ todo \in Seq(E) /\ todo # <<>> /\ Len(todo) \in Nat \ {0} /\ DOMAIN todo = 1 .. Len(todo)
      /\ Len(todo) \in DOMAIN todo /\ Last(todo) = todo[Len(todo)]
  BY <1>2, <1>3, TopEntry DEF AtStep, Removing, Last
<1>6. /\ p \in Path /\ IsPrefix(r.path, p) /\ todo[1].at = r.path /\ r.path # Root
      /\ Last(todo).listed => /\ p \in DOMAIN v => v[p].dir
                              /\ \A s \in ChildrenIn(v, p) : \E k \in DOMAIN todo : Len(todo) < k
  BY <1>2, <1>4, <1>5 DEF Deleting
<1>7. p # Root
  BY <1>3, <1>6, PathOrder
<1>8. IsView(v) /\ \A s \in DOMAIN tree : v[s].dir = IsDir(s) BY ViewIs DEF TreeInv
<1>9. ChildrenIn(v, p) = Children(p) BY <1>3 DEF Children, ChildrenIn
<1> HIDE DEF v
<1>10. CASE MustList(Last(todo))
  <2>1. Children(p) # {} BY <1>10 DEF MustList
  <2>2. UNCHANGED <<tree, pc>> /\ View' = v
    BY <1>2, <1>10 DEF RemoveEntry, View, v
  <2>3. PICK names \in SetToSeqs(Children(p)) : job' = [job EXCEPT ![c].todo = Listed(todo, names)]
    BY <1>10 DEF RemoveEntry, Listed
  <2>4. job'[c].todo = Listed(todo, names) BY <1>3, <2>3 DEF TreeInv, JobOK, NoJob
  <2>5. /\ IsFiniteSet(Children(p)) /\ Children(p) \subseteq Path
        /\ \A s \in Children(p) : s \in DOMAIN tree /\ s # Root /\ Parent(s) = p
    <3> HIDE DEF p
    <3> QED BY FS_Subset DEF TreeInv, IsTree, Children, ChildrenIn
  <2>6. \A s \in Children(p) : IsPrefix(p, s)
    <3> HIDE DEF p
    <3> QED BY <2>5, PathParent
  <2>7. p \in DOMAIN v => v[p].dir
    <3>1. PICK s \in Children(p) : TRUE BY <2>1
    <3> HIDE DEF p
    <3>2. s \in DOMAIN tree /\ s \in Path /\ p # s /\ IsPrefix(p, s) BY <2>5, <2>6, <3>1, PathParent
    <3>3. IsDir(p) BY <1>6, <3>2 DEF TreeInv, IsTree, IsDir
    <3> QED BY <1>3, <1>8, <3>3
  <2>8. Deleting(v, b, r, Listed(todo, names))
    <3> DEFINE C == Children(p)
    <3>1. /\ IsFiniteSet(C) /\ C \subseteq Path /\ names \in SetToSeqs(C)
          /\ \A s \in C : IsPrefix(p, s) /\ ChildrenIn(v, p) \subseteq C
      BY <1>9, <2>5, <2>6
    <3>2. ChildrenIn(v, p) \subseteq C BY <1>9
    <3>3. p = todo[Len(todo)].at BY <1>5
    <3> HIDE DEF C, todo, E, b, r, p
    <3>4. todo \in Seq([at : Seq(Names), listed : BOOLEAN]) BY <1>5 DEF E
    <3> QED BY <1>3, <1>4, <1>5, <1>8, <2>7, <3>1, <3>2, <3>3, <3>4, DeletingListed
  <2>9. pc'[c] = "remove" BY <1>2, <2>2
  <2> HIDE DEF b, r, todo
  <2> QED BY <1>3, <1>4, <2>2, <2>4, <2>8, <2>9, StillRemoving DEF b, r
<1>11. CASE ~MustList(Last(todo))
  <2>1. /\ tree' = IF removed THEN Without(tree, p) ELSE tree
        /\ job'[c] = [job[c] EXCEPT !.todo = Front(@)]
        /\ IF Len(todo) > 1 THEN UNCHANGED <<pc, answer>>
           ELSE Answer(c, IF p \in DOMAIN tree' \/ Blocked(View, Parent(p)) THEN "error" ELSE "ok")
    BY <1>11 DEF RemoveEntry
  <2>2. Children(p) = {}
    <3>1. CASE ~Last(todo).listed BY <1>11, <3>1 DEF MustList
    <3>2. CASE Last(todo).listed
      <4>1. \A k \in DOMAIN todo : ~(Len(todo) < k) BY <1>5
      <4> QED BY <1>6, <1>9, <3>2, <4>1
    <3> QED BY <3>1, <3>2
  <2>3. removed <=> p \in DOMAIN tree
    <3>1. p \in DOMAIN tree /\ ~IsDir(p) => ~Last(todo).listed BY <1>3, <1>6, <1>8
    <3> QED BY <2>2, <3>1 DEF IsDir, IsFile
  <2>4. tree' = IF p \in DOMAIN tree THEN Without(tree, p) ELSE tree BY <2>1, <2>3
  <2>5. View' = Without(v, p) /\ p \notin DOMAIN tree'
    <3> HIDE DEF p
    <3> QED BY <1>2, <1>6, <2>2, <2>4, LeafRemoved DEF TreeInv, v
  <2>6. CASE Len(todo) > 1
    <3>1. pc'[c] = "remove" /\ answer' = answer BY <1>2, <2>1, <2>6
    <3>2. job'[c].todo = Front(todo) BY <1>3, <2>1 DEF JobOK, NoJob
    <3>3. p = todo[Len(todo)].at BY <1>5
    <3> HIDE DEF todo, E, b, r, p
    <3>4. todo \in Seq([at : Seq(Names), listed : BOOLEAN]) BY <1>5 DEF E
    <3>5. Deleting(Without(v, p), b, r, Front(todo))
      BY <1>3, <1>4, <1>5, <1>6, <1>8, <2>6, <3>3, <3>4, DeletingFront
    <3>6. PromiseOK(View', tree', same'[c], b, "remove", r, job'[c], answer'[c])
      BY <1>3, <1>4, <2>5, <3>2, <3>5, StillRemoving
    <3> QED BY <3>1, <3>6 DEF b, r
  <2>7. CASE ~(Len(todo) > 1)
    <3>1. Len(todo) = 1
      <4>1. \A n \in Nat \ {0} : ~(n > 1) => n = 1 OBVIOUS
      <4> QED BY <1>5, <2>7, <4>1, Zenon
    <3>2. p = r.path BY <1>5, <1>6, <3>1
    <3>3. Answer(c, IF Blocked(v, Parent(p)) THEN "error" ELSE "ok") BY <2>1, <2>5, <2>7 DEF v
    <3>4. Sees(Without(v, p), Without(b, p), N) BY <1>4, <3>2 DEF Deleting
    <3>5. r.op \notin Reads /\ p \in N BY <1>4, <3>2 DEF Reads, Named
    <3>6. /\ DOMAIN v \subseteq Path /\ DOMAIN b \subseteq Path
          /\ DOMAIN Without(v, p) \subseteq Path /\ DOMAIN Without(b, p) \subseteq Path
      BY <1>3 DEF Whole, IsView, Without
    <3> HIDE DEF p, b, r
    <3>7. Parent(p) \in Path /\ OnTheWay(Parent(p), N) BY <1>6, <1>7, <3>5, PathParent DEF OnTheWay
    <3>8. Blocked(v, Parent(p)) <=> Blocked(b, Parent(p))
      <4>1. Blocked(Without(v, p), Parent(p)) <=> Blocked(Without(b, p), Parent(p))
        BY <1>3, <3>4, <3>6, <3>7, BlockedToo
      <4> QED BY <1>6, <1>7, <3>6, <4>1, BlockedWithout
    <3>9. CASE Blocked(b, Parent(p))
      <4>1. Promise(b, r) = Outcome("error", b) BY <1>4, <3>2, <3>9, PromiseOf
      <4>2. Answer(c, "error") BY <3>3, <3>8, <3>9
      <4>3. \A s \in DOMAIN b : s \notin Within(p) BY <1>3, <1>6, <1>7, <3>9, NothingBehind DEF Within
      <4>4. DOMAIN b \ Within(p) = DOMAIN b BY <4>3
      <4>5. DOMAIN Without(b, p) = DOMAIN b /\ \A s \in DOMAIN b : Without(b, p)[s] = b[s]
        BY <4>4 DEF Without
      <4>6. Sees(Without(v, p), b, N) BY <3>4, <4>5 DEF Sees
      <4> QED BY <1>3, <2>5, <3>5, <4>1, <4>2, <4>6, Done DEF b, r, N
    <3>10. CASE ~Blocked(b, Parent(p))
      <4>1. Promise(b, r) = Outcome("ok", Without(b, p)) BY <1>4, <1>6, <3>2, <3>10, PromiseOf
      <4>2. Answer(c, "ok") BY <3>3, <3>8, <3>10
      <4> QED BY <1>3, <2>5, <3>4, <3>5, <4>1, <4>2, Done DEF b, r, N
    <3> QED BY <3>9, <3>10
  <2> QED BY <2>6, <2>7
<1> QED BY <1>10, <1>11

-------------------------------------------------------------------------------
(* What is listed, and what is searched *)

LEMMA PromiseOfList ==
  ASSUME NEW v, NEW r, r.op = "list", Whole(v)
  PROVE  /\ r.path \notin DOMAIN v => Promise(v, r) = Outcome(Missing(v, r.path), v)
         /\ r.path \in DOMAIN v /\ ~v[r.path].dir => Promise(v, r) = Outcome("error", v)
         /\ r.path \in DOMAIN v /\ v[r.path].dir => Promise(v, r) = Tells(v, EntriesIn(v, r.path))
<1>1. (r.op = "list") = TRUE /\ r.op # "stat" /\ r.op # "chmod" OBVIOUS
<1>2. r.path \in DOMAIN v => v[r.path].dir \in BOOLEAN BY DEF Whole, IsView
<1> QED BY <1>1, <1>2 DEF Promise, Reads, EntriesIn

LEMMA PromiseOfSearch ==
  ASSUME NEW v, NEW r, r.op = "search"
  PROVE  Promise(v, r) = Tells(v, Hits(v, r))
BY DEF Promise, Reads

\* a list or a search that is under way
OnTheList(b, r, todo, found) ==
  /\ r.path \in DOMAIN b /\ b[r.path].dir
  /\ found \subseteq EntriesIn(b, r.path)
  /\ \A i \in DOMAIN todo : todo[i].at \in ChildrenIn(b, r.path)
ToSearch(b, r, todo, found) ==
  /\ found \subseteq Hits(b, r)
  /\ \A i \in DOMAIN todo : LET p == todo[i].at IN
       IsPrefix(r.path, p) /\ p \in DOMAIN b /\ (~todo[i].dir => ~b[p].dir)

LEMMA Looking ==
  ASSUME NEW v, NEW t, NEW s, NEW b, NEW l, NEW r, NEW j, NEW a, Whole(b), Sees(v, b, Named(r)),
         \A p \in DOMAIN v : IsPrefix(r.path, p) => p \in s,
         \/ r.op = "list" /\ l = "info" /\ OnTheList(b, r, j.todo, j.found)
         \/ r.op = "search" /\ l = "visit" /\ ToSearch(b, r, j.todo, j.found)
  PROVE  PromiseOK(v, t, s, b, l, r, j, a)
BY DEF PromiseOK, Reads, OnTheList, ToSearch

LEMMA Looked ==
  ASSUME NEW v, NEW t, NEW s, NEW b, NEW l, NEW r, NEW j, NEW a, r.op \in {"list", "search"},
         PromiseOK(v, t, s, b, l, r, j, a)
  PROVE  /\ Sees(v, b, Named(r))
         /\ \A p \in DOMAIN v : IsPrefix(r.path, p) => p \in s
         /\ l \in {"list", "search"} => j.found = {}
         /\ r.op = "list" /\ l = "info" => OnTheList(b, r, j.todo, j.found)
         /\ r.op = "search" /\ l = "visit" => ToSearch(b, r, j.todo, j.found)
BY DEF PromiseOK, Reads, OnTheList, ToSearch

\* on with what is left, or done
LEMMA GoOnPromise ==
  ASSUME TreeInv, ReaderInv, NEW c \in Client, NEW rest, NEW found, GoOn(c, rest, found),
         NEW v, NEW t, NEW s, NEW b, NEW r, NEW j, NEW a, PromiseOK(v, t, s, b, pc[c], r, j, a), Whole(b),
         \/ r.op = "list" /\ pc[c] = "info" /\ OnTheList(b, r, rest, found)
         \/ /\ r.op = "search" /\ pc[c] = "visit" /\ ToSearch(b, r, rest, found)
            /\ IsFiniteSet(found) /\ Cardinality(found) <= r.limit
  PROVE  PromiseOK(v, t, s, b, pc'[c], r, job'[c], answer'[c])
<1>1. CASE rest = <<>>
  <2>1. FinishWith(c, "ok", found) BY <1>1 DEF GoOn
  <2>2. Promise(b, r) = Tells(b, IF r.op = "list" THEN EntriesIn(b, r.path) ELSE Hits(b, r))
    <3>1. CASE r.op = "list" BY <3>1, PromiseOfList DEF OnTheList
    <3>2. CASE r.op = "search" BY <3>2, PromiseOfSearch
    <3> QED BY <3>1, <3>2
  <2>3. /\ Promise(b, r).status = "ok" /\ Promise(b, r).view = b
        /\ Promise(b, r).body = IF r.op = "list" THEN EntriesIn(b, r.path) ELSE Hits(b, r)
    BY <2>2 DEF Tells
  <2>4. found \subseteq Promise(b, r).body BY <2>3 DEF OnTheList, ToSearch
  <2>5. r.op \in Reads /\ r.op \in {"list", "search"} BY DEF Reads
  <2>6. r.op = "search" => IsFiniteSet(found) /\ Cardinality(found) <= r.limit OBVIOUS
  <2> QED BY <2>1, <2>3, <2>4, <2>5, <2>6, Told
<1>2. CASE rest # <<>>
  <2>1. pc' = pc /\ job'[c] = [job[c] EXCEPT !.todo = rest, !.found = found]
    BY <1>2 DEF GoOn, TreeInv
  <2>2. job'[c].todo = rest /\ job'[c].found = found BY <2>1 DEF TreeInv, JobOK, NoJob
  <2>3. Sees(v, b, Named(r)) /\ \A p \in DOMAIN v : IsPrefix(r.path, p) => p \in s BY Looked
  <2> QED BY <2>1, <2>2, <2>3, Looking
<1> QED BY <1>1, <1>2

\* what is in and below the path that a list or a search names
LEMMA SeenBelow ==
  ASSUME NEW v, NEW b, NEW r, r.op \in {"list", "search"}, r.path \in Path, Sees(v, b, Named(r))
  PROVE  \A q \in Path : IsPrefix(r.path, q) =>
           (q \in DOMAIN v <=> q \in DOMAIN b) /\ (q \in DOMAIN b => v[q] = b[q])
<1>1. r.path \in Named(r) BY DEF Named
<1> QED BY <1>1 DEF Sees, Below

LEMMA SeenChildren ==
  ASSUME NEW v, NEW b, NEW r, r.op \in {"list", "search"}, r.path \in Path, Sees(v, b, Named(r)),
         DOMAIN v \subseteq Path, DOMAIN b \subseteq Path, NEW p \in Path, IsPrefix(r.path, p)
  PROVE  /\ ChildrenIn(v, p) = ChildrenIn(b, p)
         /\ \A q \in ChildrenIn(b, p) : IsPrefix(r.path, q) /\ v[q] = b[q]
<1>1. ASSUME NEW q \in Path, q # Root, Parent(q) = p
      PROVE  IsPrefix(r.path, q) /\ (q \in DOMAIN v <=> q \in DOMAIN b) /\ (q \in DOMAIN b => v[q] = b[q])
  <2>1. IsPrefix(p, q) BY <1>1, PathParent
  <2>2. IsPrefix(r.path, q) BY <2>1, PathOrder
  <2> QED BY <2>2, SeenBelow
<1> QED BY <1>1 DEF ChildrenIn

\* where a list or a search starts
ReaderFacts(c) ==
  LET b == base[c]  r == req[c]  v == View IN
  /\ PromiseOK(v, tree, same[c], b, pc[c], r, job[c], answer[c])
  /\ Whole(b) /\ Whole(v) /\ DOMAIN v = DOMAIN tree /\ DOMAIN v \subseteq Path /\ DOMAIN b \subseteq Path
  /\ Sees(v, b, Named(r)) /\ r.path \in Path /\ Named(r) \subseteq Path
  /\ r.path \in DOMAIN v <=> r.path \in DOMAIN b
  /\ r.path \in DOMAIN b => v[r.path] = b[r.path]
  /\ Missing(v, r.path) = Missing(b, r.path)
  /\ \A s \in DOMAIN tree : v[s].dir = IsDir(s)
  /\ \A p \in DOMAIN v : IsPrefix(r.path, p) => p \in same[c]

LEMMA ReaderStarts ==
  ASSUME TreeInv, ReachInv, PromiseInv, NEW c \in Client, base[c] # NoView, ~CopiesOntoItself(req[c]),
         req[c].op \in {"list", "search"}
  PROVE  ReaderFacts(c)
<1> DEFINE b == base[c]  r == req[c]  v == View
<1>1. /\ PromiseOK(v, tree, same[c], b, pc[c], r, job[c], answer[c])
      /\ Whole(b) /\ Whole(v) /\ DOMAIN v = DOMAIN tree
      /\ r.path \in Path /\ Named(r) \subseteq Path
  BY OwnFacts
<1>2. DOMAIN v \subseteq Path /\ DOMAIN b \subseteq Path BY <1>1 DEF Whole, IsView
<1>3. \A s \in DOMAIN tree : v[s].dir = IsDir(s) BY ViewIs DEF TreeInv
<1>4. r.op \in {"list", "search"} /\ r.op \notin {"write", "upload"} OBVIOUS
<1> HIDE DEF b, r, v
<1>5. Sees(v, b, Named(r)) /\ \A p \in DOMAIN v : IsPrefix(r.path, p) => p \in same[c]
  BY <1>1, <1>4, Looked
<1>6. /\ r.path \in DOMAIN v <=> r.path \in DOMAIN b
      /\ r.path \in DOMAIN b => v[r.path] = b[r.path]
      /\ Missing(v, r.path) = Missing(b, r.path)
  BY <1>1, <1>4, <1>5, PathSeen
<1> QED BY <1>1, <1>2, <1>3, <1>5, <1>6 DEF ReaderFacts, b, r, v

LEMMA ReadDirPromise ==
  ASSUME TreeInv, TreeInv', ReachInv, ReaderInv, PromiseInv, NEW c \in Client, ReadDir(c)
  PROVE  PromiseInv'
<1>1. Spares(c) /\ same' = same BY QuietSpares
<1> SUFFICES ASSUME base[c] # NoView, ~CopiesOntoItself(req[c])
             PROVE  PromiseOK(View', tree', same'[c], base[c], pc'[c], req[c], job'[c], answer'[c])
  BY <1>1, PromiseStepOf
<1> DEFINE b == base[c]  r == req[c]  v == View  p == r.path  j == job[c]
<1>2. pc[c] = "list" /\ tree' = tree /\ View' = v BY DEF ReadDir, View
<1>3. r.op = "list" BY <1>2, OwnFacts DEF AtOp
<1>4. ReaderFacts(c) BY <1>3, ReaderStarts
<1>5. /\ PromiseOK(v, tree, same[c], b, "list", r, j, answer[c])
      /\ Whole(b) /\ Whole(v) /\ DOMAIN v = DOMAIN tree /\ DOMAIN v \subseteq Path /\ DOMAIN b \subseteq Path
      /\ Sees(v, b, Named(r)) /\ p \in Path
      /\ p \in DOMAIN v <=> p \in DOMAIN b
      /\ p \in DOMAIN b => v[p] = b[p]
      /\ Missing(v, p) = Missing(b, p)
      /\ \A s \in DOMAIN tree : v[s].dir = IsDir(s)
      /\ \A s \in DOMAIN v : IsPrefix(r.path, s) => s \in same[c]
  BY <1>2, <1>4 DEF ReaderFacts
<1>6. IsPrefix(p, p) BY <1>5, PathOrder
<1> HIDE DEF v
<1>7. Children(p) = ChildrenIn(b, p)
  <2>1. ChildrenIn(v, p) = ChildrenIn(b, p)
    <3> HIDE DEF b, r
    <3>1. r.op \in {"list", "search"} BY <1>3
    <3> QED BY <1>5, <1>6, <3>1, SeenChildren
  <2>2. Children(p) = ChildrenIn(v, p) BY <1>5 DEF Children, ChildrenIn
  <2> QED BY <2>1, <2>2
<1>8. ASSUME NEW s, NEW bd, FinishWith(c, s, bd),
             Promise(b, r).status = s, Promise(b, r).view = b, bd \subseteq Promise(b, r).body
      PROVE  PromiseOK(v, tree, same[c], b, pc'[c], r, job'[c], answer'[c])
  <2>1. r.op \in Reads /\ r.op \in {"list", "search"} /\ r.op # "search" BY <1>3 DEF Reads
  <2> HIDE DEF b, r, j
  <2> QED BY <1>5, <1>8, <2>1, Told
<1>9. CASE p \notin DOMAIN tree \/ IsFile(p)
  <2>1. CASE p \notin DOMAIN tree
    <3>1. Finish(c, Missing(b, p)) BY <1>5, <2>1 DEF ReadDir, v
    <3>2. FinishWith(c, Missing(b, p), {}) BY <3>1 DEF Finish, FinishWith, Answer
    <3>3. p \notin DOMAIN b BY <1>5, <2>1
    <3> HIDE DEF b, r
    <3>4. Promise(b, r) = Outcome(Missing(b, p), b) BY <1>3, <1>5, <3>3, PromiseOfList
    <3> HIDE DEF p
    <3>5. Promise(b, r).status = Missing(b, p) /\ Promise(b, r).view = b /\ {} \subseteq Promise(b, r).body
      BY <3>4 DEF Outcome
    <3>6. PromiseOK(v, tree, same[c], b, pc'[c], r, job'[c], answer'[c]) BY <1>8, <3>2, <3>5
    <3> QED BY <1>1, <1>2, <3>6 DEF b, r
  <2>2. CASE p \in DOMAIN tree
    <3>1. Finish(c, "error") BY <1>9, <2>2 DEF ReadDir
    <3>2. FinishWith(c, "error", {}) BY <3>1 DEF Finish, FinishWith, Answer
    <3>3. p \in DOMAIN b /\ ~b[p].dir BY <1>5, <1>9, <2>2 DEF IsFile, IsDir
    <3> HIDE DEF b, r
    <3>4. Promise(b, r) = Outcome("error", b) BY <1>3, <1>5, <3>3, PromiseOfList
    <3> HIDE DEF p
    <3>5. Promise(b, r).status = "error" /\ Promise(b, r).view = b /\ {} \subseteq Promise(b, r).body
      BY <3>4 DEF Outcome
    <3>6. PromiseOK(v, tree, same[c], b, pc'[c], r, job'[c], answer'[c]) BY <1>8, <3>2, <3>5
    <3> QED BY <1>1, <1>2, <3>6 DEF b, r
  <2> QED BY <2>1, <2>2
<1>10. CASE p \in DOMAIN tree /\ ~IsFile(p)
  <2>1. p \in DOMAIN b /\ b[p].dir
    <3>1. IsDir(p) BY <1>10 DEF IsDir, IsFile
    <3>2. v[p].dir BY <1>5, <1>10, <3>1
    <3> QED BY <1>5, <1>10, <3>2
  <2>2. CASE Children(p) = {}
    <3>1. FinishWith(c, "ok", {}) BY <1>10, <2>2 DEF ReadDir
    <3> HIDE DEF b, r
    <3>2. Promise(b, r) = Tells(b, EntriesIn(b, p)) BY <1>3, <1>5, <2>1, PromiseOfList
    <3> HIDE DEF p
    <3>3. Promise(b, r).status = "ok" /\ Promise(b, r).view = b /\ {} \subseteq Promise(b, r).body
      BY <3>2 DEF Tells
    <3>4. PromiseOK(v, tree, same[c], b, pc'[c], r, job'[c], answer'[c]) BY <1>8, <3>1, <3>3
    <3> QED BY <1>1, <1>2, <3>4 DEF b, r
  <2>3. CASE Children(p) # {}
    <3>1. job' = [job EXCEPT ![c].todo = Entries(p)] /\ Goto(c, "info") BY <1>10, <2>3 DEF ReadDir
    <3> DEFINE k == job'[c]  es == Entries(p)
    <3>2. k.todo = es /\ k.found = j.found /\ pc'[c] = "info"
      BY <3>1 DEF TreeInv, JobOK, NoJob, Goto
    <3>3. j.found = {}
      <4> HIDE DEF b, r, j
      <4> QED BY <1>3, <1>5, Looked
    <3>4. \A i \in DOMAIN es : es[i].at \in Children(p) BY EntriesAre DEF TreeInv
    <3> HIDE DEF es, k
    <3>5. OnTheList(b, r, k.todo, k.found) BY <1>7, <2>1, <3>2, <3>3, <3>4 DEF OnTheList
    <3> HIDE DEF b, r
    <3>6. PromiseOK(v, tree, same[c], b, "info", r, k, answer'[c]) BY <1>3, <1>5, <3>5, Looking
    <3> QED BY <1>1, <1>2, <3>2, <3>6 DEF b, r, k
  <2> QED BY <2>2, <2>3
<1> QED BY <1>9, <1>10

LEMMA InfoPromise ==
  ASSUME TreeInv, TreeInv', ReachInv, ReaderInv, PromiseInv, NEW c \in Client, Info(c)
  PROVE  PromiseInv'
<1>1. Spares(c) /\ same' = same BY QuietSpares
<1> SUFFICES ASSUME base[c] # NoView, ~CopiesOntoItself(req[c])
             PROVE  PromiseOK(View', tree', same'[c], base[c], pc'[c], req[c], job'[c], answer'[c])
  BY <1>1, PromiseStepOf
<1> DEFINE b == base[c]  r == req[c]  v == View  j == job[c]  p == Head(j.todo).at
           found == j.found \cup IF p \in DOMAIN tree THEN {<<p, IsDir(p)>>} ELSE {}
           rest == Tail(j.todo)
<1>2. pc[c] = "info" /\ tree' = tree /\ View' = v /\ GoOn(c, rest, found) BY DEF Info, View
<1>3. r.op = "list" BY <1>2, OwnFacts DEF AtOp
<1>4. ReaderFacts(c) BY <1>3, ReaderStarts
<1>5. /\ PromiseOK(v, tree, same[c], b, pc[c], r, j, answer[c])
      /\ Whole(b) /\ DOMAIN v = DOMAIN tree /\ DOMAIN v \subseteq Path /\ DOMAIN b \subseteq Path
      /\ Sees(v, b, Named(r)) /\ r.path \in Path
      /\ \A s \in DOMAIN tree : v[s].dir = IsDir(s)
  BY <1>4 DEF ReaderFacts
<1>6. Stack(j.todo) BY <1>2, <1>3 DEF ReaderInv, ReaderOK
<1>7. OnTheList(b, r, j.todo, j.found)
  <2> HIDE DEF b, r, j, v
  <2> QED BY <1>2, <1>3, <1>5, Looked
<1>8. /\ 1 \in DOMAIN j.todo /\ Head(j.todo) = j.todo[1]
      /\ \A i \in DOMAIN rest : i + 1 \in DOMAIN j.todo /\ rest[i] = j.todo[i + 1]
  <2>1. Len(j.todo) \in Nat \ {0} /\ DOMAIN j.todo = 1 .. Len(j.todo) BY <1>6, StackTail
  <2>2. 1 \in DOMAIN j.todo BY <2>1
  <2> QED BY <1>6, <2>2, StackTail
<1>9. p \in ChildrenIn(b, r.path) BY <1>7, <1>8 DEF OnTheList
<1>10. p \in DOMAIN b /\ p \in DOMAIN v /\ v[p] = b[p]
  <2>1. IsPrefix(r.path, r.path) /\ r.op \in {"list", "search"} BY <1>3, <1>5, PathOrder
  <2> HIDE DEF b, r, v, p
  <2>2. ChildrenIn(v, r.path) = ChildrenIn(b, r.path) /\ v[p] = b[p] BY <1>5, <1>9, <2>1, SeenChildren
  <2> QED BY <1>9, <2>2 DEF ChildrenIn
<1>11. found = j.found \cup {<<p, b[p].dir>>}
  <2>1. IsDir(p) = b[p].dir BY <1>5, <1>10
  <2> QED BY <1>5, <1>10, <2>1
<1> HIDE DEF found, p
<1>12. OnTheList(b, r, rest, found)
  <2>1. <<p, b[p].dir>> \in EntriesIn(b, r.path) BY <1>9 DEF EntriesIn
  <2>2. found \subseteq EntriesIn(b, r.path) BY <1>7, <1>11, <2>1 DEF OnTheList
  <2>3. \A i \in DOMAIN rest : rest[i].at \in ChildrenIn(b, r.path) BY <1>7, <1>8 DEF OnTheList
  <2> QED BY <1>7, <2>2, <2>3 DEF OnTheList
<1> HIDE DEF b, r, j, rest, v
<1>13. PromiseOK(v, tree, same[c], b, pc'[c], r, job'[c], answer'[c])
  BY <1>2, <1>3, <1>5, <1>12, GoOnPromise
<1> QED BY <1>1, <1>2, <1>13 DEF b, r

LEMMA WalkPromise ==
  ASSUME TreeInv, TreeInv', ReachInv, ReaderInv, PromiseInv, NEW c \in Client, Walk(c)
  PROVE  PromiseInv'
<1>1. Spares(c) /\ same' = same BY QuietSpares
<1> SUFFICES ASSUME base[c] # NoView, ~CopiesOntoItself(req[c])
             PROVE  PromiseOK(View', tree', same'[c], base[c], pc'[c], req[c], job'[c], answer'[c])
  BY <1>1, PromiseStepOf
<1> DEFINE b == base[c]  r == req[c]  v == View  j == job[c]  p == r.path  e == Entry(p)
<1>2. pc[c] = "search" /\ tree' = tree /\ View' = v BY DEF Walk, View
<1>3. r.op = "search" /\ r.limit \in Nat BY <1>2, OwnFacts, JobOf, LimitOK DEF AtOp
<1>4. ReaderFacts(c) BY <1>3, ReaderStarts
<1>5. /\ PromiseOK(v, tree, same[c], b, "search", r, j, answer[c])
      /\ Whole(b) /\ DOMAIN v = DOMAIN tree
      /\ Sees(v, b, Named(r)) /\ p \in Path
      /\ p \in DOMAIN v <=> p \in DOMAIN b
      /\ p \in DOMAIN b => v[p] = b[p]
      /\ \A s \in DOMAIN tree : v[s].dir = IsDir(s)
      /\ \A s \in DOMAIN v : IsPrefix(r.path, s) => s \in same[c]
  BY <1>2, <1>4 DEF ReaderFacts
<1>6. CASE p \notin DOMAIN tree
  <2>1. FinishWith(c, "ok", {}) BY <1>6 DEF Walk
  <2>2. IsFiniteSet({}) /\ Cardinality({}) <= r.limit
    <3>1. IsFiniteSet({}) /\ Cardinality({}) = 0 BY FS_EmptySet
    <3> QED BY <1>3, <3>1
  <2> HIDE DEF b, r, j, v
  <2>3. Promise(b, r) = Tells(b, Hits(b, r)) BY <1>3, PromiseOfSearch
  <2>4. Promise(b, r).status = "ok" /\ Promise(b, r).view = b /\ {} \subseteq Promise(b, r).body
    BY <2>3 DEF Tells
  <2>5. r.op \in Reads /\ r.op \in {"list", "search"} BY <1>3 DEF Reads
  <2>6. PromiseOK(v, tree, same[c], b, pc'[c], r, job'[c], answer'[c])
    BY <1>5, <2>1, <2>2, <2>4, <2>5, Told
  <2> QED BY <1>1, <1>2, <2>6 DEF b, r
<1>7. CASE p \in DOMAIN tree
  <2>1. job' = [job EXCEPT ![c].todo = <<e>>] /\ Goto(c, "visit") BY <1>7 DEF Walk
  <2> DEFINE k == job'[c]
  <2>2. k.todo = <<e>> /\ k.found = j.found /\ pc'[c] = "visit"
    BY <2>1 DEF TreeInv, JobOK, NoJob, Goto
  <2>3. j.found = {}
    <3> HIDE DEF b, r, j
    <3> QED BY <1>3, <1>5, Looked
  <2>4. e.at = p /\ e.dir = IsDir(p) BY DEF Entry
  <2> HIDE DEF e
  <2> DEFINE todo == <<e>>
  <2>5. DOMAIN todo = {1} /\ todo[1] = e OBVIOUS
  <2>6. k.todo = todo BY <2>2
  <2> HIDE DEF k, todo
  <2>7. p \in DOMAIN b /\ (~e.dir => ~b[p].dir) BY <1>5, <1>7, <2>4
  <2>8. ToSearch(b, r, k.todo, k.found)
    <3>1. IsPrefix(p, p) BY <1>5, PathOrder
    <3> QED BY <2>2, <2>3, <2>4, <2>5, <2>6, <2>7, <3>1 DEF ToSearch
  <2> HIDE DEF b, r, j, v
  <2>9. PromiseOK(v, tree, same[c], b, "visit", r, k, answer'[c]) BY <1>3, <1>5, <2>8, Looking
  <2> QED BY <1>1, <1>2, <2>2, <2>9 DEF b, r, k
<1> QED BY <1>6, <1>7

\* the hits in a file are among those that are promised
LEMMA HitsOfFile ==
  ASSUME NEW b, NEW r, NEW p \in DOMAIN b, ~b[p].dir, IsPrefix(r.path, p),
         NEW x, r.old # <<>> => x = b[p].text
  PROVE  HitsIn(p, x, r) \subseteq Hits(b, r)
<1>1. HitsIn(p, x, r) = HitsIn(p, b[p].text, r)
  <2>1. CASE r.old = <<>> BY <2>1, HitByName
  <2>2. CASE r.old # <<>> BY <2>2
  <2> QED BY <2>1, <2>2
<1>2. p \in Searched(b, r) BY DEF Searched
<1>3. \A h \in HitsIn(p, b[p].text, r) : h \in Hits(b, r)
  <2> DEFINE S == Searched(b, r)
             H(q) == HitsIn(q, b[q].text, r)
  <2>1. Hits(b, r) = UNION {H(q) : q \in S} BY DEF Hits
  <2>2. p \in S BY <1>2
  <2> HIDE DEF S, H
  <2>3. \A h \in H(p) : h \in Hits(b, r) BY <2>1, <2>2
  <2> QED BY <2>3 DEF H
<1> QED BY <1>1, <1>3

LEMMA VisitPromise ==
  ASSUME TreeInv, TreeInv', ReachInv, ReaderInv, PromiseInv, NEW c \in Client, Visit(c)
  PROVE  PromiseInv'
<1>1. Spares(c) /\ same' = same BY QuietSpares
<1> SUFFICES ASSUME base[c] # NoView, ~CopiesOntoItself(req[c])
             PROVE  PromiseOK(View', tree', same'[c], base[c], pc'[c], req[c], job'[c], answer'[c])
  BY <1>1, PromiseStepOf
<1> DEFINE b == base[c]  r == req[c]  v == View  j == job[c]  e == Head(j.todo)
           left == r.limit - Cardinality(j.found)
           text == IF r.old # <<>> /\ IsFile(e.at) THEN data[tree[e.at]] ELSE <<>>
           t == Tail(j.todo)
<1>2. /\ pc[c] = "visit" /\ tree' = tree /\ View' = v
      /\ IF e.dir THEN GoOn(c, (IF IsDir(e.at) THEN Entries(e.at) ELSE <<>>) \o t, j.found)
         ELSE IF left = 0 THEN GoOn(c, <<>>, j.found)
         ELSE GoOn(c, t, j.found \cup First(left, HitsIn(e.at, text, r)))
  BY VisitIs DEF View, history
<1>3. r.op = "search" /\ r.limit \in Nat BY <1>2, OwnFacts, JobOf, LimitOK DEF AtOp
<1>4. ReaderFacts(c) BY <1>3, ReaderStarts
<1>5. /\ PromiseOK(v, tree, same[c], b, pc[c], r, j, answer[c])
      /\ Whole(b) /\ DOMAIN v = DOMAIN tree /\ DOMAIN v \subseteq Path /\ DOMAIN b \subseteq Path
      /\ Sees(v, b, Named(r)) /\ r.path \in Path
      /\ \A s \in DOMAIN tree : v[s].dir = IsDir(s)
  BY <1>4 DEF ReaderFacts
<1>6. /\ Stack(j.todo) /\ Searching(v, same[c], r, j.todo, j.found)
      /\ same[c] \subseteq DOMAIN v /\ Closed(same[c])
  BY <1>2, <1>3 DEF ReaderInv, ReaderOK
<1>7. ToSearch(b, r, j.todo, j.found)
  <2> HIDE DEF b, r, j, v
  <2> QED BY <1>2, <1>3, <1>5, Looked
<1>8. /\ 1 \in DOMAIN j.todo /\ e = j.todo[1]
      /\ \A i \in DOMAIN t : i + 1 \in DOMAIN j.todo /\ t[i] = j.todo[i + 1]
      /\ t \in Seq([at : Path, listed : {FALSE}, dir : BOOLEAN])
  <2>1. Len(j.todo) \in Nat \ {0} /\ DOMAIN j.todo = 1 .. Len(j.todo) BY <1>6, StackTail
  <2>2. 1 \in DOMAIN j.todo BY <2>1
  <2> QED BY <1>6, <2>2, StackTail
<1>9. IsFiniteSet(j.found) /\ Cardinality(j.found) <= r.limit BY <1>6 DEF Searching
<1>10. IsPrefix(r.path, e.at) /\ e.at \in DOMAIN b /\ (~e.dir => ~b[e.at].dir)
  BY <1>7, <1>8 DEF ToSearch
<1>11. e.at \in DOMAIN v /\ v[e.at] = b[e.at]
  <2>1. e.at \in Path /\ r.op \in {"list", "search"} BY <1>3, <1>5, <1>10
  <2> HIDE DEF b, r, v, e
  <2> QED BY <1>5, <1>10, <2>1, SeenBelow
<1>12. \A i \in DOMAIN t : LET p == t[i].at IN
         IsPrefix(r.path, p) /\ p \in DOMAIN b /\ (~t[i].dir => ~b[p].dir)
  BY <1>7, <1>8 DEF ToSearch
<1>13. ASSUME NEW rest, NEW found, GoOn(c, rest, found), ToSearch(b, r, rest, found),
              IsFiniteSet(found), Cardinality(found) <= r.limit
       PROVE  PromiseOK(View', tree', same'[c], b, pc'[c], r, job'[c], answer'[c])
  <2> HIDE DEF b, r, j, v
  <2>1. PromiseOK(v, tree, same[c], b, pc'[c], r, job'[c], answer'[c])
    BY <1>2, <1>3, <1>5, <1>13, GoOnPromise
  <2> QED BY <1>1, <1>2, <2>1
<1>14. CASE e.dir
  <2> DEFINE es == IF IsDir(e.at) THEN Entries(e.at) ELSE <<>>
             E == [at : Path, listed : {FALSE}, dir : BOOLEAN]
  <2>1. GoOn(c, es \o t, j.found) BY <1>2, <1>14
  <2>2. es \in Seq(E) /\ \A i \in DOMAIN es : es[i].at \in Children(e.at) /\ es[i].dir = IsDir(es[i].at)
    <3>1. CASE IsDir(e.at)
      <4> DEFINE x == Entries(e.at)  p == e.at
      <4>1. x = Entries(p) /\ IsTree(tree) /\ es = x BY <3>1 DEF TreeInv
      <4>2. \A i \in DOMAIN x : x[i].at \in Children(p) /\ x[i].dir = IsDir(x[i].at)
        <5> HIDE DEF p
        <5> QED BY <4>1, EntriesAre
      <4>3. x \in Seq([at : Path, listed : {FALSE}, dir : BOOLEAN])
        <5> HIDE DEF p, E
        <5> QED BY <4>1, EntriesAre
      <4>4. x \in Seq(E) BY <4>3
      <4> HIDE DEF x, E, es
      <4> QED BY <4>1, <4>2, <4>4
    <3>2. CASE ~IsDir(e.at)
      <4>1. es = <<>> BY <3>2
      <4>2. <<>> \in Seq(E) /\ DOMAIN <<>> = {} OBVIOUS
      <4> HIDE DEF es, E
      <4> QED BY <4>1, <4>2
    <3> QED BY <3>1, <3>2
  <2>3. t \in Seq(E) BY <1>8
  <2> HIDE DEF es, E, t
  <2>4. \A i \in DOMAIN (es \o t) : \/ i \in DOMAIN es /\ (es \o t)[i] = es[i]
                                    \/ \E k \in DOMAIN t : i = Len(es) + k /\ (es \o t)[i] = t[k]
    BY <2>2, <2>3, ConcatParts
  <2>5. \A q \in Children(e.at) : IsPrefix(r.path, q) /\ q \in DOMAIN b /\ (~IsDir(q) => ~b[q].dir)
    <3>1. e.at \in Path /\ r.op \in {"list", "search"} BY <1>3, <1>5, <1>10
    <3>2. Children(e.at) = ChildrenIn(v, e.at) BY <1>5 DEF Children, ChildrenIn
    <3>3. /\ ChildrenIn(v, e.at) = ChildrenIn(b, e.at)
          /\ \A q \in ChildrenIn(b, e.at) : IsPrefix(r.path, q) /\ v[q] = b[q]
      <4> HIDE DEF b, r, v, e
      <4> QED BY <1>5, <1>10, <3>1, SeenChildren
    <3>4. \A q \in ChildrenIn(b, e.at) : q \in DOMAIN b BY DEF ChildrenIn
    <3>5. \A q \in ChildrenIn(v, e.at) : q \in DOMAIN tree BY <1>5 DEF ChildrenIn
    <3> HIDE DEF b, r, v, e
    <3> QED BY <1>5, <3>2, <3>3, <3>4, <3>5
  <2> DEFINE rest == es \o t
  <2>6. \A i \in DOMAIN rest : LET p == rest[i].at IN
          IsPrefix(r.path, p) /\ p \in DOMAIN b /\ (~rest[i].dir => ~b[p].dir)
    <3> SUFFICES ASSUME NEW i \in DOMAIN rest
                 PROVE  /\ IsPrefix(r.path, rest[i].at) /\ rest[i].at \in DOMAIN b
                        /\ ~rest[i].dir => ~b[rest[i].at].dir
      OBVIOUS
    <3>1. \/ i \in DOMAIN es /\ rest[i] = es[i]
          \/ \E k \in DOMAIN t : rest[i] = t[k]
      BY <2>4
    <3> HIDE DEF rest, e, b, r
    <3>2. CASE i \in DOMAIN es /\ rest[i] = es[i] BY <2>2, <2>5, <3>2
    <3>3. CASE \E k \in DOMAIN t : rest[i] = t[k] BY <1>12, <3>3
    <3> QED BY <3>1, <3>2, <3>3
  <2>7. GoOn(c, rest, j.found) BY <2>1
  <2> HIDE DEF rest
  <2>8. ToSearch(b, r, rest, j.found) BY <1>7, <2>6 DEF ToSearch
  <2> QED BY <1>9, <1>13, <2>7, <2>8
<1>15. CASE ~e.dir /\ left = 0
  <2>1. GoOn(c, <<>>, j.found) BY <1>2, <1>15
  <2>2. \A i \in DOMAIN <<>> : FALSE OBVIOUS
  <2> DEFINE none == <<>>
  <2>3. GoOn(c, none, j.found) /\ \A i \in DOMAIN none : FALSE BY <2>1, <2>2
  <2> HIDE DEF none
  <2>4. ToSearch(b, r, none, j.found) BY <1>7, <2>3 DEF ToSearch
  <2> QED BY <1>9, <1>13, <2>3, <2>4
<1>16. CASE ~e.dir /\ left # 0
  <2> DEFINE H == HitsIn(e.at, text, r)  F == First(left, H)  found == j.found \cup F
  <2>1. GoOn(c, t, found) BY <1>2, <1>16
  <2>2. IsFile(e.at) /\ v[e.at].text = data[tree[e.at]]
    <3>1. e.at \in DOMAIN tree /\ ~v[e.at].dir BY <1>5, <1>10, <1>11, <1>16
    <3>2. ~IsDir(e.at) BY <1>5, <3>1
    <3> QED BY <3>1, <3>2, ViewIs DEF TreeInv, IsFile, IsDir
  <2>3. r.old # <<>> => text = b[e.at].text BY <1>11, <2>2
  <2>4. H \subseteq Hits(b, r)
    <3> HIDE DEF b, r, e, text
    <3> QED BY <1>10, <1>16, <2>3, HitsOfFile
  <2>5. Len(text) \in Nat
    <3>1. text \in Seq(Blocks) BY VisitIs
    <3> QED BY <3>1, LenProperties
  <2>6. /\ IsFiniteSet(H) /\ \A h \in H : h[1] = e.at /\ h[2] \in Nat
        /\ \A g, h \in H : g[2] = h[2] => g = h
    <3> HIDE DEF text, r, e
    <3> QED BY <2>5, HitsAre
  <2>7. F \subseteq H /\ IsFiniteSet(found) /\ Cardinality(found) <= r.limit
    <3>1. e.at \in same[c] => HitsIn(e.at, v[e.at].text, r) = H
      <4>1. CASE r.old = <<>> BY <4>1, HitByName
      <4>2. CASE r.old # <<>> BY <2>2, <4>2
      <4> QED BY <4>1, <4>2
    <3>2. IsView(v) BY <1>4 DEF ReaderFacts, Whole
    <3>3. Searching(v, same[c], r, t, found)
      <4> HIDE DEF v, r, text, H
      <4>1. left = r.limit - Cardinality(j.found) /\ left # 0 /\ ~j.todo[1].dir /\ e.at = j.todo[1].at
        BY <1>8, <1>16
      <4> HIDE DEF left, e, j
      <4> QED BY <1>3, <1>6, <2>6, <3>1, <3>2, <4>1, SearchFile DEF t, found
    <3>4. F \subseteq H BY DEF First
    <3> QED BY <3>3, <3>4 DEF Searching
  <2> HIDE DEF F, H
  <2>8. found \subseteq Hits(b, r) BY <1>7, <2>4, <2>7 DEF ToSearch
  <2> HIDE DEF found
  <2>9. ToSearch(b, r, t, found) BY <1>12, <2>8 DEF ToSearch
  <2> QED BY <1>13, <2>1, <2>7, <2>9
<1> QED BY <1>14, <1>15, <1>16

-------------------------------------------------------------------------------
(* A request begins; it is answered; all together *)

LEMMA WholeView ==
  ASSUME IsTree(tree)
  PROVE  Whole(View) /\ DOMAIN View = DOMAIN tree
<1>1. Root \in DOMAIN tree /\ View[Root] = Dir BY DEF IsTree, View
<1>2. \A p \in DOMAIN tree : View[p].dir => View[p] = Dir BY DEF View, File
<1> QED BY <1>1, <1>2, ViewIs DEF Whole

\* no file has been written
LEMMA NoFilesYet ==
  ASSUME NEW v, v = [q \in DOMAIN v |-> v[q]], NEW ps, NEW t
  PROVE  WithFiles(v, ps, 0, t) = v
<1> DEFINE new  == {ps[i] : i \in 1 .. 0}
           dirs == {q \in Path : \E p \in new : IsPrefix(q, Parent(p))}
<1>1. new = {} OBVIOUS
<1>2. dirs = {} BY <1>1
<1>3. WithFiles(v, ps, 0, t) =
        [q \in DOMAIN v \cup new \cup dirs |->
           IF q \in new THEN File(t) ELSE IF q \in DOMAIN v THEN v[q] ELSE Dir]
  BY DEF WithFiles
<1> HIDE DEF new, dirs
<1> QED BY <1>1, <1>2, <1>3

LEMMA StartsPromise ==
  ASSUME NEW v, Whole(v), v = [q \in DOMAIN v |-> v[q]], NEW r, Named(r) \subseteq Path, r.path \in Path, NEW l, NEW j,
         Starts(r, l, j), JobOK(j), NEW t, NEW z, r.op \in {"list", "search"} => DOMAIN v \subseteq z, NEW a
  PROVE  PromiseOK(v, t, z, v, l, r, j, a)
<1> DEFINE N == Named(r)
<1>1. Sees(v, v, N) BY SeesItself
<1>2. l # "answered" /\ r.op # "answered" BY DEF Starts, Reads
<1>3. ASSUME l = "make" PROVE Making(v, v, l, j, N)
  <2>1. j.depth = Len(j.dir) /\ Len(j.dir) \in Nat BY <1>3, PathOrder DEF Starts, JobOK, Reads
  <2>2. j.depth + 1 .. Len(j.dir) = {} BY <2>1
  <2> QED BY <1>1, <1>3, <2>2 DEF Making
<1>4. ASSUME l = "make" PROVE Writing(v, t, v, l, j, N)
  BY <1>3, <1>4 DEF Writing
<1>5. CASE r.op \in {"write", "upload"}
  <2> DEFINE ps == r.files
  <2>1. /\ l = "make" /\ ps \in Seq(Path) /\ ps # <<>> /\ j.at = ps[1] /\ j.more = Tail(ps)
        /\ j.buf = r.text
    BY <1>5 DEF Starts
  <2> HIDE DEF ps
  <2>2. Len(ps) \in Nat \ {0} BY <2>1, EmptySeq
  <2>3. 1 \in 1 .. Len(ps) /\ 1 - 1 = 0 BY <2>2
  <2>4. Tail(ps) = SubSeq(ps, 1 + 1, Len(ps)) BY <2>1
  <2>5. WithFiles(v, ps, 0, r.text) = v BY NoFilesYet
  <2>6. AllFit(v, ps, 0, r.text) BY DEF AllFit
  <2>7. Uploading(v, t, v, l, r, j, 1)
    BY <1>4, <2>1, <2>3, <2>4, <2>5, <2>6 DEF Uploading, ps
  <2> QED BY <1>5, <2>1, <2>3, <2>7 DEF PromiseOK, Reads, ps
<1>6. CASE r.op = "mkdir" BY <1>3, <1>6 DEF PromiseOK, Reads, Starts
<1>7. CASE r.op = "move" BY <1>3, <1>7 DEF PromiseOK, Reads, Starts
<1>8. CASE r.op = "patch"
  <2>1. r.old = <<>> => Promise(v, r) = Put(v, r.path, j.buf) BY <1>8, PromiseOf DEF Starts
  <2> QED BY <1>1, <1>4, <1>8, <2>1 DEF PromiseOK, Reads, Starts
<1>9. CASE r.op = "copy" BY <1>1, <1>9 DEF PromiseOK, Reads, Starts
<1>10. CASE r.op = "delete"
  <2> DEFINE e == [at |-> r.path, listed |-> FALSE]
  <2>1. l = "remove" /\ j.todo = <<e>> BY <1>10 DEF Starts
  <2>2. e.at = r.path /\ ~e.listed OBVIOUS
  <2> HIDE DEF e
  <2>3. \A i \in DOMAIN j.todo : j.todo[i] = e BY <2>1
  <2>4. j.todo[1] = e BY <2>1
  <2>5. Sees(Without(v, r.path), Without(v, r.path), N) BY SeesItself
  <2>6. IsPrefix(r.path, r.path) BY PathOrder
  <2>7. Deleting(v, v, r, j.todo) BY <1>1, <2>2, <2>3, <2>4, <2>5, <2>6 DEF Deleting
  <2> QED BY <1>10, <2>1, <2>7 DEF PromiseOK, Reads
<1>11. CASE r.op \in Reads
  <2>1. j.found = {} BY <1>11 DEF Starts, NoJob
  <2>2. l \notin {"size", "send", "info", "visit"} BY <1>11 DEF Starts, Reads
  <2> QED BY <1>1, <1>2, <1>11, <2>1, <2>2 DEF PromiseOK, Reads
<1> QED BY <1>5, <1>6, <1>7, <1>8, <1>9, <1>10, <1>11 DEF Starts

LEMMA AcceptPromise ==
  ASSUME TreeInv, TreeInv', ReachInv, ReaderInv, PromiseInv, NEW c \in Client, NEW q \in Requests,
         Accept(c, q)
  PROVE  PromiseInv'
<1> DEFINE r == Resolved(q)
<1>1. Accepted(c, r) BY AcceptIs
<1> HIDE DEF r
<1>2. View' = View BY <1>1 DEF Accepted, View
<1>3. ASSUME NEW d \in Client, base'[d] # NoView, ~CopiesOntoItself(req'[d])
      PROVE  PromiseOK(View', tree', same'[d], base'[d], pc'[d], req'[d], job'[d], answer'[d])
  <2>1. CASE d = c
    <3>1. base'[c] = View /\ tree' = tree /\ req'[c] = r BY <1>1, <1>3, <2>1 DEF Accepted
    <3>2. Starts(r, pc'[c], job'[c]) /\ Named(r) \subseteq Path BY <1>1 DEF Accepted
    <3>3. r.path \in Path BY <1>1, AskedOK DEF Accepted
    <3>4. JobOK(job'[c]) BY DEF TreeInv
    <3>5. Whole(View) /\ DOMAIN View = DOMAIN tree BY WholeView DEF TreeInv
    <3>6. r.op \in {"list", "search"} => DOMAIN View \subseteq same'[c]
      BY <1>1, <3>5 DEF Accepted, ReaderInv
    <3>7. View = [p \in DOMAIN View |-> View[p]] BY DEF View
    <3>8. PromiseOK(View, tree, same'[c], View, pc'[c], r, job'[c], answer'[c])
      BY <3>2, <3>3, <3>4, <3>5, <3>6, <3>7, StartsPromise
    <3> QED BY <1>2, <2>1, <3>1, <3>8
  <2>2. CASE d # c
    <3>1. /\ base'[d] = base[d] /\ pc'[d] = pc[d] /\ req'[d] = req[d] /\ job'[d] = job[d]
          /\ tree' = tree /\ answer' = answer
      BY <1>1, <1>3, <2>2 DEF Accepted
    <3>2. same'[d] = same[d] BY <1>1, <2>2 DEF Accepted, ReaderInv
    <3> QED BY <1>2, <1>3, <3>1, <3>2 DEF PromiseInv
  <2> QED BY <2>1, <2>2
<1> QED BY <1>3 DEF PromiseInv

LEMMA ReturnPromise ==
  ASSUME TreeInv, ReachInv, ReaderInv, PromiseInv, NEW c \in Client, Return(c)
  PROVE  PromiseInv'
<1>1. /\ tree' = tree /\ req' = [req EXCEPT ![c] = NoReq] /\ job' = job
      /\ pc' = [pc EXCEPT ![c] = "idle"] /\ same' = [same EXCEPT ![c] = {}]
      /\ answer' = [answer EXCEPT ![c] = NoAnswer] /\ base' = [base EXCEPT ![c] = NoView]
      /\ data' = [i \in Ino |-> IF i \in InUse THEN data[i] ELSE <<>>]
  BY DEF Return, Goto
<1>2. View' = View
  <2>1. ASSUME NEW p \in DOMAIN tree, tree[p] # DirIno PROVE data'[tree[p]] = data[tree[p]]
    <3>1. tree[p] \in Ino BY <2>1 DEF TreeInv, IsTree
    <3>2. tree[p] \in InUse BY DEF InUse, Range
    <3> QED BY <1>1, <3>1, <3>2
  <2>2. \A p \in DOMAIN tree : (IF tree[p] = DirIno THEN Dir ELSE File(data'[tree[p]]))
                               = IF tree[p] = DirIno THEN Dir ELSE File(data[tree[p]])
    BY <2>1
  <2> QED BY <1>1, <2>2 DEF View
<1>3. base'[c] = NoView BY <1>1 DEF ReachInv
<1>4. ASSUME NEW d \in Client, d # c
      PROVE  /\ pc'[d] = pc[d] /\ req'[d] = req[d] /\ base'[d] = base[d] /\ same'[d] = same[d]
             /\ answer'[d] = answer[d]
  BY <1>1, <1>4 DEF TreeInv, ReachInv, ReaderInv
<1>5. ASSUME NEW d \in Client, base'[d] # NoView, ~CopiesOntoItself(req'[d])
      PROVE  PromiseOK(View', tree', same'[d], base'[d], pc'[d], req'[d], job'[d], answer'[d])
  <2>1. d # c BY <1>3, <1>5
  <2> QED BY <1>1, <1>2, <1>4, <1>5, <2>1 DEF PromiseInv
<1> QED BY <1>5 DEF PromiseInv

LEMMA PromiseInit == Init => PromiseInv
BY DEF Init, PromiseInv

LEMMA PromiseNext ==
  TreeInv /\ TreeInv' /\ ReachInv /\ ReaderInv /\ PromiseInv /\ [Next]_vars => PromiseInv'
<1> SUFFICES ASSUME TreeInv, TreeInv', ReachInv, ReaderInv, PromiseInv, [Next]_vars
             PROVE  PromiseInv'
  OBVIOUS
<1>1. CASE UNCHANGED vars
  <2>1. View' = View BY <1>1 DEF vars, View
  <2> QED BY <1>1, <2>1 DEF vars, PromiseInv
<1>2. ASSUME NEW c \in Client, Step(c) PROVE PromiseInv'
  <2>1. CASE Stat(c) BY <2>1, StatPromise
  <2>2. CASE Mkdir(c) BY <2>2, MkdirPromise
  <2>3. CASE Open(c) BY <2>3, OpenPromise
  <2>4. CASE Fill(c) BY <2>4, FillPromise
  <2>5. CASE OpenSource(c) BY <2>5, OpenSourcePromise
  <2>6. CASE ReadOld(c) BY <2>6, ReadOldPromise
  <2>7. CASE Lstat(c) BY <2>7, LstatPromise
  <2>8. CASE Rename(c) BY <2>8, RenamePromise
  <2>9. CASE RemoveEntry(c) BY <2>9, RemoveEntryPromise
  <2>10. CASE RefuseRoot(c) BY <2>10, RefuseRootPromise
  <2>11. CASE StatPath(c) \/ Chmod(c) BY <2>11, LookPromise
  <2>12. CASE Measure(c) \/ Send(c) BY <2>12, SendPromise
  <2>13. CASE ReadDir(c) BY <2>13, ReadDirPromise
  <2>14. CASE Info(c) BY <2>14, InfoPromise
  <2>15. CASE Walk(c) BY <2>15, WalkPromise
  <2>16. CASE Visit(c) BY <2>16, VisitPromise
  <2> QED BY <1>2, <2>1, <2>2, <2>3, <2>4, <2>5, <2>6, <2>7, <2>8, <2>9, <2>10, <2>11, <2>12,
             <2>13, <2>14, <2>15, <2>16 DEF Step
<1>3. ASSUME NEW c \in Client, Return(c) PROVE PromiseInv'
  BY <1>3, ReturnPromise
<1>4. ASSUME NEW c \in Client, NEW q \in Requests, Accept(c, q) PROVE PromiseInv'
  BY <1>4, AcceptPromise
<1> QED BY <1>1, <1>2, <1>3, <1>4 DEF Next

-------------------------------------------------------------------------------
(* What is promised is kept *)

LEMMA HitsAreFinite ==
  ASSUME NEW v, IsFiniteSet(DOMAIN v), \A p \in DOMAIN v : ~v[p].dir => Len(v[p].text) \in Nat, NEW r
  PROVE  IsFiniteSet(Hits(v, r))
<1> DEFINE S == Searched(v, r)
           T == {HitsIn(p, v[p].text, r) : p \in S}
           f == [p \in S |-> HitsIn(p, v[p].text, r)]
<1>1. IsFiniteSet(S) /\ \A p \in S : p \in DOMAIN v /\ ~v[p].dir BY FS_Subset DEF Searched
<1>2. ASSUME NEW p \in S PROVE IsFiniteSet(HitsIn(p, v[p].text, r))
  <2> DEFINE t == v[p].text
  <2>1. Len(t) \in Nat BY <1>1
  <2> HIDE DEF t
  <2>2. IsFiniteSet(HitsIn(p, t, r)) BY <2>1, HitsAre
  <2> QED BY <2>2 DEF t
<1>3. \A x \in T : IsFiniteSet(x) BY <1>2
<1>4. f \in [S -> T] /\ \A x \in T : \E p \in S : f[p] = x OBVIOUS
<1>5. Hits(v, r) = UNION T BY DEF Hits
<1> HIDE DEF S, T, f
<1>6. f \in Surjection(S, T) BY <1>4 DEF Surjection
<1>7. IsFiniteSet(T) BY <1>1, <1>6, FS_Surjection
<1> QED BY <1>3, <1>5, <1>7, FS_UNION

LEMMA HitsSeen ==
  ASSUME NEW v, NEW b, DOMAIN v \subseteq Path, DOMAIN b \subseteq Path,
         NEW r, r.op = "search", r.path \in Path, Sees(v, b, Named(r))
  PROVE  Hits(v, r) = Hits(b, r)
<1> DEFINE S(w) == Searched(w, r)
<1>1. S(v) = S(b) /\ \A p \in S(b) : v[p] = b[p] BY SeenBelow DEF Searched
<1>2. {HitsIn(p, v[p].text, r) : p \in S(v)} = {HitsIn(p, b[p].text, r) : p \in S(b)}
  <2> HIDE DEF S
  <2> QED BY <1>1
<1> QED BY <1>2 DEF Hits

LEMMA MinIs ==
  ASSUME NEW m \in Nat, NEW n \in Nat
  PROVE  Min({m, n}) = IF n <= m THEN n ELSE m
<1> DEFINE x == IF n <= m THEN n ELSE m
<1>1. x \in {m, n} /\ \A y \in {m, n} : x <= y OBVIOUS
<1>2. \A z \in {m, n} : (\A y \in {m, n} : z <= y) => z = x OBVIOUS
<1> HIDE DEF x
<1>3. Min({m, n}) = x BY <1>1, <1>2 DEF Min
<1> QED BY <1>3 DEF x

\* a list has all the entries
LEMMA ListIsWhole ==
  ASSUME NEW v, NEW s, NEW b, NEW r, NEW j, NEW a, Whole(b), DOMAIN v \subseteq Path,
         r.op = "list", r.path \in Path, Sees(v, b, Named(r)), ReaderOK(v, s, "answered", r, j, a),
         \A p \in DOMAIN v : IsPrefix(r.path, p) => p \in s, a.body \subseteq Promise(b, r).body
  PROVE  a.body = Promise(b, r).body
<1>1. CASE r.path \in DOMAIN b /\ b[r.path].dir
  <2>1. Promise(b, r) = Tells(b, EntriesIn(b, r.path)) BY <1>1, PromiseOfList
  <2>2. Promise(b, r).body = EntriesIn(b, r.path) BY <2>1 DEF Tells
  <2>3. IsPrefix(r.path, r.path) BY PathOrder
  <2>4. r.path \in DOMAIN v /\ v[r.path] = b[r.path] BY <1>1, <2>3, SeenBelow
  <2>5. r.path \in s /\ v[r.path].dir BY <1>1, <2>3, <2>4
  <2>6. \A p \in s : p # Root /\ Parent(p) = r.path => <<p, v[p].dir>> \in a.body
    BY <2>5 DEF ReaderOK
  <2>7. /\ ChildrenIn(v, r.path) = ChildrenIn(b, r.path)
        /\ \A q \in ChildrenIn(b, r.path) : IsPrefix(r.path, q) /\ v[q] = b[q]
    BY <2>3, SeenChildren DEF Whole, IsView
  <2>8. ASSUME NEW q \in ChildrenIn(b, r.path) PROVE <<q, b[q].dir>> \in a.body
    <3>1. q \in ChildrenIn(v, r.path) /\ IsPrefix(r.path, q) /\ v[q] = b[q] BY <2>7
    <3>2. q \in s /\ q # Root /\ Parent(q) = r.path BY <3>1 DEF ChildrenIn
    <3> QED BY <2>6, <3>1, <3>2
  <2> QED BY <2>2, <2>8 DEF EntriesIn
<1>2. CASE ~(r.path \in DOMAIN b /\ b[r.path].dir)
  <2>1. \E st : Promise(b, r) = Outcome(st, b) BY <1>2, PromiseOfList
  <2>2. Promise(b, r).body = {} BY <2>1 DEF Outcome
  <2> QED BY <2>2
<1> QED BY <1>1, <1>2

\* a search has all the hits, or as many as it may have
LEMMA SearchIsWhole ==
  ASSUME NEW v, NEW s, NEW b, NEW r, NEW j, NEW a, Whole(b), DOMAIN v \subseteq Path,
         IsFiniteSet(DOMAIN v), \A p \in DOMAIN v : ~v[p].dir => Len(v[p].text) \in Nat,
         r.op = "search", r.path \in Path, r.limit \in Nat, Sees(v, b, Named(r)),
         ReaderOK(v, s, "answered", r, j, a), \A p \in DOMAIN v : IsPrefix(r.path, p) => p \in s,
         a.body \subseteq Promise(b, r).body, IsFiniteSet(a.body), Cardinality(a.body) <= r.limit
  PROVE  Cardinality(a.body) = Min({r.limit, Cardinality(Promise(b, r).body)})
<1> DEFINE H == Hits(b, r)  m == Cardinality(H)  n == Cardinality(a.body)
<1>1. Promise(b, r) = Tells(b, H) BY PromiseOfSearch
<1>2. Promise(b, r).body = H BY <1>1 DEF Tells
<1>3. Hits(v, r) = H BY HitsSeen DEF Whole, IsView
<1>4. IsFiniteSet(H) BY <1>3, HitsAreFinite
<1>5. n = r.limit \/ H \subseteq a.body
  <2>1. \/ n = r.limit
        \/ \A p \in s : ~v[p].dir /\ IsPrefix(r.path, p) => HitsIn(p, v[p].text, r) \subseteq a.body
    BY DEF ReaderOK
  <2> QED BY <1>3, <2>1 DEF Hits, Searched
<1> HIDE DEF H
<1>6. m \in Nat /\ n \in Nat /\ n <= m /\ (a.body = H => n = m)
  BY <1>2, <1>4, FS_Subset, FS_CardinalityType
<1>7. n = r.limit \/ n = m BY <1>2, <1>5, <1>6
<1> HIDE DEF m, n
<1>8. n = IF m <= r.limit THEN m ELSE r.limit BY <1>6, <1>7 DEF n
<1>9. Min({r.limit, m}) = IF m <= r.limit THEN m ELSE r.limit BY <1>6, MinIs
<1> QED BY <1>2, <1>8, <1>9 DEF m, n

\* A request for files, over REST, that shares no path with any request that changes the
\* tree while it is in flight keeps what it promises: Write, Mkdir, Delete, Move, Copy, Patch,
\* and those that read (internal/fsapi, and fsUpload, fsDownload and fsView on top of it),
\* take no lock, and yet the answer, and what is then in the paths that the request names, are
\* those of the request done at once, whatever system calls of others come between its own.
\* A search done at once has the matches before any line above 1 MiB, as HitsIn says.
THEOREM UnrelatedRequestsAreAlone == Spec => []UnrelatedRequestsKeepPromise
<1>1. TreeInv /\ ReachInv /\ ReaderInv /\ PromiseInv => UnrelatedRequestsKeepPromise
  <2> SUFFICES ASSUME TreeInv, ReachInv, ReaderInv, PromiseInv, NEW c \in Client,
                      pc[c] = "answered", base[c] # NoView, ~CopiesOntoItself(req[c])
               PROVE
      LET promised == Promise(base[c], req[c])
          scope == UNION {Within(p) : p \in Named(req[c])}
      IN /\ answer[c].status = promised.status
         /\ answer[c].recorded => promised.status = "ok"
         /\ answer[c].body \subseteq promised.body
         /\ IF req[c].op = "search"
              THEN Cardinality(answer[c].body) = Min({req[c].limit, Cardinality(promised.body)})
              ELSE answer[c].body = promised.body
         /\ \A p \in scope : /\ p \in DOMAIN View <=> p \in DOMAIN promised.view
                             /\ p \in DOMAIN View => View[p] = promised.view[p]
    BY DEF UnrelatedRequestsKeepPromise
  <2> DEFINE b == base[c]  r == req[c]  a == answer[c]  v == View  s == same[c]  j == job[c]
             promised == Promise(b, r)
  <2>1. /\ PromiseOK(v, tree, s, b, "answered", r, j, a)
        /\ Whole(b) /\ Whole(v) /\ DOMAIN v = DOMAIN tree /\ r.path \in Path
    BY OwnFacts
  <2>2. ReaderOK(v, s, "answered", r, j, a) BY DEF ReaderInv
  <2>3. IsFiniteSet(DOMAIN v) /\ DOMAIN v \subseteq Path BY <2>1 DEF TreeInv, IsTree
  <2>4. \A p \in DOMAIN v : ~v[p].dir => Len(v[p].text) \in Nat
    <3>1. IsTree(tree) /\ data \in [Ino -> Seq(Blocks)] BY DEF TreeInv
    <3>2. ASSUME NEW p \in DOMAIN tree, ~v[p].dir PROVE Len(v[p].text) \in Nat
      <4>1. v[p].text = data[tree[p]] /\ tree[p] # DirIno BY <3>1, <3>2, ViewIs DEF IsDir
      <4>2. tree[p] \in Ino BY <3>1, <4>1 DEF IsTree
      <4>3. data[tree[p]] \in Seq(Blocks) BY <3>1, <4>2
      <4> HIDE DEF v
      <4> QED BY <4>1, <4>3, LenProperties
    <3> QED BY <2>1, <3>2
  <2>5. r.limit \in Nat BY JobOf, LimitOK
  <2> HIDE DEF b, r, a, v, s, j
  <2>6. Kept(v, b, r, a) BY <2>1 DEF PromiseOK
  <2>7. r.op \in {"list", "search"} =>
          Sees(v, b, Named(r)) /\ \A p \in DOMAIN v : IsPrefix(r.path, p) => p \in s
    BY <2>1 DEF PromiseOK, Reads
  <2>8. ASSUME r.op = "search"
        PROVE  Cardinality(a.body) = Min({r.limit, Cardinality(promised.body)})
    BY <2>1, <2>2, <2>3, <2>4, <2>5, <2>6, <2>7, <2>8, SearchIsWhole DEF Kept
  <2>9. ASSUME r.op # "search" PROVE a.body = promised.body
    <3>1. CASE r.op = "list" BY <2>1, <2>2, <2>3, <2>6, <2>7, <3>1, ListIsWhole DEF Kept
    <3> QED BY <2>6, <2>9, <3>1 DEF Kept
  <2>10. \A p \in UNION {Within(n) : n \in Named(r)} :
           /\ p \in DOMAIN v <=> p \in DOMAIN promised.view
           /\ p \in DOMAIN v => v[p] = promised.view[p]
    <3>1. Sees(v, promised.view, Named(r)) BY <2>6 DEF Kept
    <3> HIDE DEF promised
    <3>2. \A p \in UNION {Within(n) : n \in Named(r)} : p \in Path /\ Below(p, Named(r))
      BY DEF Within, Below
    <3> QED BY <3>1, <3>2 DEF Sees
  <2>11. a.status = promised.status /\ (a.recorded => promised.status = "ok") /\ a.body \subseteq promised.body
    BY <2>6 DEF Kept
  <2>12. IF r.op = "search" THEN Cardinality(a.body) = Min({r.limit, Cardinality(promised.body)})
         ELSE a.body = promised.body
    BY <2>8, <2>9
  <2> QED BY <2>10, <2>11, <2>12 DEF b, r, a, v
<1> QED BY <1>1, TreeCorrect, ReachCorrect, ReaderInit, ReaderNext, PromiseInit, PromiseNext, PTL DEF Spec
===============================================================================
