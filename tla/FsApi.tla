-------------------------------- MODULE FsApi --------------------------------
(***************************************************************************)
(* internal/fsapi and the handlers on top of it: requests that change or   *)
(* read the tree of files below FS_ROOT, several at once, each a series of *)
(* system calls with no lock around them.  The paths of a request are      *)
(* resolved as PathJail says and are then relative to Root.  A disk that   *)
(* is full is left out, and so are the modes of files: the server is root  *)
(* in its container, and Chmod is only looked at for its answer.           *)
(*                                                                         *)
(* The system calls act on the tree the way Linux does: a file that is     *)
(* open stays the same file when its name is moved or removed, and every   *)
(* open file is written from its own offset, here the start.               *)
(***************************************************************************)
EXTENDS PathJail, Integers

CONSTANTS
  Client,    \* at most one request each at a time
  Path,      \* bound: the paths that occur, Root among them
  Ino,       \* bound: the files that can exist or be open at a time
  DirIno,    \* (not an Ino) what a directory has in the place of a file
  Requests,  \* what clients ask for: records of op, path, to, files, text, old, limit
             \* (files: the names of an upload, or those a search's glob matches;
             \* old: the block to replace, or the content to search for)
  TooLong    \* the blocks that are a line too long for the scanner of a search (1 MiB)

ASSUME FsAssumption ==
  /\ DirIno \notin Ino /\ <<>> \in Path /\ Path \subseteq Seq(Name)
  /\ \A p \in Path : \A n \in 0 .. Len(p) : SubSeq(p, 1, n) \in Path

VARIABLES
  tree,    \* the entries that exist: Path -> DirIno or the file it names
  data,    \* Ino -> its content, a sequence of blocks
  pc,      \* the next system call of the request of each client
  req,     \* that request
  job,     \* the local variables of its handler
  answer,  \* what it was answered, and whether the audit trail has it
  base,    \* (history) the tree when the request came, see Accept
  reach,   \* (history) the paths it names, and where they were moved to
  same     \* (history) what a list or a search has had unchanged before it so far

vars == <<tree, data, pc, req, job, answer, base, reach, same>>
history == <<base, reach, same>>

Root == <<>>

Parent(p) == IF p = Root THEN Root ELSE Front(p)
Within(p) == {q \in Path : IsPrefix(p, q)}
IsDir(p)  == p \in DOMAIN tree /\ tree[p] = DirIno
IsFile(p) == p \in DOMAIN tree /\ tree[p] # DirIno
ChildrenIn(v, p) == {q \in DOMAIN v : q # Root /\ Parent(q) = p}
Children(p) == ChildrenIn(tree, p)

Reads == {"read", "download", "view", "list", "search", "stat", "chmod"}

DefaultLimit == 200

NoReq == [op |-> "none", path |-> Root, to |-> Root, files |-> <<>>,
          text |-> <<>>, old |-> <<>>, limit |-> DefaultLimit]
NoJob == [at |-> Root, dir |-> Root, depth |-> 0, fd |-> DirIno, src |-> DirIno,
          buf |-> <<>>, more |-> <<>>, todo |-> <<>>, found |-> {}]
NoAnswer == [status |-> "none", recorded |-> FALSE, body |-> {}]

\* the request with its paths resolved (every file that it writes in files) and a
\* limit above zero
Resolved(r) ==
  [r EXCEPT !.path = Clean(@), !.to = Clean(@),
            !.files = IF r.op = "write" THEN <<Clean(r.path)>>
                      ELSE IF r.op # "upload" THEN @
                      ELSE [i \in DOMAIN @ |-> Clean(Join(r.path, @[i]))],
            !.limit = IF @ > 0 THEN @ ELSE DefaultLimit]

\* where s, which is p or below it, is when p has been moved to q
Moved(p, q, s) == q \o SubSeq(s, Len(p) + 1, Len(s))

Blocks == UNION {Range(r.text) : r \in Requests}

\* The paths of every request are among those of Path, and so is every path below
\* the target of a move that something of Path can be moved to.
ASSUME RequestsAssumption ==
  \A r \in Requests : LET s == Resolved(r) IN
    /\ DOMAIN r = DOMAIN NoReq /\ r.text \in Seq(Blocks) /\ r.limit \in Int
    /\ r.op \in {"write", "upload", "mkdir", "delete", "patch", "copy", "move"} \cup Reads
    /\ s.path \in Path /\ s.to \in Path
    /\ r.op \in {"write", "upload"} => s.files \in Seq(Path) \ {<<>>}
    /\ r.op = "move" /\ ~IsPrefix(s.path, s.to) => \A p \in Path : IsPrefix(s.path, p) =>
         Moved(s.path, s.to, p) \in Path

-------------------------------------------------------------------------------
(* What each request promises, on a whole tree at once: the reference the  *)
(* handlers are checked against.  A view maps a path to Dir or a File.     *)

Dir == [dir |-> TRUE, text |-> <<>>]
File(t) == [dir |-> FALSE, text |-> t]
View == [p \in DOMAIN tree |-> IF tree[p] = DirIno THEN Dir ELSE File(data[tree[p]])]
NoView == [p \in {} |-> Dir]

\* a file stands where the path p needs a directory
Blocked(v, p) == \E q \in DOMAIN v : IsPrefix(q, p) /\ ~v[q].dir
\* the error of a path that is not there
Missing(v, p) == IF Blocked(v, p) THEN "error" ELSE "missing"

WithDirs(v, p) ==
  LET new == {q \in Path : IsPrefix(q, p)}
  IN [q \in DOMAIN v \cup new |-> IF q \in DOMAIN v THEN v[q] ELSE Dir]
With(v, p, f) == [q \in DOMAIN v \cup {p} |-> IF q = p THEN f ELSE v[q]]
WithoutOne(v, p) == [q \in DOMAIN v \ {p} |-> v[q]]   \* (mutant) not what is in it
Without(v, p) == [q \in DOMAIN v \ Within(p) |-> v[q]]

Outcome(s, v) == [status |-> s, view |-> v, body |-> {}]
Tells(v, b) == [status |-> "ok", view |-> v, body |-> b]

\* where a block occurs; a block is a line, too
Places(t, old) == {i \in 1 .. Len(t) : <<t[i]>> = old}

\* what there is to find in a file: the lines of t that match, or the file as such
Matches(p, t, r) ==
  IF r.files # <<>> /\ Last(p) \notin Range(r.files) THEN {}
  ELSE IF r.old = <<>> THEN {<<p, 0>>} ELSE {<<p, i>> : i \in Places(t, r.old)}

\* what a search promises of it: what stands before any line that is too long
HitsIn(p, t, r) == {h \in Matches(p, t, r) : \A i \in 1 .. h[2] : t[i] \notin TooLong}

Searched(v, r) == {p \in DOMAIN v : ~v[p].dir /\ IsPrefix(r.path, p)}
Hits(v, r) == UNION {HitsIn(p, v[p].text, r) : p \in Searched(v, r)}

Put(v, p, t) ==
  IF Blocked(v, Parent(p)) THEN Outcome("error", v)
  ELSE IF p \in DOMAIN v /\ v[p].dir THEN Outcome("error", v)
  ELSE Outcome("ok", With(WithDirs(v, Parent(p)), p, File(t)))

\* v with a file in the place of each of the first n paths of ps
WithFiles(v, ps, n, t) ==
  LET new  == {ps[i] : i \in 1 .. n}
      dirs == {q \in Path : \E p \in new : IsPrefix(q, Parent(p))}
  IN [q \in DOMAIN v \cup new \cup dirs |->
        IF q \in new THEN File(t) ELSE IF q \in DOMAIN v THEN v[q] ELSE Dir]

\* one file after the other, up to the first that cannot be put where it belongs
PutAll(v, ps, t) ==
  LET fits(i) == Put(WithFiles(v, ps, i - 1, t), ps[i], t).status = "ok"
      n == CHOOSE n \in 0 .. Len(ps) :
             (\A i \in 1 .. n : fits(i)) /\ (n = Len(ps) \/ ~fits(n + 1))
  IN Outcome(IF n = Len(ps) THEN "ok" ELSE "error", WithFiles(v, ps, n, t))

Replace(t, old, new) ==
  LET i == CHOOSE i \in Places(t, old) : TRUE
  IN SubSeq(t, 1, i - 1) \o new \o SubSeq(t, i + 1, Len(t))

Relocated(v, p, q) ==
  LET rest  == Without(v, p)
      moved == {s \in DOMAIN v : IsPrefix(p, s)}
  IN [s \in DOMAIN rest \cup {Moved(p, q, m) : m \in moved} |->
        IF IsPrefix(q, s) THEN v[Moved(q, p, s)] ELSE rest[s]]

Promise(v, r) ==
  CASE r.op \in {"write", "upload"} -> PutAll(v, r.files, r.text)
    [] r.op = "mkdir" ->
         IF Blocked(v, r.path) THEN Outcome("error", v)
         ELSE Outcome("ok", WithDirs(v, r.path))
    [] r.op = "delete" ->
         IF r.path = Root \/ Blocked(v, Parent(r.path)) THEN Outcome("error", v)
         ELSE Outcome("ok", Without(v, r.path))
    [] r.op = "patch" /\ r.old = <<>> -> Put(v, r.path, r.text)
    [] r.op = "patch" /\ r.old # <<>> ->
         IF r.path \notin DOMAIN v THEN Outcome(Missing(v, r.path), v)
         ELSE IF v[r.path].dir THEN Outcome("error", v)
         ELSE LET t == v[r.path].text
              IN IF Cardinality(Places(t, r.old)) # 1 THEN Outcome("conflict", v)
                 ELSE Outcome("ok", With(v, r.path, File(Replace(t, r.old, r.text))))
    [] r.op = "copy" ->
         IF r.path \notin DOMAIN v THEN Outcome(Missing(v, r.path), v)
         ELSE LET made == Put(v, r.to, v[r.path].text)
              IN IF v[r.path].dir THEN Outcome("error", made.view) ELSE made
    [] r.op = "move" ->
         IF Blocked(v, Parent(r.to)) THEN Outcome("error", v)
         ELSE LET w == WithDirs(v, Parent(r.to))
              IN IF r.path \notin DOMAIN w THEN Outcome(Missing(v, r.path), w)
                 ELSE IF r.to \in DOMAIN w /\ (w[r.to].dir \/ w[r.path].dir)
                   THEN Outcome("error", w)
                 ELSE IF r.to # r.path /\ IsPrefix(r.path, r.to) THEN Outcome("error", w)
                 ELSE Outcome("ok", Relocated(w, r.path, r.to))
    [] r.op = "search" -> Tells(v, Hits(v, r))
    [] r.op \in {"read", "download", "view", "list", "stat", "chmod"} ->
         IF r.path \notin DOMAIN v THEN Outcome(Missing(v, r.path), v)
         ELSE IF r.op = "stat" THEN Tells(v, {<<r.path, v[r.path].dir>>})
         ELSE IF r.op = "chmod" THEN Outcome("ok", v)
         ELSE IF v[r.path].dir # (r.op = "list") THEN Outcome("error", v)
         ELSE IF r.op = "list" THEN Tells(v, {<<q, v[q].dir>> : q \in ChildrenIn(v, r.path)})
         ELSE Tells(v, {<<r.path, v[r.path].text>>})

-------------------------------------------------------------------------------
Init ==
  /\ tree = [p \in {Root} |-> DirIno]
  /\ data = [i \in Ino |-> <<>>]
  /\ pc = [c \in Client |-> "idle"] /\ req = [c \in Client |-> NoReq]
  /\ job = [c \in Client |-> NoJob] /\ answer = [c \in Client |-> NoAnswer]
  /\ base = [c \in Client |-> NoView] /\ reach = [c \in Client |-> {}]
  /\ same = [c \in Client |-> {}]

\* (history) what a step that changes the tree leaves as it was
Watch == same' = [c \in Client |-> {p \in same[c] : p \in DOMAIN View' /\ View'[p] = View[p]}]

Goto(c, l) == pc' = [pc EXCEPT ![c] = l]

\* the operations whose handlers record them, once they have succeeded
Recorded == {"write", "delete", "move", "patch"}

AnswerWith(c, s, b) ==
  /\ answer' = [answer EXCEPT ![c] =
       [status |-> s, recorded |-> s = "ok" /\ req[c].op \in Recorded, body |-> b]]
  /\ Goto(c, "answered")
Answer(c, s) == AnswerWith(c, s, {})
Finish(c, s) == Answer(c, s) /\ job' = [job EXCEPT ![c] = NoJob]
FinishWith(c, s, b) == AnswerWith(c, s, b) /\ job' = [job EXCEPT ![c] = NoJob]

Named(r) == IF r.op \in {"write", "upload"} THEN Range(r.files)
            ELSE IF r.op \in {"copy", "move"} THEN {r.path, r.to} ELSE {r.path}
Meet(P, Q) == \E p \in P, q \in Q : IsPrefix(p, q) \/ IsPrefix(q, p)
Active == {c \in Client : pc[c] \notin {"idle", "answered"}}

\* the file that is written next
Target(r, p) == [NoJob EXCEPT !.at = p, !.dir = Parent(p), !.depth = Len(Parent(p)),
                              !.buf = r.text]

\* base is kept as long as no other request that changes the tree reaches a path
\* above, below or equal to one that this request names.
Accept(c, q) == LET r == Resolved(q) IN
  /\ pc[c] = "idle" /\ q \in Requests
  /\ LET rivals == {d \in Client : Meet(reach[d], Named(r))}
         busy == {d \in rivals \cap Active : req[d].op \notin Reads}
     IN base' = [d \in Client |-> IF d = c THEN IF busy = {} THEN View ELSE NoView
                                  ELSE IF d \in rivals /\ r.op \notin Reads THEN NoView ELSE base[d]]
  /\ reach' = [reach EXCEPT ![c] = Named(r)]
  /\ same' = [same EXCEPT ![c] = IF r.op \in {"list", "search"} THEN DOMAIN tree ELSE {}]
  /\ req' = [req EXCEPT ![c] = r]
  /\ job' = [job EXCEPT ![c] =
       CASE r.op \in {"write", "upload"} -> [Target(r, r.files[1]) EXCEPT !.more = Tail(r.files)]
         [] r.op = "mkdir" -> [NoJob EXCEPT !.dir = r.path, !.depth = Len(r.path)]
         [] r.op = "delete" -> [NoJob EXCEPT !.todo = <<[at |-> r.path, listed |-> FALSE]>>]
         [] r.op = "patch" -> Target(r, r.path)
         [] r.op \in {"copy", "move"} -> Target(r, r.to)
         [] r.op \in Reads -> NoJob]
  /\ Goto(c, CASE r.op \in {"copy", "read", "download", "view"} -> "source"
               [] r.op = "delete" -> "remove"
               [] r.op = "patch" /\ r.old # <<>> -> "read"
               [] r.op \in {"list", "search", "stat", "chmod"} -> r.op
               [] OTHER -> "make")
  /\ UNCHANGED <<tree, data, answer>>

InUse == Range(tree) \cup UNION {{job[c].fd, job[c].src} : c \in Client}

\* The response is sent; the content of files that are gone is forgotten.
Return(c) ==
  /\ pc[c] = "answered"
  /\ Goto(c, "idle")
  /\ req' = [req EXCEPT ![c] = NoReq]
  /\ answer' = [answer EXCEPT ![c] = NoAnswer]
  /\ base' = [base EXCEPT ![c] = NoView] /\ reach' = [reach EXCEPT ![c] = {}]
  /\ same' = [same EXCEPT ![c] = {}]
  /\ data' = [i \in Ino |-> IF i \in InUse THEN data[i] ELSE <<>>]
  /\ UNCHANGED <<tree, job>>

-------------------------------------------------------------------------------
(* os.MkdirAll: look up the path for a directory that exists, then make    *)
(* the ones below it, from the top                                         *)

MadeDirs(c) ==
  IF req[c].op = "mkdir" THEN Finish(c, "ok")
  ELSE Goto(c, IF req[c].op = "move" THEN "lstat" ELSE "open") /\ UNCHANGED <<job, answer>>

Stat(c) ==
  /\ pc[c] = "make"
  /\ LET d == job[c].depth
         p == SubSeq(job[c].dir, 1, d)
     IN \/ /\ p \notin DOMAIN tree
           /\ job' = [job EXCEPT ![c].depth = d - 1]
           /\ UNCHANGED <<pc, answer>>
        \/ IsFile(p) /\ Finish(c, "error")
        \/ IsDir(p) /\ d = Len(job[c].dir) /\ MadeDirs(c)
        \/ IsDir(p) /\ d < Len(job[c].dir) /\ Goto(c, "mkdir") /\ UNCHANGED <<job, answer>>
  /\ UNCHANGED <<tree, data, req, history>>

\* (mutant) a directory that somebody else has made by now is an error
MkdirStrict(c) ==
  /\ pc[c] = "mkdir"
  /\ LET d == job[c].depth + 1
         p == SubSeq(job[c].dir, 1, d)
     IN IF ~IsDir(Parent(p)) \/ p \in DOMAIN tree
          THEN Finish(c, "error") /\ UNCHANGED tree
          ELSE /\ tree' = With(tree, p, DirIno)
               /\ IF d = Len(job[c].dir) THEN MadeDirs(c)
                  ELSE /\ job' = [job EXCEPT ![c].depth = d]
                       /\ UNCHANGED <<pc, answer>>
  /\ UNCHANGED <<data, req, base, reach>> /\ Watch

Mkdir(c) ==
  /\ pc[c] = "mkdir"
  /\ LET d == job[c].depth + 1
         p == SubSeq(job[c].dir, 1, d)
     IN IF ~IsDir(Parent(p)) \/ IsFile(p)
          THEN /\ Finish(c, Missing(View, p))
               /\ UNCHANGED tree
          ELSE /\ tree' = With(tree, p, DirIno)
               /\ IF d = Len(job[c].dir) THEN MadeDirs(c)
                  ELSE /\ job' = [job EXCEPT ![c].depth = d]
                       /\ UNCHANGED <<pc, answer>>
  /\ UNCHANGED <<data, req, base, reach>> /\ Watch

-------------------------------------------------------------------------------
(* os.WriteFile and the second half of Copy: truncate or create, then write *)

KeptTail(i) == data   \* (mutant) opened without O_TRUNC
Truncated(i) == [data EXCEPT ![i] = <<>>]

Open(c) ==
  /\ pc[c] = "open"
  /\ LET p == job[c].at
     IN \/ /\ IsDir(p) \/ ~IsDir(Parent(p))
           /\ Finish(c, IF IsDir(p) THEN "error" ELSE Missing(View, p))
           /\ UNCHANGED <<tree, data>>
        \/ /\ IsDir(Parent(p)) /\ ~IsDir(p)
           /\ \E i \in IF IsFile(p) THEN {tree[p]} ELSE Ino \ InUse :
                /\ tree' = With(tree, p, i)
                /\ data' = Truncated(i)
                /\ job' = [job EXCEPT ![c].fd = i]
           /\ Goto(c, "fill") /\ UNCHANGED answer
  /\ UNCHANGED <<req, base, reach>> /\ Watch

Overlay(t, old) == t \o SubSeq(old, Len(t) + 1, Len(old))

\* an upload goes on with its next file; what it has written stays if that fails
NextFile(c) ==
  /\ job' = [job EXCEPT ![c] =
       [Target(req[c], Head(@.more)) EXCEPT !.more = Tail(job[c].more)]]
  /\ Goto(c, "make") /\ UNCHANGED answer

\* the data of a write, of a patch, or of the source of a copy
Fill(c) ==
  /\ pc[c] = "fill"
  /\ LET j == job[c]
         copies == req[c].op = "copy"
         bytes == IF ~copies THEN j.buf ELSE IF j.src = DirIno THEN <<>> ELSE data[j.src]
     IN /\ data' = [data EXCEPT ![j.fd] = Overlay(bytes, @)]
        /\ IF j.more # <<>> THEN NextFile(c)
           ELSE Finish(c, IF copies /\ j.src = DirIno THEN "error" ELSE "ok")
  /\ UNCHANGED <<tree, req, base, reach>> /\ Watch

\* Copy opens its source first, be it a directory; so do the handlers that send a file
OpenSource(c) ==
  /\ pc[c] = "source"
  /\ LET p == req[c].path  o == req[c].op
     IN IF p \notin DOMAIN tree THEN Finish(c, Missing(View, p))
        ELSE IF IsDir(p) /\ o # "copy" THEN Finish(c, "error")
        ELSE /\ job' = [job EXCEPT ![c].src = tree[p]]
             /\ Goto(c, CASE o = "copy" -> "make" [] o = "read" -> "send" [] OTHER -> "size")
             /\ UNCHANGED answer
  /\ UNCHANGED <<tree, data, req, history>>

\* Patch reads the file and finds the block
ReadOld(c) ==
  /\ pc[c] = "read"
  /\ LET p == req[c].path
         t == data[tree[p]]
     IN IF p \notin DOMAIN tree THEN Finish(c, Missing(View, p))
        ELSE IF IsDir(p) THEN Finish(c, "error")
        ELSE IF Cardinality(Places(t, req[c].old)) # 1 THEN Finish(c, "conflict")
        ELSE /\ job' = [job EXCEPT ![c].buf = Replace(t, req[c].old, req[c].text)]
             /\ Goto(c, "open") /\ UNCHANGED answer
  /\ UNCHANGED <<tree, data, req, history>>

-------------------------------------------------------------------------------
(* os.Rename: a directory is never replaced, if Lstat finds it in time *)

Lstat(c) ==
  /\ pc[c] = "lstat"
  /\ IF IsDir(req[c].to)
       THEN Finish(c, IF req[c].path \in DOMAIN tree THEN "error" ELSE Missing(View, req[c].path))
       ELSE Goto(c, "rename") /\ UNCHANGED <<job, answer>>
  /\ UNCHANGED <<tree, data, req, history>>

\* RemoveAll holds the directories it has listed open and goes on in them,
\* wherever they are moved (from p to q); what it has listed in one that is gone
\* (replaced by q, or removed: p is Nowhere) is Nowhere too.
Nowhere == <<"">>
Now(p, q, s) == IF IsPrefix(p, Parent(s)) THEN Moved(p, q, s)
                ELSE IF s # q /\ IsPrefix(q, s) THEN Nowhere ELSE s
Follows(j, p, q) ==
  IF j.todo = <<>> \/ ~j.todo[1].listed THEN j
  ELSE [j EXCEPT !.todo = [i \in DOMAIN j.todo |-> [j.todo[i] EXCEPT !.at = Now(p, q, @)]]]

Rename(c) ==
  /\ pc[c] = "rename"
  /\ LET p == req[c].path  q == req[c].to
         refused ==
           \/ p # q /\ IsPrefix(p, q)
           \/ IsDir(p) /\ (IsFile(q) \/ Children(q) # {})
           \/ IsFile(p) /\ IsDir(q)
     IN IF ~IsDir(Parent(q)) \/ p \notin DOMAIN tree
          THEN /\ Finish(c, IF ~IsDir(Parent(q)) THEN Missing(View, Parent(q)) ELSE Missing(View, p))
               /\ UNCHANGED <<tree, reach>>
          ELSE IF refused \/ p = q
          THEN Finish(c, IF refused THEN "error" ELSE "ok") /\ UNCHANGED <<tree, reach>>
          ELSE /\ tree' = Relocated(tree, p, q)
               /\ job' = [d \in Client |-> IF d = c THEN NoJob ELSE Follows(job[d], p, q)]
               /\ reach' = [d \in Client |-> IF d \in Active /\ Meet(reach[d], {p})
                                             THEN reach[d] \cup {q} ELSE reach[d]]
               /\ Answer(c, "ok")
  /\ UNCHANGED <<data, req, base>> /\ Watch

-------------------------------------------------------------------------------
(* os.RemoveAll: todo is a stack, with the entries of a directory, as they *)
(* were listed, above the directory                                        *)

MustList(e) == Children(e.at) # {} /\ ~e.listed

RemoveEntry(c) ==
  /\ pc[c] = "remove" /\ job[c].todo[1].at # Root
  /\ LET todo == job[c].todo
         p == Last(todo).at
         removed == \/ IsFile(p) /\ ~Last(todo).listed
                    \/ IsDir(p) /\ Children(p) = {}
     IN \/ /\ MustList(Last(todo))
           /\ \E names \in SetToSeqs(Children(p)) :
                job' = [job EXCEPT ![c].todo =
                  [todo EXCEPT ![Len(todo)].listed = TRUE]
                    \o [i \in DOMAIN names |-> [at |-> names[i], listed |-> FALSE]]]
           /\ UNCHANGED <<tree, pc, answer>>
        \/ /\ ~MustList(Last(todo))
           /\ tree' = IF removed THEN Without(tree, p) ELSE tree
           /\ job' = [d \in Client |->
                IF d = c THEN [job[c] EXCEPT !.todo = Front(@)]
                ELSE IF removed THEN Follows(job[d], Nowhere, p) ELSE job[d]]
           /\ IF Len(todo) > 1 THEN UNCHANGED <<pc, answer>>
              ELSE Answer(c, IF p \in DOMAIN tree' \/ Blocked(View, Parent(p)) THEN "error" ELSE "ok")
  /\ UNCHANGED <<data, req, base, reach>> /\ Watch

RefuseRoot(c) ==
  /\ pc[c] = "remove" /\ job[c].todo[1].at = Root
  /\ Finish(c, "error")
  /\ UNCHANGED <<tree, data, req, history>>

-------------------------------------------------------------------------------
(* What only reads: one file, the entries of a directory, a whole tree *)

\* one call that is answered with what it found
Look(c, found) ==
  /\ LET p == req[c].path
     IN IF p \in DOMAIN tree THEN FinishWith(c, "ok", found) ELSE Finish(c, Missing(View, p))
  /\ UNCHANGED <<tree, data, req, history>>

StatPath(c) == pc[c] = "stat" /\ Look(c, {<<req[c].path, IsDir(req[c].path)>>})
Chmod(c)    == pc[c] = "chmod" /\ Look(c, {})

\* The length of the response is announced before the file is read.
Measure(c) ==
  /\ pc[c] = "size"
  /\ job' = [job EXCEPT ![c].depth = Len(data[job[c].src])]
  /\ Goto(c, "send")
  /\ UNCHANGED <<tree, data, req, answer, history>>

\* What net/http sends of a file of n blocks when it has announced a: fsView asks
\* for no more than that; fsDownload goes on, and the chunk that exceeds it is
\* refused as a whole.
Sendable(o, a, n) ==
  IF o = "read" \/ n <= a THEN {n} ELSE IF o = "view" THEN {a} ELSE 0 .. a

Send(c) ==
  /\ pc[c] = "send"
  /\ LET j == job[c]  o == req[c].op  t == data[j.src]
     IN \E n \in Sendable(o, j.depth, Len(t)) :
          FinishWith(c, IF o = "read" \/ n = j.depth THEN "ok" ELSE "broken",
                     {<<req[c].path, SubSeq(t, 1, n)>>})
  /\ UNCHANGED <<tree, data, req, history>>

\* on to the next entry of a list or a search
GoOn(c, rest, found) ==
  IF rest = <<>> THEN FinishWith(c, "ok", found)
  ELSE /\ job' = [job EXCEPT ![c].todo = rest, ![c].found = found]
       /\ UNCHANGED <<pc, answer>>

\* an entry as its directory was read: whether it is a directory is known from there
Entry(p) == [at |-> p, listed |-> FALSE, dir |-> IsDir(p)]
Entries(p) == LET names == SetToSeq(Children(p)) IN [i \in DOMAIN names |-> Entry(names[i])]

ReadDir(c) ==
  /\ pc[c] = "list"
  /\ LET p == req[c].path
     IN IF p \notin DOMAIN tree THEN Finish(c, Missing(View, p))
        ELSE IF IsFile(p) THEN Finish(c, "error")
        ELSE IF Children(p) = {} THEN FinishWith(c, "ok", {})
        ELSE /\ job' = [job EXCEPT ![c].todo = Entries(p)]
             /\ Goto(c, "info") /\ UNCHANGED answer
  /\ UNCHANGED <<tree, data, req, history>>

\* (mutant) an entry that is gone by now is an error
InfoStrict(c) ==
  /\ pc[c] = "info"
  /\ LET j == job[c]  p == Head(j.todo).at
     IN IF p \in DOMAIN tree THEN GoOn(c, Tail(j.todo), j.found \cup {<<p, IsDir(p)>>})
        ELSE Finish(c, "missing")
  /\ UNCHANGED <<tree, data, req, history>>

\* an entry that is gone by now is left out
Info(c) ==
  /\ pc[c] = "info"
  /\ LET j == job[c]  p == Head(j.todo).at
     IN GoOn(c, Tail(j.todo), j.found \cup IF p \in DOMAIN tree THEN {<<p, IsDir(p)>>} ELSE {})
  /\ UNCHANGED <<tree, data, req, history>>

\* WalkDir begins with Lstat; a search in what is not there finds nothing.
Walk(c) ==
  /\ pc[c] = "search"
  /\ IF req[c].path \notin DOMAIN tree THEN FinishWith(c, "ok", {})
     ELSE /\ job' = [job EXCEPT ![c].todo = <<Entry(req[c].path)>>]
          /\ Goto(c, "visit") /\ UNCHANGED answer
  /\ UNCHANGED <<tree, data, req, history>>

\* (mutant) a line that is too long is skipped and not counted
ScannedOn(t) == SelectSeq(t, LAMBDA b : b \notin TooLong)

\* The lines that the scanner delivers of t: one that does not fit its buffer ends the
\* scan, and sc.Err(), which would tell, is not asked.
Scanned(t) ==
  LET n == CHOOSE n \in 0 .. Len(t) :
             (\A i \in 1 .. n : t[i] \notin TooLong) /\ (n = Len(t) \/ t[n + 1] \in TooLong)
  IN SubSeq(t, 1, n)

\* the first n hits, in the order of lines
First(n, hits) == {h \in hits : Cardinality({g \in hits : g[2] < h[2]}) < n}

\* What cannot be read any more is skipped.  A file is opened only for its content:
\* by its name alone it is found even if it is gone.
Visit(c) ==
  /\ pc[c] = "visit"
  /\ LET j == job[c]  r == req[c]  e == Head(j.todo)  left == r.limit - Cardinality(j.found)
         text == IF r.old # <<>> /\ IsFile(e.at) THEN data[tree[e.at]] ELSE <<>>
         hits == Matches(e.at, Scanned(text), r)
     IN IF e.dir THEN GoOn(c, (IF IsDir(e.at) THEN Entries(e.at) ELSE <<>>) \o Tail(j.todo), j.found)
        ELSE IF left = 0 THEN GoOn(c, <<>>, j.found)
        ELSE GoOn(c, Tail(j.todo), j.found \cup First(left, hits))
  /\ UNCHANGED <<tree, data, req, history>>

-------------------------------------------------------------------------------
Step(c) ==
  \/ Stat(c) \/ Mkdir(c) \/ Open(c) \/ Fill(c) \/ OpenSource(c) \/ ReadOld(c)
  \/ Lstat(c) \/ Rename(c) \/ RemoveEntry(c) \/ RefuseRoot(c)
  \/ StatPath(c) \/ Chmod(c) \/ Measure(c) \/ Send(c) \/ ReadDir(c) \/ Info(c) \/ Walk(c) \/ Visit(c)

Next == \E c \in Client :
  Step(c) \/ Return(c) \/ \E r \in Requests : Accept(c, r)

Spec == Init /\ [][Next]_vars

-------------------------------------------------------------------------------
(* Properties *)

\* every entry is in a directory; no file has two names
TypeOK ==
  /\ DOMAIN tree \subseteq Path /\ tree \in [DOMAIN tree -> Ino \cup {DirIno}]
  /\ IsDir(Root) /\ \A p \in DOMAIN tree : IsDir(Parent(p))
  /\ \A p, q \in DOMAIN tree : IsFile(p) /\ tree[p] = tree[q] => p = q
  /\ data \in [Ino -> Seq(Blocks)]
  /\ \A c \in Client : job[c].fd \in Ino \cup {DirIno} /\ job[c].src \in Ino \cup {DirIno}

CopiesOntoItself(r) == r.op = "copy" /\ r.path = r.to

\* Requests that have nothing to do with each other do not disturb each other:
\* one that shares no path with any other in flight is answered, and leaves the
\* paths it names, as if it had run alone and at once, however the system calls
\* (the directories they share, above all) interleave; a file that is sent is sent
\* whole.  What failed is not in the audit trail.  A search promises the lines before
\* the first that is too long for its scanner.
UnrelatedRequestsKeepPromise ==
  \A c \in Client : pc[c] = "answered" /\ base[c] # NoView /\ ~CopiesOntoItself(req[c]) =>
    LET promised == Promise(base[c], req[c])
        scope == UNION {Within(p) : p \in Named(req[c])}
    IN /\ answer[c].status = promised.status
       /\ answer[c].recorded => promised.status = "ok"
       /\ answer[c].body \subseteq promised.body
       /\ IF req[c].op = "search"
            THEN Cardinality(answer[c].body) = Min({req[c].limit, Cardinality(promised.body)})
            ELSE answer[c].body = promised.body
       /\ \A p \in scope : /\ p \in DOMAIN View <=> p \in DOMAIN promised.view
                           /\ p \in DOMAIN View => View[p] = promised.view[p]

\* Whatever goes on in a tree while it is listed or searched, nothing is missed that
\* stayed where and as it was, unless the search has met its limit: entries that
\* come, go or cannot be read on the way end neither.  In a file, a search promises
\* the lines before the first that is too long for its scanner, and the files after it.
ReadersSeeWhatStays ==
  \A c \in Client : pc[c] = "answered" =>
    LET r == req[c]
        stayed == [p \in same[c] \cap DOMAIN View |-> View[p]]
    IN /\ r.op = "list" /\ r.path \in DOMAIN stayed /\ stayed[r.path].dir =>
            /\ answer[c].status = "ok"
            /\ \A p \in ChildrenIn(stayed, r.path) : <<p, stayed[p].dir>> \in answer[c].body
       /\ r.op = "search" =>
            \/ Hits(stayed, r) \subseteq answer[c].body
            \/ Cardinality(answer[c].body) = r.limit

-------------------------------------------------------------------------------
(* What the repository says and the code does not do *)

\* fsapi: "Copy copies a single file src to dst"; TestCopy finds the data in both.
CopyKeepsItsSource ==
  \A c \in Client : req[c].op = "copy" /\ answer[c].status = "ok" /\ base[c] # NoView =>
    View[req[c].path] = base[c][req[c].path]

===============================================================================
