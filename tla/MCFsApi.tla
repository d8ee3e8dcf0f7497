------------------------------- MODULE MCFsApi -------------------------------
(***************************************************************************)
(* The paths and the requests with which TLC checks FsApi: two files in a  *)
(* directory, a second directory, a file beside them.                      *)
(***************************************************************************)
EXTENDS FsApi

A == <<"a">>     D == <<"d">>     E == <<"e">>
DA == <<"d", "a">>   DB == <<"d", "b">>   EA == <<"e", "a">>   EB == <<"e", "b">>

Paths == {Root, A, D, DA, DB, E, EA, EB, <<"e", "a", "a">>, <<"e", "a", "b">>}
Symmetry == Permutations(Client) \cup Permutations(Ino)

\* a line that no search gets past, and then one that matches
X == <<"x">>     Y == <<"y">>     XLY == <<"x", "long", "y">>     XLX == <<"x", "long", "x">>

DeepRoots == {<<"a">>, <<"opt", "a">>}

Do(op, p) == [NoReq EXCEPT !.op = op, !.path = p]
Write(p, t) == [NoReq EXCEPT !.op = "write", !.path = p, !.text = t]
Upload(p, ns, t) == [NoReq EXCEPT !.op = "upload", !.path = p, !.files = ns, !.text = t]
Between(op, p, q) == [NoReq EXCEPT !.op = op, !.path = p, !.to = q]
Search(p, names, t, n) ==
  [NoReq EXCEPT !.op = "search", !.path = p, !.files = names, !.old = t, !.limit = n]
Patch(p, old, new) == [NoReq EXCEPT !.op = "patch", !.path = p, !.old = old, !.text = new]

\* one client: every operation, on directories, files and what is not there
AloneRequests ==
  {Write(p, XLY) : p \in {A, D, DA, Root}} \cup {Write(A, XLX), Upload(D, <<"b", "a">>, X),
                                           Upload(<<"..", "e", ".">>, <<"b", "a">>, X)}
    \cup {Do("mkdir", p) : p \in {D, DA}} \cup {Do("delete", p) : p \in {A, D, DA, <<"", "d", "..">>}}
    \cup {Between("copy", p, q) : p \in {A, D}, q \in {A, DA, E, EA}}
    \cup {Between("move", p, q) : p \in {A, DA}, q \in {A, DA, EA}}
    \cup {Between("move", D, q) : q \in {D, DA, E, EA}}
    \cup {Patch(p, X, Y) : p \in {A, DA}} \cup {Patch(DA, <<>>, X)}
    \cup {Do(op, p) : op \in {"read", "view", "list", "stat"}, p \in {A, D}} \cup {Do("chmod", DA)}
    \cup {Search(Root, <<>>, X, 1), Search(Root, <<>>, Y, 0),
          Search(D, <<"a">>, <<>>, 200), Search(EA, <<>>, <<>>, 200)}

\* two clients: what meets in the directories d and e, and what only passes by
RaceRequests ==
  {Write(DA, X), Write(DB, XLX), Do("mkdir", E), Do("delete", D), Do("delete", EA),
   Between("move", D, E), Between("copy", DB, EA),
   Do("list", D), Search(Root, <<>>, X, 200), Do("download", DA)}

CopyRequests == {Write(A, X), Between("copy", A, A), Between("copy", A, D)}

===============================================================================
