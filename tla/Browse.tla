-------------------------------- MODULE Browse --------------------------------
(***************************************************************************)
(* A client that finds its way through the tree below FS_ROOT by paths     *)
(* alone: it asks for one of its own, goes on with the one that the answer *)
(* reports, or uploads a file into the directory it asked for.             *)
(***************************************************************************)
EXTENDS PathJail, FiniteSets

CONSTANTS
  MaxDepth  \* bound: elements of the path of a request

ASSUME BrowseAssumption == MaxDepth \in Nat

Element == Name \cup Stay \cup {Up}
Rels == UNION {[1 .. n -> Element] : n \in 0 .. MaxDepth}

VARIABLES
  root,   \* fsapi.Root
  asked,  \* the path of the last request
  at      \* what resolve made of it: the path that the server touches

vars == <<root, asked, at>>

Init == root \in Roots /\ asked = <<>> /\ at = root

Request(p) ==
  /\ asked' = p
  /\ at' = Resolve(root, p)
  /\ UNCHANGED root

Ask == asked = <<>> /\ \E p \in Rels : Request(p)

\* the path that Stat gives of the entry it was asked for
Follow == Request(EntryPath(root, at))

\* the path that List and Search give of an entry of that directory
Enter(n) == Len(asked) <= MaxDepth /\ Request(EntryPath(root, Append(at, n)))

\* the path of one file of an upload; it is resolved a second time by the write
Upload(n) == Len(asked) <= MaxDepth /\ Request(Join(asked, n))

Next == Ask \/ Follow \/ \E n \in Name : Enter(n) \/ Upload(n)

Spec == Init /\ [][Next]_vars

-------------------------------------------------------------------------------
(* Properties *)

\* However ".." is nested, a path leads where walking it from Root does, where the
\* parent of Root is Root; so it stays below Root and is never refused, and the check
\* of resolve is a second line of defence.  A name is left by the walk unless a ".."
\* later on, that no name in between makes up for, goes back over it.
Count(p, S, i, j) == Cardinality({k \in i .. j : p[k] \in S})

Left(p) ==
  {i \in DOMAIN p : /\ p[i] \in Name
                    /\ \A j \in i + 1 .. Len(p) :
                         Count(p, {Up}, i + 1, j) <= Count(p, Name, i + 1, j)}

Walk(p) ==
  [k \in 1 .. Cardinality(Left(p)) |->
     p[CHOOSE i \in Left(p) : Cardinality({j \in Left(p) : j <= i}) = k]]

WalksThePath == at = root \o Walk(asked)

\* The path that a listing or a search reports of a file leads to that file.
ReportedPathsLeadBack ==
  [][/\ Follow => at' = at
     /\ \A n \in Name : Enter(n) => at' = Append(at, n)]_vars

\* An uploaded file lands in the directory that the request names.
UploadsLandInTheirDirectory == [][\A n \in Name : Upload(n) => at' = Append(at, n)]_vars

===============================================================================
