------------------------------- MODULE PathJail -------------------------------
(***************************************************************************)
(* fsapi.resolve: how the path of a request is turned into one below Root. *)
(* A path is the sequence of what stands between its slashes, so that      *)
(* "/a//.." is <<"", "a", "", "..">>; a cleaned absolute path is the       *)
(* sequence of its names, <<>> for "/".                                    *)
(*                                                                         *)
(* This module has no state.  FsApi resolves the paths of its requests     *)
(* with it; Browse follows the paths that the server reports.              *)
(***************************************************************************)
EXTENDS Naturals, Sequences, SequencesExt

CONSTANTS
  Name,     \* the names of files and directories
  Roots     \* the values of FS_ROOT, cleaned (filepath.Abs)

Stay == {"", "."}   \* elements that lead nowhere
Up == ".."

\* With FS_ROOT=/ resolve refuses every path but "/": it compares with "//".
ASSUME PathJailAssumption ==
  /\ <<>> \notin Roots /\ Roots \subseteq Seq(Name)
  /\ Name \cap (Stay \cup {Up, "/"}) = {}

Escape == <<"path escapes root">>

\* a path from "/" on
Abs(p) == <<"">> \o p
IsAbs(p) == p # <<>> /\ Head(p) = ""

\* where an element leads from a cleaned path
Descend(out, e) ==
  IF e \in Stay \/ (e = Up /\ out = <<>>) THEN out
  ELSE IF e = Up THEN Front(out) ELSE Append(out, e)

\* (mutant) ".." is dropped like "."
CleanDropsDots(p) == SelectSeq(p, LAMBDA e : e \in Name)

\* filepath.Clean of "/" and p
Clean(p) ==
  LET out[i \in 0 .. Len(p)] == IF i = 0 THEN <<>> ELSE Descend(out[i - 1], p[i])
  IN out[Len(p)]

\* the characters of a cleaned path, as far as slashes and names go
Text(p) ==
  IF p = <<>> THEN <<"/">>
  ELSE [k \in 1 .. 2 * Len(p) |-> IF k % 2 = 1 THEN "/" ELSE p[k \div 2]]

Resolve(rt, p) ==
  LET a == rt \o Clean(p)   \* filepath.Join: neither part has anything left to clean
  IN IF a # rt /\ ~IsPrefix(Text(rt) \o <<"/">>, Text(a)) THEN Escape ELSE a

\* (mutant) the path below the working directory of the server
EntryPathAbs(rt, a) == Abs(a)

\* the path that List, Stat and Search report for an entry; Rel says "." of Root
EntryPath(rt, a) ==
  LET below == SubSeq(a, Len(rt) + 1, Len(a))
  IN Abs(IF below = <<>> THEN <<".">> ELSE below)

\* as Descend, without a root: ".." in front stays
DescendFree(out, e) ==
  IF e \in Stay THEN out
  ELSE IF e = Up /\ out # <<>> /\ Last(out) # Up THEN Front(out) ELSE Append(out, e)

\* (mutant) the directory of the request counts only if it starts with a slash
JoinAbsolute(dir, name) ==
  IF IsAbs(dir) THEN Abs(Clean(Append(dir, name))) ELSE <<name>>

\* filepath.Join of upload
Join(dir, name) ==
  IF IsAbs(dir) THEN Abs(Clean(Append(dir, name)))
  ELSE LET p == Append(dir, name)
           out[i \in 0 .. Len(p)] == IF i = 0 THEN <<>> ELSE DescendFree(out[i - 1], p[i])
       IN out[Len(p)]

===============================================================================
