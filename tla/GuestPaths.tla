------------------------------ MODULE GuestPaths ------------------------------
(***************************************************************************)
(* Where a drive is mounted in the VM: the symbolic links of a destination *)
(* and the test that keeps mounts out of the directories of the kernel     *)
(* (agent/drive_handler.go).  A path is the sequence of its names, "." and *)
(* ".." among them.  The test is made of the path in its clean form, the   *)
(* directories and the mount of the path as it is written.                 *)
(*                                                                         *)
(* Of a link the target is given, without dots, from the root.  A file of  *)
(* the image that is no directory is given as a link to itself: both are   *)
(* refused, wherever they are on a path.                                   *)
(***************************************************************************)
EXTENDS Naturals, Sequences, SequencesExt

CONSTANTS
    GuestDirs,   \* the directories of the image, the root << >> among them
    GuestLinks   \* its symbolic links, with their targets

Path == Seq(STRING)

\* A path that says itself where it leads to, but for links.
Plain(path) == \A n \in DOMAIN path : path[n] \notin {".", ".."}

MaxLinks == 8  \* bound: links followed before a path counts as a loop

\* Where the names of a path are links.
LinksOn(path) == {n \in 1..Len(path) : SubSeq(path, 1, n) \in DOMAIN GuestLinks}

\* A tree: what is above a directory or a link is a directory.
GuestAssumption ==
    /\ << >> \in GuestDirs /\ GuestDirs \subseteq Path
    /\ \A dir \in GuestDirs :
           Plain(dir) /\ Prefixes(dir) \subseteq GuestDirs /\ LinksOn(dir) = {}
    /\ \A link \in DOMAIN GuestLinks :
           /\ link \in Path \ {<< >>} /\ Plain(link) /\ Front(link) \in GuestDirs
           /\ GuestLinks[link] \in Path /\ Plain(GuestLinks[link])
ASSUME GuestTree == GuestAssumption

-----------------------------------------------------------------------------
\* The first link of a path gives way to its target.
Follow(path) ==
    IF LinksOn(path) = {} THEN path
    ELSE LET n == Min(LinksOn(path))
         IN  GuestLinks[SubSeq(path, 1, n)] \o SubSeq(path, n + 1, Len(path))

Followed(path) ==
    LET after[n \in 0..MaxLinks] == IF n = 0 THEN path ELSE Follow(after[n - 1])
    IN  after[MaxLinks]

\* One name more of a path, where ".." is what is above another path.
Above(path) == IF path = << >> THEN << >> ELSE Front(path)

Take(path, name, other) ==
    CASE name = "." -> path
      [] name = ".." -> Above(other)
      [] OTHER -> Append(path, name)

\* filepath.Clean: ".." takes back the name before it, whatever that is.
Clean(path) ==
    LET upTo[n \in 0..Len(path)] ==
            IF n = 0 THEN << >> ELSE Take(upTo[n - 1], path[n], upTo[n - 1])
    IN  upTo[Len(path)]

\* For the kernel ".." is above what the names before it lead to.
Straight(path) ==
    LET upTo[n \in 0..Len(path)] ==
            IF n = 0 THEN << >> ELSE Take(upTo[n - 1], path[n], Followed(upTo[n - 1]))
    IN  upTo[Len(path)]

Lead(path) == Followed(Straight(path))

\* Whether a path leads to a directory, which every name on the way does.
LeadsToDir(dirs, path) == \A n \in 0..Len(path) : Lead(SubSeq(path, 1, n)) \in dirs

\* filepath.EvalSymlinks of a clean path; where nothing is, no links are.
EvalSymlinks(dirs, path) ==
    LET real == Followed(path)
    IN  [path |-> real,
         res |-> CASE LinksOn(real) # {} -> "loop"
                   [] LinksOn(real) = {} /\ real \in dirs -> "ok"
                   [] OTHER -> "missing"]

\* One name more of a path, below what the names before it lead to.  Links are
\* followed up to the first name that is missing.
EvalName(dirs, found, rest) ==
    LET next == Append(found.path, Head(rest))
        there == EvalSymlinks(dirs, next)
    IN  CASE found.res # "ok" -> found
          [] found.res = "ok" /\ there.res = "missing" ->
                 [there EXCEPT !.path = next \o Tail(rest)]
          [] OTHER -> there

EvalAnySymlinks(dirs, path) ==
    LET found[n \in 0..Len(path)] ==
            IF n = 0 THEN [path |-> << >>, res |-> "ok"]
            ELSE EvalName(dirs, found[n - 1], SubSeq(path, n, Len(path)))
    IN  found[Len(path)]

IsOrUnderDir(path, dir) ==
    Len(path) >= Len(dir) /\ SubSeq(path, 1, Len(dir)) = dir

BannedSystemDirs == {<<"proc">>, <<"sys">>, <<"dev">>}

UnderBanned(path) == \E dir \in BannedSystemDirs : IsOrUnderDir(path, dir)

\* Mutant of IsSystemDir: the path is tested as it is written.
LexicalIsSystemDir(dirs, path) == UnderBanned(path)

\* Whether a mount at the path is refused.
IsSystemDir(dirs, path) ==
    LET found == EvalAnySymlinks(dirs, Clean(path))
    IN  found.res = "loop" \/ UnderBanned(found.path)

\* os.MkdirAll makes the directories that are missing, one after another, which
\* it cannot if one is a link to what was not there before.
Dangles(dirs, path) ==
    /\ Append(Lead(Front(path)), Last(path)) \in DOMAIN GuestLinks
    /\ ~LeadsToDir(dirs, path)

CanMkdirAll(dirs, path) ==
    \A n \in 1..Len(path) : ~Dangles(dirs, SubSeq(path, 1, n))

MkdirAll(dirs, path) ==
    dirs \cup UNION {Prefixes(Lead(SubSeq(path, 1, n))) : n \in 1..Len(path)}
=============================================================================
