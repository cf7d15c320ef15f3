------------------------------ MODULE FileTree ------------------------------
(***************************************************************************)
(* The part of the kernel's file system that the preloaded libraries use:  *)
(* path resolution and the outcome of stat, mkdir, unlink, rmdir and       *)
(* rename.  It is external to the repository and modelled from the way     *)
(* src/src/recyclix.c calls it and from the errno values it tells apart.   *)
(*                                                                         *)
(* A path is the sequence of its names below the root.  Paths is the       *)
(* finite universe of paths an instance can hold; a path beyond it cannot  *)
(* be created (ENAMETOOLONG).  Device and inode number are functions of    *)
(* the path, as only those of directories that persist are compared.       *)
(***************************************************************************)
EXTENDS Naturals, Sequences, FiniteSetsExt

CONSTANTS Names,     \* file names
          Paths,     \* all paths of this instance, closed under dirname
          Files,     \* identities of regular files (inodes)
          Dev,       \* device of each path: st_dev
          Ino,       \* inode number of the directory at each path: st_ino
          MaxLinks   \* symbolic links followed before ELOOP

Prefix(q, n) == SubSeq(q, 1, n)

\* dirname(3) of an absolute path: the root is its own parent.
Parent(q) == Prefix(q, Len(q) - 1)

ASSUME FileTreeAssumption ==
    /\ Paths \subseteq Seq(Names)
    /\ <<>> \in Paths
    /\ \A q \in Paths : Parent(q) \in Paths
    /\ Dev \in [Paths -> Nat]
    /\ Ino \in [Paths -> Nat]
    /\ MaxLinks \in Nat

None == [kind |-> "none"]
Dir(w) == [kind |-> "dir", w |-> w]          \* w: the owner may write in it
Reg(f) == [kind |-> "reg", file |-> f]
Link(q) == [kind |-> "lnk", to |-> q]        \* an absolute symbolic link

Node == {None} \cup {Dir(w) : w \in BOOLEAN} \cup {Reg(f) : f \in Files}
               \cup {Link(q) : q \in Paths}
Tree == [Paths -> Node]

At(t, q) == IF q \in Paths THEN t[q] ELSE None

-----------------------------------------------------------------------------
(* Path resolution *)

\* Lengths of the prefixes of q, not longer than last, that are links.
LinksOn(t, q, last) == {i \in 1..last : At(t, Prefix(q, i)).kind = "lnk"}

\* q with its first link replaced by the link's target.
Follow(t, q, last) ==
    IF LinksOn(t, q, last) = {} THEN q
    ELSE LET i == Min(LinksOn(t, q, last))
         IN  t[Prefix(q, i)].to \o SubSeq(q, i + 1, Len(q))

\* The canonical path of q; a link in last place is followed only if deref.
Canon(t, q, deref) ==
    LET last(r) == IF deref THEN Len(r) ELSE Len(r) - 1
        f[n \in 0..MaxLinks] ==
            IF n = 0 THEN q ELSE Follow(t, f[n - 1], last(f[n - 1]))
    IN  IF LinksOn(t, q, last(q)) = {} THEN q ELSE f[MaxLinks]

\* Why the canonical path c cannot be reached: its first prefix that is not
\* a directory decides.
PathErr(t, c) ==
    LET bad == {i \in 0..(Len(c) - 1) : At(t, Prefix(c, i)).kind # "dir"}
        kind == At(t, Prefix(c, Min(bad))).kind
    IN  IF bad = {} THEN "ok"
        ELSE CASE kind = "none" -> "ENOENT"
               [] kind = "reg"  -> "ENOTDIR"
               [] OTHER         -> "ELOOP"

\* The node stat (deref) or lstat finds at q, None if the call fails.
Lookup(t, q, deref) ==
    LET c == Canon(t, q, deref)
    IN  IF PathErr(t, c) = "ok" /\ ~(deref /\ At(t, c).kind = "lnk")
        THEN At(t, c) ELSE None

DevOf(t, q, deref) == Dev[Canon(t, q, deref)]
InoOf(t, q, deref) == Ino[Canon(t, q, deref)]

-----------------------------------------------------------------------------
(* Outcomes: "ok" or an errno, and the tree after success *)

IsMount(c) == c = <<>> \/ Dev[c] # Dev[Parent(c)]
Writable(t, c) == At(t, Parent(c)).kind = "dir" /\ At(t, Parent(c)).w
Below(c) == {q \in Paths : Len(q) > Len(c) /\ Prefix(q, Len(c)) = c}
IsEmptyDir(t, c) == \A q \in Below(c) : t[q].kind = "none"

MkdirErr(t, q) ==
    LET c == Canon(t, q, FALSE)
    IN  IF PathErr(t, c) # "ok"   THEN PathErr(t, c)
        ELSE IF At(t, c).kind # "none" THEN "EEXIST"
        ELSE IF ~Writable(t, c)        THEN "EACCES"
        ELSE IF c \notin Paths         THEN "ENAMETOOLONG"
        ELSE "ok"

UnlinkErr(t, q) ==
    LET c == Canon(t, q, FALSE)
    IN  IF PathErr(t, c) # "ok"   THEN PathErr(t, c)
        ELSE IF At(t, c).kind = "none" THEN "ENOENT"
        ELSE IF ~Writable(t, c)        THEN "EACCES"
        ELSE IF At(t, c).kind = "dir"  THEN "EISDIR"
        ELSE "ok"

RmdirErr(t, q) ==
    LET c == Canon(t, q, FALSE)
    IN  IF PathErr(t, c) # "ok"   THEN PathErr(t, c)
        ELSE IF At(t, c).kind = "none" THEN "ENOENT"
        ELSE IF ~Writable(t, c)        THEN "EACCES"
        ELSE IF At(t, c).kind # "dir"  THEN "ENOTDIR"
        ELSE IF IsMount(c)             THEN "EBUSY"
        ELSE IF ~IsEmptyDir(t, c)      THEN "ENOTEMPTY"
        ELSE "ok"

\* The code renames what it has seen not to be a directory; that a directory
\* has taken its place since is an error here (no instance gets there).
RenameErr(t, old, new) ==
    LET co == Canon(t, old, FALSE)
        cn == Canon(t, new, FALSE)
    IN  IF PathErr(t, co) # "ok"             THEN PathErr(t, co)
        ELSE IF PathErr(t, cn) # "ok"             THEN PathErr(t, cn)
        ELSE IF At(t, co).kind = "none"           THEN "ENOENT"
        ELSE IF Dev[Parent(co)] # Dev[Parent(cn)] THEN "EXDEV"
        ELSE IF ~Writable(t, co)                  THEN "EACCES"
        ELSE IF ~Writable(t, cn)                  THEN "EACCES"
        ELSE IF At(t, co).kind = "dir"            THEN "ENOTDIR"
        ELSE IF At(t, cn).kind = "dir"            THEN "EISDIR"
        ELSE IF cn \notin Paths                   THEN "ENAMETOOLONG"
        ELSE "ok"

Put(t, q, n) == [t EXCEPT ![Canon(t, q, FALSE)] = n]
Removed(t, q) == Put(t, q, None)
Chmoded(t, q, w) == [t EXCEPT ![Canon(t, q, TRUE)] = Dir(w)]

\* rename(2) of one name of a file onto another name of the same file, or
\* onto itself, succeeds and does nothing.
Renamed(t, old, new) ==
    LET co == Canon(t, old, FALSE)
        cn == Canon(t, new, FALSE)
        same == co = cn \/ (t[co].kind = "reg" /\ t[co] = t[cn])
    IN  IF same THEN t ELSE [t EXCEPT ![cn] = t[co], ![co] = None]
=============================================================================
