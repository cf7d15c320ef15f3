----------------------------- MODULE FileCalls -----------------------------
(***************************************************************************)
(* The libraries that wrap calls on paths: xdev.so refuses what lies on a  *)
(* network file system, pathrewrite.so changes a part of the path, and     *)
(* saveunlinkedinode.so writes a log of the inodes that unlinkat removes.  *)
(* The fopen of xdev.so and of saveunlinkedinode.so is pathrewrite.so's    *)
(* when that is loaded too.  One action per system call of the program's   *)
(* threads, while other processes mount, rename and replace.               *)
(*                                                                         *)
(* A path is a sequence of tokens, "/" or a part of a name: "/n2" is       *)
(* <<"/", "n", "2">>.  A symbolic link is the last component of a path.    *)
(***************************************************************************)
EXTENDS Integers, SequencesExt

CONSTANTS Openers, \* threads of the program
          Tokens,
          Dirs,    \* directories
          Names,   \* their entries
          MaxIno,  \* inode numbers
          Places,  \* paths that another process may rename a directory to
          Progs    \* environments of the program

NoPath == <<>>
NoThread == "none"
MountsFile == <<"/", "proc", "/", "mounts">>
LogFile == <<"/", "home", "/", ".unlinked_inodes">>

\* An entry is a link if its target is a path.
NoEntry == [ino |-> 0, to |-> NoPath]
Mounts == [at : Seq(Tokens), net : BOOLEAN]
Call == [op : {"lstat", "opendir", "openat", "open", "unlinkat"},
         dir : Dirs, path : Seq(Tokens) \ {NoPath}, rmdir : BOOLEAN]
Absolute == {p \in Seq(Tokens) : p # NoPath /\ Head(p) = "/"}

\* callers: threads that make calls; calls: which; cwd: the current directory;
\* at, entry: the file system; mounts: /proc/mounts, the last mounted last;
\* rewrite: pathrewrite.so is loaded; from, to: its variables; there: files
\* that fopen can open, besides; faults: system calls that may fail.
Prog == [callers : SUBSET Openers, calls : SUBSET Call, cwd : Dirs,
         at : Injection(Dirs, Absolute),
         entry : [Dirs -> [Names -> [ino : 0..MaxIno,
                                     to : Absolute \cup {NoPath}]]],
         mounts : Seq(Mounts), rewrite : BOOLEAN, from : Seq(Tokens),
         to : Seq(Tokens), there : SUBSET Seq(Tokens),
         others : SUBSET {"mount", "unmount", "rename", "replace"},
         faults : SUBSET {"readlink", "unlink", "fopen"}]

ASSUME FileCallsAssumption ==
    /\ "/" \in Tokens /\ MaxIno \in Nat /\ NoThread \notin Openers
    /\ Names \subseteq Seq(Tokens) /\ Places \subseteq Absolute
    /\ Progs \subseteq Prog

VARIABLES prog,   \* the environment, and the file system at the start
          at,     \* the path of each directory
          entry,  \* what each directory has
          mounts, \* the mounts
          work,   \* what each thread does
          log,    \* the line of the log that each thread's call has written
          unsaid  \* threads whose call has removed something and found
                  \* nothing to write

fileVars == <<prog, at, entry, mounts, work, log, unsaid>>

Removed == <<"gone">> \* the path of a directory that is no more
NoLine == [ino |-> 0, path |-> NoPath]
NoCall == [op |-> "none", dir |-> CHOOSE d \in Dirs : TRUE, path |-> NoPath,
           rmdir |-> FALSE]
Rest == [call |-> NoCall, next |-> "idle", real |-> NoPath, ino |-> 0,
         atdir |-> NoPath, was |-> NoEntry, stale |-> FALSE]

FilesInit ==
    /\ prog \in Progs
    /\ at = prog.at /\ entry = prog.entry /\ mounts = prog.mounts
    /\ work = [t \in Openers |-> Rest]
    /\ log = [t \in Openers |-> NoLine] /\ unsaid = {}

-----------------------------------------------------------------------------
(* The file system *)

Slash(p, q) == p \o <<"/">> \o q
From(dir, p) == IF Head(p) = "/" THEN p ELSE Slash(at[dir], p)

EntryAt(p) ==
    LET here == {dn \in Dirs \X Names : Slash(at[dn[1]], dn[2]) = p}
    IN  IF here = {} THEN NoEntry
        ELSE LET dn == CHOOSE dn \in here : TRUE IN entry[dn[1]][dn[2]]
Exists(p) == (\E d \in Dirs : at[d] = p) \/ EntryAt(p) # NoEntry

\* Where a path leads when its link is followed; nowhere if it is broken.
Real(p) ==
    LET q == IF EntryAt(p).to = NoPath THEN p ELSE EntryAt(p).to
    IN  IF Exists(q) THEN q ELSE NoPath

\* A path at a mount point, or below it, and not below a later one.
Below(p, m) == m = <<"/">> \/ p = m \/ IsPrefix(Slash(m, <<>>), p)
OnNetwork(p) ==
    LET ms == {i \in DOMAIN mounts : Below(p, mounts[i].at)}
    IN  ms # {} /\ mounts[CHOOSE i \in ms : \A j \in ms : j <= i].net

\* What the call is about: lstat does not follow a link.
Target(c) ==
    LET p == From(c.dir, c.path)
    IN  IF c.op = "lstat" \/ Real(p) = NoPath THEN p ELSE Real(p)

-----------------------------------------------------------------------------
(* pathrewrite *)

\* The first occurrence of PATHREWRITE_FROM is replaced, wherever it begins.
Rewritten(p) ==
    LET n == Len(prog.from)
        found == {i \in 1..(Len(p) + 1 - n) :
                     SubSeq(p, i, i + n - 1) = prog.from}
        i == CHOOSE i \in found : \A j \in found : i <= j
    IN  IF ~ prog.rewrite \/ found = {} THEN p
        ELSE SubSeq(p, 1, i - 1) \o prog.to \o SubSeq(p, i + n, Len(p))

\* fopen of a library.
Opens(p) == Rewritten(p) \in {MountsFile} \cup prog.there

-----------------------------------------------------------------------------
(* The program's calls *)

Goes(t, next) == work' = [work EXCEPT ![t].next = next]

CallBegins(t) ==
    /\ work[t].next = "idle" /\ t \in prog.callers
    /\ \E c \in prog.calls :
          work' = [work EXCEPT ![t] =
             [Rest EXCEPT !.call = c,
                          !.next = CASE c.op = "open" -> "open"
                                     [] c.op = "unlinkat" -> "fstatat"
                                     [] OTHER -> "mounts"]]
    /\ UNCHANGED <<prog, at, entry, mounts, log, unsaid>>

\* open, open64, __open_2, fopen, __xstat and __lxstat of pathrewrite.so.
RealOpen(t) ==
    /\ work[t].next = "open"
    /\ work' = [work EXCEPT ![t].next = "returned",
                            ![t].real = Rewritten(work[t].call.path)]
    /\ UNCHANGED <<prog, at, entry, mounts, log, unsaid>>

CallEnds(t) ==
    /\ work[t].next = "returned"
    /\ work' = [work EXCEPT ![t] = Rest]
    /\ log' = [log EXCEPT ![t] = NoLine] /\ unsaid' = unsaid \ {t}
    /\ UNCHANGED <<prog, at, entry, mounts>>

-----------------------------------------------------------------------------
(* xdev_allow *)

\* Without /proc/mounts the program ends.
OpenMounts(t) ==
    /\ work[t].next = "mounts"
    /\ IF Opens(MountsFile) THEN Goes(t, "realpath") /\ UNCHANGED <<log, unsaid>>
       ELSE /\ work' = [u \in Openers |-> [Rest EXCEPT !.next = "exited"]]
            /\ log' = [u \in Openers |-> NoLine] /\ unsaid' = {}
    /\ UNCHANGED <<prog, at, entry, mounts>>

\* realpath takes a path to begin at the current directory.
Realpath(t) ==
    /\ work[t].next = "realpath"
    /\ LET q == Real(From(prog.cwd, work[t].call.path))
       IN  work' = [work EXCEPT
                 ![t].real = q,
                 ![t].next = IF q = NoPath THEN "call" ELSE "decide"]
    /\ UNCHANGED <<prog, at, entry, mounts, log, unsaid>>

\* Slip: only the last line that matches counts.
DeniesLast(p, ms) ==
    \E i \in DOMAIN ms : /\ IsPrefix(ms[i].at, p) /\ ms[i].net /\ i = Len(ms)

\* Some line with a network device has a mount point that the path begins with.
Denies(p, ms) == \E i \in DOMAIN ms : IsPrefix(ms[i].at, p) /\ ms[i].net

\* A file that PATHREWRITE_TO puts in the place of /proc/mounts has no line.
Decide(t) ==
    /\ work[t].next = "decide"
    /\ LET ms == IF Rewritten(MountsFile) = MountsFile THEN mounts ELSE <<>>
       IN  Goes(t, IF Denies(work[t].real, ms) THEN "returned" ELSE "call")
    /\ UNCHANGED <<prog, at, entry, mounts, log, unsaid>>

\* __lxstat64, opendir and __openat_2 of the next library, which get the path
\* as it was.
RealCall(t) ==
    /\ work[t].next = "call" /\ Goes(t, "returned")
    /\ UNCHANGED <<prog, at, entry, mounts, log, unsaid>>

-----------------------------------------------------------------------------
(* unlinkat of saveunlinkedinode.so *)

\* The flags are those of unlinkat: fstatat follows a link, and refuses
\* AT_REMOVEDIR.
Fstatat(t) ==
    /\ work[t].next = "fstatat"
    /\ LET c == work[t].call
           q == Real(From(c.dir, c.path))
       IN  work' = [work EXCEPT
              ![t].ino = IF q = NoPath \/ c.rmdir THEN 0 ELSE EntryAt(q).ino,
              ![t].next = IF q = NoPath \/ c.rmdir THEN "unlink" ELSE "atdir"]
    /\ UNCHANGED <<prog, at, entry, mounts, log, unsaid>>

\* getcwd, or readlink of the directory's descriptor.
AtDir(t) ==
    /\ work[t].next = "atdir"
    /\ \/ work' = [work EXCEPT ![t].atdir = at[work[t].call.dir],
                               ![t].next = "unlink"]
       \/ "readlink" \in prog.faults /\ Goes(t, "unlink")
    /\ UNCHANGED <<prog, at, entry, mounts, log, unsaid>>

\* Somebody has changed what the other threads are looking at.
Disturbs(ws, t) ==
    [u \in Openers |->
        IF u = t \/ ws[u].next \in {"idle", "returned"} THEN ws[u]
        ELSE [ws[u] EXCEPT !.stale = TRUE]]

Removes(c, p) ==
    IF c.rmdir
    THEN \E d \in Dirs : at[d] = p /\ \A n \in Names : entry[d][n] = NoEntry
    ELSE EntryAt(p) # NoEntry

\* Slip: what was found goes into the log, whether unlinkat succeeds or not.
SaysAnyResult(t, removes) == work[t].atdir # NoPath

\* Slip: nobody asks whether the directory is known.
SaysAnyDir(t, removes) == removes

\* There is a line to be written.
Says(t, removes) == removes /\ work[t].atdir # NoPath

\* The real unlinkat, and whether there is something for the log.
Unlink(t) ==
    /\ work[t].next = "unlink"
    /\ LET c == work[t].call
           p == From(c.dir, c.path)
           may == IF "unlink" \in prog.faults THEN {FALSE} ELSE {}
       IN  \E removes \in {Removes(c, p)} \cup may :
           /\ at' = [d \in Dirs |-> IF removes /\ c.rmdir /\ at[d] = p
                                    THEN Removed ELSE at[d]]
           /\ entry' = [d \in Dirs |-> [n \in Names |->
                 IF removes /\ ~ c.rmdir /\ Slash(at[d], n) = p THEN NoEntry
                 ELSE entry[d][n]]]
           /\ work' = Disturbs([work EXCEPT
                 ![t].next = IF Says(t, removes) THEN "log" ELSE "returned",
                 ![t].real = p,
                 ![t].was = IF removes THEN EntryAt(p) ELSE NoEntry], t)
           /\ unsaid' = IF removes /\ ~ Says(t, removes)
                        THEN unsaid \cup {t} ELSE unsaid
    /\ UNCHANGED <<prog, mounts, log>>

\* A line with the inode found and the name given, below the directory found.
WriteLog(t) ==
    /\ work[t].next = "log"
    /\ \/ /\ Opens(LogFile)
          /\ log' = [log EXCEPT ![t] =
                [ino |-> work[t].ino,
                 path |-> Slash(work[t].atdir, work[t].call.path)]]
       \/ (Opens(LogFile) => "fopen" \in prog.faults) /\ UNCHANGED log
    /\ Goes(t, "returned")
    /\ UNCHANGED <<prog, at, entry, mounts, unsaid>>

-----------------------------------------------------------------------------
(* Other processes *)

Others(op) == op \in prog.others /\ work' = Disturbs(work, NoThread)

Mount ==
    /\ Others("mount") /\ Len(mounts) <= Len(prog.mounts)
    /\ \E d \in Dirs, net \in BOOLEAN :
          /\ at[d] # Removed
          /\ mounts' = Append(mounts, [at |-> at[d], net |-> net])
    /\ UNCHANGED <<prog, at, entry, log, unsaid>>

Unmount ==
    /\ Others("unmount") /\ Len(mounts) > 1
    /\ mounts' = Front(mounts)
    /\ UNCHANGED <<prog, at, entry, log, unsaid>>

Rename ==
    /\ Others("rename")
    /\ \E d \in Dirs, p \in Places :
          /\ ~ Exists(p) /\ at[d] # Removed
          /\ \A i \in DOMAIN mounts : ~ Below(mounts[i].at, at[d])
          /\ at' = [at EXCEPT ![d] = p]
    /\ UNCHANGED <<prog, entry, mounts, log, unsaid>>

\* A new file, under a name that is free or not.
Replace ==
    /\ Others("replace")
    /\ \E d \in Dirs, n \in Names, i \in 1..MaxIno :
          /\ at[d] # Removed
          /\ \A e \in Dirs, m \in Names : entry[e][m].ino # i
          /\ entry' = [entry EXCEPT ![d][n] = [ino |-> i, to |-> NoPath]]
    /\ UNCHANGED <<prog, at, mounts, log, unsaid>>

FilesNext ==
    \/ \E t \in Openers :
          \/ CallBegins(t) \/ RealOpen(t) \/ CallEnds(t)
          \/ OpenMounts(t) \/ Realpath(t) \/ Decide(t) \/ RealCall(t)
          \/ Fstatat(t) \/ AtDir(t) \/ Unlink(t) \/ WriteLog(t)
    \/ Mount \/ Unmount \/ Rename \/ Replace

-----------------------------------------------------------------------------
(* Properties *)

FilesTypeOK ==
    /\ prog \in Progs
    /\ \A d \in Dirs, n \in Names : entry[d][n].ino \in 0..MaxIno
    /\ \A t \in Openers :
          /\ work[t].next \in {"idle", "open", "mounts", "realpath", "decide",
                               "call", "fstatat", "atdir", "unlink", "log",
                               "returned", "exited"}
          /\ work[t].call \in prog.calls \cup {NoCall}
          /\ work[t].next = "log" => work[t].atdir # NoPath

\* xdev.so lets no call through that goes to a network file system, unless
\* something has changed since it began, the path is relative to a directory
\* that is not the current one, realpath fails, lstat is about a link, or
\* pathrewrite.so has another file read for /proc/mounts.
NetworkRefused ==
    \A t \in Openers :
        LET c == work[t].call IN
        work[t].next = "call" /\ OnNetwork(Target(c)) =>
            \/ work[t].stale
            \/ c.dir # prog.cwd /\ Head(c.path) # "/"
            \/ work[t].real = NoPath
            \/ c.op = "lstat" /\ EntryAt(From(c.dir, c.path)).to # NoPath
            \/ Rewritten(MountsFile) # MountsFile

\* What the log says was removed: the inode, and under a relative name its
\* path, unless it is a link or somebody changed something during the call;
\* and a removal goes without a line only if it is that of a directory, of a
\* broken link, or a system call has failed.
LogTellsRemoved ==
    \A t \in Openers :
        LET w == work[t]
            excused == w.stale \/ w.was.to # NoPath
        IN  /\ log[t] # NoLine => excused \/
                  /\ log[t].ino = w.was.ino /\ w.was # NoEntry
                  /\ Head(w.call.path) = "/" \/ log[t].path = w.real
            /\ t \in unsaid =>
                  excused \/ w.call.rmdir \/ "readlink" \in prog.faults
=============================================================================
