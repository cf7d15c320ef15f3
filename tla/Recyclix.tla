------------------------------ MODULE Recyclix ------------------------------
(***************************************************************************)
(* recyclix.so: the unlinkat and unlink wrappers of src/src/recyclix.c,    *)
(* one action per system call.  Calls of several processes interleave      *)
(* between system calls; the user's own file operations, which the library *)
(* does not intercept, run between calls or, if Concurrent, during them.   *)
(***************************************************************************)
EXTENDS Recyclers

CONSTANTS Procs,       \* processes (or threads) that delete files
          Recyclers,   \* possible values of RECYCLER; <<>>: not set
          InitTree,    \* the file tree at start
          CallPaths,   \* what is deleted
          CallModes,   \* named by absolute path, from the working directory,
                       \* or from an open directory
          AtFaults,    \* of getcwd, readlink, realpath: those that may fail
          Umasks,      \* may a umask take the owner's write permission away
          UserOps,     \* operations of the user
          UserPaths,   \* where the user creates, replaces and changes modes
          LinkPaths,   \* where the user makes links
          LinkTargets, \* targets of new symbolic links
          Concurrent   \* the user acts while calls are in progress

ASSUME RecyclixAssumption ==
    /\ InitTree \in Tree
    /\ <<>> \notin CallPaths
    /\ CallPaths \subseteq Seq(Names)
    /\ CallModes \subseteq Modes
    /\ AtFaults \subseteq {"getcwd", "readlink", "realpath"}
    /\ UserPaths \cup LinkPaths \cup LinkTargets \subseteq Paths
    /\ Umasks \subseteq BOOLEAN /\ Umasks # {}
    /\ Concurrent \in BOOLEAN
    /\ Recyclers \subseteq Seq(BinEntry)

VARIABLES recycler,  \* RECYCLER in the environment
          tree,      \* the file tree
          born,      \* regular files that exist or have existed
          pc,        \* the next system call of each process, or how its
                     \* last unlinkat call returned
          call       \* the local variables of each call

vars == <<recycler, tree, born, pc, call>>

\* How a call ended: zero, -1, or the positive count readlink left in retval.
Returned == {"idle", "zero", "failed", "positive"}

\* The system calls of recyclix_clonepath_recursive.
Cloning == {"donor", "mkdir", "rmparent", "statdst", "chmoddst", "rmdst"}

InCall == {"fstatat", "choose", "resolve", "walk", "rename", "real"}
            \cup Cloning

\* path, mode, rmdir: the arguments; st, dev: st1; bin: the entry at hand;
\* ino: recycler_inode; fq: fqpath; mp: the length of mp_path;
\* modes: donor_st.st_mode of each active recyclix_clonepath_recursive.
Blank == [path |-> <<>>, mode |-> "abs", rmdir |-> FALSE, st |-> None,
          dev |-> 0, bin |-> 1, ino |-> 0, fq |-> <<>>, mp |-> 0,
          modes |-> <<>>]

Init == /\ recycler \in Recyclers
        /\ tree = InitTree
        /\ born = {f \in Files : \E q \in Paths : InitTree[q] = Reg(f)}
        /\ pc = [p \in Procs |-> "idle"]
        /\ call = [p \in Procs |-> Blank]

-----------------------------------------------------------------------------
(* Helpers *)

Goto(p, label) == pc' = [pc EXCEPT ![p] = label]
Return(p, result) == Goto(p, result) /\ call' = [call EXCEPT ![p] = Blank]

Bin(l) == recycler[l.bin]
Arg(l) == <<l.path, l.mode>>

\* The path below the mount point, kept below the bin.
Recycled(l) == Bin(l).dir \o SubSeq(l.fq, l.mp + 1, Len(l.fq))

\* What is cloned, from what: a directory itself, else the parent.
CloneTarget(l) == IF l.st.kind = "dir" THEN Recycled(l) ELSE Parent(Recycled(l))
CloneDonor(l) == IF l.st.kind = "dir" THEN l.fq ELSE Parent(l.fq)

\* p_path and p_donor at the given depth of recursion.
Cut(q, n) == Prefix(q, Len(q) - n)
PathAt(l, depth) == Cut(CloneTarget(l), depth)
DonorAt(l, depth) == Cut(CloneDonor(l), depth)

ModeOf(n) == IF n.kind = "dir" THEN n.w ELSE TRUE

\* The p_path of the innermost active call.
Current(l) == PathAt(l, Len(l.modes) - 1)

\* Slip: the outermost call is taken for a nested one.
CloneDonePops(p) ==
    IF Len(call[p].modes) >= 1
    THEN Goto(p, "mkdir") /\ call' = [call EXCEPT ![p].modes = Front(@)]
    ELSE Goto(p, "rename") /\ UNCHANGED call

\* Slip: S_ISDIR is forgotten, everything is really removed in the end.
CloneDoneRemoves(p) ==
    /\ call' = [call EXCEPT ![p].modes = Front(@)]
    /\ Goto(p, IF Len(call[p].modes) > 1 THEN "mkdir" ELSE "real")

\* The innermost recyclix_clonepath_recursive succeeded.  Its caller tries
\* mkdir again; the outermost one was unlinkat, which drops a file to the
\* bin and really removes a directory.
CloneDone(p) ==
    IF Len(call[p].modes) > 1
    THEN Goto(p, "mkdir") /\ call' = [call EXCEPT ![p].modes = Front(@)]
    ELSE /\ Goto(p, IF call[p].st.kind = "dir" THEN "real" ELSE "rename")
         /\ call' = [call EXCEPT ![p].modes = <<>>]

-----------------------------------------------------------------------------
(* unlinkat: choosing a bin *)

\* The caller enters unlinkat (or unlink: mode "abs" or "cwd", no flags).
Call(p) ==
    /\ pc[p] \in Returned
    /\ \E q \in CallPaths, m \in CallModes, d \in BOOLEAN :
            call' = [call EXCEPT ![p] =
                        [Blank EXCEPT !.path = q, !.mode = m, !.rmdir = d]]
    /\ Goto(p, IF recycler = <<>> THEN "real" ELSE "fstatat")
    /\ UNCHANGED <<recycler, tree, born>>

Fstatat(p) ==
    /\ pc[p] = "fstatat"
    /\ LET q == call[p].path
           n == Lookup(tree, q, FALSE)
       IN  IF n = None THEN Return(p, "failed")
           ELSE /\ call' = [call EXCEPT ![p].st = n,
                                        ![p].dev = DevOf(tree, q, FALSE)]
                /\ Goto(p, "choose")
    /\ UNCHANGED <<recycler, tree, born>>

\* The bin exists, is on the file's device and its options accept the file.
Accepts(l) ==
    LET o == Options(Bin(l), Arg(l))
    IN  /\ Lookup(tree, Bin(l).dir, TRUE) # None
        /\ DevOf(tree, Bin(l).dir, TRUE) = l.dev
        /\ ~(l.st.kind = "reg" /\ OutOfLimits(o, Size[l.st.file]))
        /\ ~o.excluded

\* Slip: a bad option makes the library try the next entry.
BadOptionSkips(p) ==
    /\ pc[p] = "choose"
    /\ Bin(call[p]).set /\ Options(Bin(call[p]), Arg(call[p])).bad
    /\ IF call[p].bin = Len(recycler)
       THEN Goto(p, "real") /\ UNCHANGED call
       ELSE call' = [call EXCEPT ![p].bin = @ + 1] /\ UNCHANGED pc
    /\ UNCHANGED <<recycler, tree, born>>

\* One turn of the loop over the entries of RECYCLER.
BadOption(p) ==
    /\ pc[p] = "choose"
    /\ Bin(call[p]).set /\ Options(Bin(call[p]), Arg(call[p])).bad
    /\ Return(p, "failed")
    /\ UNCHANGED <<recycler, tree, born>>

TakeBin(p) ==
    /\ pc[p] = "choose"
    /\ Bin(call[p]).set /\ ~Options(Bin(call[p]), Arg(call[p])).bad
    /\ Accepts(call[p])
    /\ call' = [call EXCEPT ![p].ino = InoOf(tree, Bin(call[p]).dir, TRUE)]
    /\ Goto(p, "resolve")
    /\ UNCHANGED <<recycler, tree, born>>

SkipBin(p) ==
    /\ pc[p] = "choose"
    /\ Bin(call[p]).set => /\ ~Options(Bin(call[p]), Arg(call[p])).bad
                           /\ ~Accepts(call[p])
    /\ IF call[p].bin = Len(recycler)
       THEN Goto(p, "real") /\ UNCHANGED call
       ELSE call' = [call EXCEPT ![p].bin = @ + 1] /\ UNCHANGED pc
    /\ UNCHANGED <<recycler, tree, born>>

-----------------------------------------------------------------------------
(* unlinkat: the path relative to the mount point *)

\* getcwd or readlink fails; "-1" is returned.
AtDirFails(p) ==
    /\ pc[p] = "resolve"
    /\ \/ call[p].mode = "cwd" /\ "getcwd" \in AtFaults
       \/ call[p].mode = "fd" /\ "readlink" \in AtFaults
    /\ Return(p, "failed")
    /\ UNCHANGED <<recycler, tree, born>>

\* realpath of the parent directory fails: the loop is left with retval as
\* the last call set it, 0 from stat or the positive count from readlink.
\* Besides a parent gone meanwhile there is the parent of a relative name
\* below a directory the caller may not search ("realpath" in AtFaults).
RealpathFails(p) ==
    /\ pc[p] = "resolve"
    /\ \/ Lookup(tree, Parent(call[p].path), TRUE) = None
       \/ call[p].mode # "abs" /\ "realpath" \in AtFaults
    /\ Return(p, IF call[p].mode = "fd" THEN "positive" ELSE "zero")
    /\ UNCHANGED <<recycler, tree, born>>

Resolve(p) ==
    /\ pc[p] = "resolve"
    /\ LET q == call[p].path
           fq == Append(Canon(tree, Parent(q), TRUE), Last(q))
       IN  /\ Lookup(tree, Parent(q), TRUE) # None
           /\ call' = [call EXCEPT ![p].fq = fq, ![p].mp = Len(fq)]
    /\ Goto(p, "walk")
    /\ UNCHANGED <<recycler, tree, born>>

\* Slip: the walk does not look for the bin on its way.
WalkUpPastBin(p) ==
    /\ pc[p] = "walk"
    /\ LET l == call[p]
           up == Prefix(l.fq, l.mp - 1)
       IN  CASE Lookup(tree, up, TRUE) = None -> Return(p, "failed")
             [] /\ Lookup(tree, up, TRUE) # None
                /\ l.mp = 0 \/ DevOf(tree, up, TRUE) # l.dev ->
                    Goto(p, "donor") /\ UNCHANGED call
             [] OTHER ->
                    call' = [call EXCEPT ![p].mp = @ - 1] /\ UNCHANGED pc
    /\ UNCHANGED <<recycler, tree, born>>

\* One turn of the search for the root of the file system, upwards.
WalkUp(p) ==
    /\ pc[p] = "walk"
    /\ LET l == call[p]
           up == Prefix(l.fq, l.mp - 1)
       IN  CASE Lookup(tree, up, TRUE) = None -> Return(p, "failed")
             [] /\ Lookup(tree, up, TRUE) # None
                /\ InoOf(tree, up, TRUE) = l.ino ->
                    Goto(p, "real") /\ UNCHANGED call
             [] /\ Lookup(tree, up, TRUE) # None
                /\ InoOf(tree, up, TRUE) # l.ino
                /\ l.mp = 0 \/ DevOf(tree, up, TRUE) # l.dev ->
                    Goto(p, "donor") /\ UNCHANGED call
             [] OTHER ->
                    call' = [call EXCEPT ![p].mp = @ - 1] /\ UNCHANGED pc
    /\ UNCHANGED <<recycler, tree, born>>

-----------------------------------------------------------------------------
(* recyclix_clonepath_recursive: the directories of the path, in the bin *)

\* Entry: stat of the donor.  Any failure below makes every caller fail.
DonorStat(p) ==
    /\ pc[p] = "donor"
    /\ LET n == Lookup(tree, DonorAt(call[p], Len(call[p].modes)), TRUE)
       IN  IF n = None THEN Return(p, "failed")
           ELSE /\ call' = [call EXCEPT ![p].modes =
                                Append(@, ModeOf(n))]
                /\ Goto(p, "mkdir")
    /\ UNCHANGED <<recycler, tree, born>>

\* What mkdir leaves of a mode under the umask of the process.
Masked(w, mask) == w /\ ~mask

\* A directory made here is not changed any more: the umask tells its mode.
Mkdir(p) ==
    /\ pc[p] = "mkdir"
    /\ LET l == call[p]
           e == MkdirErr(tree, Current(l))
       IN  CASE e = "ok" ->
                    /\ \E mask \in Umasks :
                            tree' = Put(tree, Current(l),
                                        Dir(Masked(Last(l.modes), mask)))
                    /\ CloneDone(p)
             [] e \in {"ENOENT", "ENOTDIR"} ->
                    Goto(p, "rmparent") /\ UNCHANGED <<tree, call>>
             [] e = "EEXIST" ->
                    Goto(p, "statdst") /\ UNCHANGED <<tree, call>>
             [] OTHER -> Return(p, "failed") /\ UNCHANGED tree
    /\ UNCHANGED <<recycler, born>>

\* Slip: whatever unlink says, mkdir is tried again.
RmParentRetries(p) ==
    /\ pc[p] = "rmparent"
    /\ LET parent == Parent(Current(call[p]))
       IN  tree' = IF UnlinkErr(tree, parent) = "ok"
                   THEN Removed(tree, parent) ELSE tree
    /\ Goto(p, "mkdir")
    /\ UNCHANGED <<recycler, born, call>>

\* A file in the way of the parent is unlinked; a missing parent is cloned.
RmParent(p) ==
    /\ pc[p] = "rmparent"
    /\ LET parent == Parent(Current(call[p]))
           e == UnlinkErr(tree, parent)
       IN  CASE e = "ok" -> /\ tree' = Removed(tree, parent)
                            /\ Goto(p, "mkdir") /\ UNCHANGED call
             [] e = "ENOENT" -> Goto(p, "donor") /\ UNCHANGED <<tree, call>>
             [] OTHER -> Return(p, "failed") /\ UNCHANGED tree
    /\ UNCHANGED <<recycler, born>>

\* The path is there already: is it a directory?
StatDst(p) ==
    /\ pc[p] = "statdst"
    /\ LET n == Lookup(tree, Current(call[p]), TRUE)
       IN  CASE n.kind = "none" -> Return(p, "failed")
             [] n.kind = "dir" -> Goto(p, "chmoddst") /\ UNCHANGED call
             [] OTHER -> Goto(p, "rmdst") /\ UNCHANGED call
    /\ UNCHANGED <<recycler, tree, born>>

\* Slip: a directory that is there keeps its mode.
ChmodDstKeepsMode(p) ==
    /\ pc[p] = "chmoddst"
    /\ CloneDone(p)
    /\ UNCHANGED <<recycler, tree, born>>

\* It was one: it gets the donor's mode.  Whether chmod fails, as it does when
\* the directory has gone since, is not looked at.
ChmodDst(p) ==
    /\ pc[p] = "chmoddst"
    /\ LET q == Current(call[p])
       IN  tree' = IF Lookup(tree, q, TRUE).kind = "dir"
                   THEN Chmoded(tree, q, Last(call[p].modes)) ELSE tree
    /\ CloneDone(p)
    /\ UNCHANGED <<recycler, born>>

RmDst(p) ==
    /\ pc[p] = "rmdst"
    /\ LET q == Current(call[p])
       IN  IF UnlinkErr(tree, q) = "ok"
           THEN tree' = Removed(tree, q) /\ Goto(p, "mkdir") /\ UNCHANGED call
           ELSE Return(p, "failed") /\ UNCHANGED tree
    /\ UNCHANGED <<recycler, born>>

-----------------------------------------------------------------------------
(* unlinkat: the end *)

RenameOk(l) == Bin(l).abs /\ RenameErr(tree, l.path, Recycled(l)) = "ok"

\* Slip: the result of renameat is not looked at.
RenameIgnoresResult(p) ==
    /\ pc[p] = "rename"
    /\ tree' = IF RenameOk(call[p])
               THEN Renamed(tree, call[p].path, Recycled(call[p])) ELSE tree
    /\ Return(p, "zero")
    /\ UNCHANGED <<recycler, born>>

\* Slip: a file that cannot be dropped to the bin is removed instead.
RenameOrRemove(p) ==
    /\ pc[p] = "rename"
    /\ IF RenameOk(call[p])
       THEN /\ tree' = Renamed(tree, call[p].path, Recycled(call[p]))
            /\ Return(p, "zero")
       ELSE Goto(p, "real") /\ UNCHANGED <<tree, call>>
    /\ UNCHANGED <<recycler, born>>

\* Slip: it is removed instead, and the failure is still reported.
RenameFailsAndRemoves(p) ==
    /\ pc[p] = "rename"
    /\ LET l == call[p]
       IN  IF RenameOk(l) THEN /\ tree' = Renamed(tree, l.path, Recycled(l))
                               /\ Return(p, "zero")
           ELSE /\ tree' = IF UnlinkErr(tree, l.path) = "ok"
                           THEN Removed(tree, l.path) ELSE tree
                /\ Return(p, "failed")
    /\ UNCHANGED <<recycler, born>>

\* Slip: a directory in the place of the file is emptied first.
RenameClears(p) ==
    /\ pc[p] = "rename"
    /\ LET l == call[p]
           cleared == [q \in Paths |-> IF UnderDir(Recycled(l), q) THEN None
                                       ELSE tree[q]]
       IN  IF RenameOk(l) THEN /\ tree' = Renamed(tree, l.path, Recycled(l))
                               /\ Return(p, "zero")
           ELSE tree' = cleared /\ Return(p, "failed")
    /\ UNCHANGED <<recycler, born>>

\* renameat(dirfd, pathname, 0, recycled): a relative recycled would have to
\* be below the directory open as file descriptor 0.
Rename(p) ==
    /\ pc[p] = "rename"
    /\ IF RenameOk(call[p])
       THEN /\ tree' = Renamed(tree, call[p].path, Recycled(call[p]))
            /\ Return(p, "zero")
       ELSE Return(p, "failed") /\ UNCHANGED tree
    /\ UNCHANGED <<recycler, born>>

RealUnlink(p) ==
    /\ pc[p] = "real"
    /\ LET l == call[p]
           e == IF l.rmdir THEN RmdirErr(tree, l.path)
                ELSE UnlinkErr(tree, l.path)
       IN  IF e = "ok"
           THEN tree' = Removed(tree, l.path) /\ Return(p, "zero")
           ELSE Return(p, "failed") /\ UNCHANGED tree
    /\ UNCHANGED <<recycler, born>>

Step(p) ==
    \/ Fstatat(p)
    \/ BadOption(p)
    \/ TakeBin(p)
    \/ SkipBin(p)
    \/ AtDirFails(p)
    \/ RealpathFails(p)
    \/ Resolve(p)
    \/ WalkUp(p)
    \/ DonorStat(p)
    \/ Mkdir(p)
    \/ RmParent(p)
    \/ StatDst(p)
    \/ ChmodDst(p)
    \/ RmDst(p)
    \/ Rename(p)
    \/ RealUnlink(p)

-----------------------------------------------------------------------------
(* The user, whose own operations the library does not intercept *)

Idle(p) == pc[p] \in Returned
UserMay(op) == op \in UserOps /\ (Concurrent \/ \A p \in Procs : Idle(p))

Free(q) == At(tree, q).kind = "none" /\ Writable(tree, q)

UserPut(q, n) == /\ tree' = [tree EXCEPT ![q] = n]
                 /\ UNCHANGED <<recycler, pc, call>>

\* A new file at a free name, or renamed over another one as editors do.
Create == /\ UserMay("create")
          /\ \E f \in Files \ born, q \in UserPaths :
                /\ \/ Free(q)
                   \/ "replace" \in UserOps /\ tree[q].kind = "reg"
                /\ UserPut(q, Reg(f))
                /\ born' = born \cup {f}

MakeDir == /\ UserMay("mkdir")
           /\ \E q \in UserPaths : Free(q) /\ UserPut(q, Dir(TRUE))
           /\ UNCHANGED born

Symlink == /\ UserMay("symlink")
           /\ \E q \in LinkPaths, to \in LinkTargets :
                    Free(q) /\ UserPut(q, Link(to))
           /\ UNCHANGED born

InBin(q) == \E i \in DOMAIN recycler : UnderDir(recycler[i].dir, q)

\* A hard link; restoring a file from the bin by linking it back.
HardLink == /\ UserMay("link")
            /\ \E q \in LinkPaths, old \in Paths :
                    /\ InBin(old) /\ tree[old].kind = "reg"
                    /\ Free(q) /\ UserPut(q, tree[old])
            /\ UNCHANGED born

Chmod == /\ UserMay("chmod")
         /\ \E q \in UserPaths :
                /\ tree[q].kind = "dir"
                /\ UserPut(q, Dir(~tree[q].w))
         /\ UNCHANGED born

\* Part of a bin is emptied, by a cron job for instance.
Empty == /\ UserMay("empty")
         /\ \E q \in Paths :
                /\ InBin(q) /\ tree[q].kind # "none" /\ IsEmptyDir(tree, q)
                /\ UserPut(q, None)
         /\ UNCHANGED born

User == Create \/ MakeDir \/ Symlink \/ HardLink \/ Chmod \/ Empty

Next == User \/ \E p \in Procs : Call(p) \/ Step(p)

\* A call that has begun goes on: it never waits for anything.  Nothing makes
\* the user or the callers begin another one.
Fairness == \A p \in Procs : WF_vars(Step(p))

Spec == Init /\ [][Next]_vars /\ Fairness

-----------------------------------------------------------------------------
(* Properties *)

Calls == [path : CallPaths \cup {<<>>}, mode : Modes,
          rmdir : BOOLEAN, st : Node, dev : Nat, bin : Nat, ino : Nat,
          fq : Seq(Names), mp : Nat, modes : Seq(BOOLEAN)]

TypeOK ==
    /\ recycler \in Recyclers
    /\ tree \in Tree
    /\ born \subseteq Files
    /\ pc \in [Procs -> InCall \cup Returned]
    /\ call \in [Procs -> Calls]
    /\ \A p \in Procs : pc[p] \in InCall => call[p].path \in CallPaths
    /\ \A p \in Procs : pc[p] \in InCall /\ recycler # <<>> =>
                            call[p].bin \in DOMAIN recycler
    /\ \A p \in Procs :
            pc[p] \in {"mkdir", "rmparent", "statdst", "chmoddst", "rmdst"} =>
                call[p].modes # <<>>

Malformed(i, l) == recycler[i].set /\ Options(recycler[i], Arg(l)).bad

\* An entry with a bad option cancels every deletion that gets to it: when a
\* call is about to move or remove something, no entry up to the one it has
\* settled on is malformed, and that one admits the file as it was seen.
MalformedEntryCancels ==
    \A p \in Procs :
        LET l == call[p]
        IN  /\ pc[p] \in {"rename", "real"} =>
                    \A i \in DOMAIN recycler : i <= l.bin => ~Malformed(i, l)
            /\ pc[p] = "rename" =>
                    /\ ~Options(Bin(l), Arg(l)).excluded
                    /\ l.st.kind = "reg" =>
                            ~OutOfLimits(Options(Bin(l), Arg(l)), Size[l.st.file])

\* When the path of the file in the bin is settled it is the path below the
\* mount point, and the file is not in that bin already.
WalkFindsMount ==
    \A p \in Procs :
        LET l == call[p]
        IN  pc[p] \in Cloning \cup {"rename"} =>
                /\ l.mp = MountLen(l.fq)
                /\ ~UnderDir(Bin(l).dir, l.fq)

\* Process p makes a step of its call.
Stepped(p) ==
    /\ pc[p] \in InCall
    /\ pc'[p] # pc[p] \/ call'[p] # call[p]

\* unlinkat reports success only in the step that takes the name away.
SuccessRemoves ==
    [][\A p \in Procs : Stepped(p) /\ pc'[p] = "zero" =>
            LET c == Canon(tree, call[p].path, FALSE)
            IN  At(tree, c).kind # "none" /\ At(tree', c).kind = "none"]_vars

\* Outside the bins a call changes nothing but the entry it deletes, and that
\* one only in the step that reports success: a call that fails half-way has
\* left the user's files alone.
LiveTreeFrame ==
    [][\A p \in Procs : Stepped(p) =>
            \A q \in Paths :
                \/ tree'[q] = tree[q]
                \/ \E i \in DOMAIN recycler :
                        q = recycler[i].dir \/ UnderDir(recycler[i].dir, q)
                \/ /\ pc'[p] = "zero"
                   /\ q = Canon(tree, call[p].path, FALSE)
                   /\ tree'[q] = None]_vars

\* What a bin holds is lost only on the way of the path being recycled, or
\* as the entry the caller deletes from under the bin.
BinLossOnlyInTheWay ==
    [][\A p \in Procs : Stepped(p) =>
            \A q \in Paths :
                InBin(q) /\ tree[q].kind \in {"reg", "lnk"} /\ tree'[q] # tree[q]
                => LET r == Recycled(call[p])
                   IN  \/ pc[p] # "real" /\ IsPrefix(q, r)
                       \/ pc[p] = "real" /\ q = Canon(tree, call[p].path, FALSE)
      ]_vars

\* When the clone is complete its last directory has the mode of the one it
\* was cloned from, whatever mode an earlier deletion had left there; if the
\* clone has just made it, that mode less what the umask takes away.
CloneHasDonorMode ==
    [][\A p \in Procs :
            Stepped(p) /\ pc[p] \in Cloning /\ pc'[p] \in {"rename", "real"} =>
                LET l == call[p]
                    donor == ModeOf(Lookup(tree, CloneDonor(l), TRUE))
                    clone == ModeOf(Lookup(tree', CloneTarget(l), TRUE))
                IN  IF Lookup(tree, CloneTarget(l), TRUE) = None
                    THEN \E mask \in Umasks : clone = Masked(donor, mask)
                    ELSE clone = donor]_vars

\* The live names of each file are what RecycleBin calls names.
Promise == INSTANCE RecycleBin WITH
    standing <- {i \in DOMAIN recycler :
                    /\ recycler[i].set /\ recycler[i].abs
                    /\ Lookup(tree, recycler[i].dir, TRUE) # None},
    names <- [f \in Files |-> {q \in Paths : tree[q] = Reg(f)}]

\* The library keeps the promise of RecycleBin.
KeepsPromise == Promise!Spec

\* Somebody else, another process or the user, changes the tree under p.
Meddling(p) == tree' # tree /\ ~Stepped(p)

\* Every call returns, however often it has to repair the path it clones,
\* unless others change the tree under it for ever.
Terminates ==
    \A p \in Procs : []<>(pc[p] \in Returned) \/ []<><<Meddling(p)>>_vars
=============================================================================
