-------------------------- MODULE RecyclixProofs ---------------------------
(***************************************************************************)
(* Proofs about Recyclix for every value of its constants: its types, the  *)
(* entry of RECYCLER that is taken for a file, the malformed one that      *)
(* cancels the deletion, the way up from a file to its mount point, and    *)
(* what a step of a call may do to the file tree: what it may take away    *)
(* inside a bin and outside of the bins, what is gone when it reports      *)
(* success, and the mode of the directory it has cloned; and that all of   *)
(* it together keeps the promise of RecycleBin.                            *)
(***************************************************************************)
EXTENDS Recyclix, LeastProofs, SequenceTheorems, TLAPS

-----------------------------------------------------------------------------
(* The file tree *)

\* What lies at a path, inside the universe or not, is a node.
LEMMA AtType ==
    ASSUME NEW t \in Tree, NEW q
    PROVE  At(t, q) \in Node
BY DEF At, Tree, Node

\* A path at which there is something is a path of the universe.
LEMMA AtPath ==
    ASSUME NEW t, NEW q, At(t, q) # None
    PROVE  q \in Paths
BY DEF At

\* A node is of one of four kinds, which its kind field tells.
LEMMA NodeKinds ==
    ASSUME NEW n \in Node
    PROVE  \/ n.kind # "dir"
           \/ \E w \in BOOLEAN : n = Dir(w)
BY DEF Node, None, Dir, Reg, Link

\* The mode of a node is that of a directory, or "writable".
LEMMA ModeType ==
    ASSUME NEW n \in Node
    PROVE  ModeOf(n) \in BOOLEAN
<1>1. CASE n.kind # "dir"
    BY <1>1 DEF ModeOf
<1>2. ASSUME NEW w \in BOOLEAN, n = Dir(w)
      PROVE  ModeOf(n) = w
    BY <1>2 DEF ModeOf, Dir
<1> QED BY <1>1, <1>2, NodeKinds

\* A path with one more name is a path, with a length.
LEMMA AppendType ==
    ASSUME NEW q \in Seq(Names), NEW e \in Names
    PROVE  Append(q, e) \in Seq(Names) /\ Len(Append(q, e)) \in Nat
BY AppendProperties

\* stat returns a node; what it finds lies at a path of the universe.
LEMMA LookupType ==
    ASSUME NEW t \in Tree, NEW q, NEW deref \in BOOLEAN
    PROVE  /\ Lookup(t, q, deref) \in Node
           /\ Lookup(t, q, deref) # None => Canon(t, q, deref) \in Paths
<1>1. At(t, Canon(t, q, deref)) \in Node
    BY AtType
<1>2. At(t, Canon(t, q, deref)) # None => Canon(t, q, deref) \in Paths
    BY AtPath
<1>3. None \in Node
    BY DEF Node
<1> QED BY <1>1, <1>2, <1>3 DEF Lookup

\* Replacing the node at a path, in the universe or not, gives a tree.
LEMMA PutType ==
    ASSUME NEW t \in Tree, NEW c, NEW n \in Node
    PROVE  [t EXCEPT ![c] = n] \in Tree
BY DEF Tree

\* The other changes to a tree give a tree.
LEMMA ChangeTypes ==
    ASSUME NEW t \in Tree, NEW q, NEW n \in Node, NEW w \in BOOLEAN
    PROVE  /\ Put(t, q, n) \in Tree
           /\ Removed(t, q) \in Tree
           /\ Chmoded(t, q, w) \in Tree
<1>1. None \in Node /\ Dir(w) \in Node
    BY DEF Node
<1> QED BY <1>1, PutType DEF Put, Removed, Chmoded

\* A rename that is allowed gives a tree.
LEMMA RenamedType ==
    ASSUME NEW t \in Tree, NEW old, NEW new, RenameErr(t, old, new) = "ok"
    PROVE  Renamed(t, old, new) \in Tree
<1> DEFINE co == Canon(t, old, FALSE)
           cn == Canon(t, new, FALSE)
<1>1. At(t, co).kind # "none"
    BY DEF RenameErr
<1>2. None.kind = "none"
    BY DEF None
<1>3. co \in Paths
    BY <1>1, <1>2, AtPath
<1>4. t[co] \in Node /\ None \in Node
    BY <1>3 DEF Tree, Node
<1>5. [[t EXCEPT ![cn] = t[co]] EXCEPT ![co] = None] \in Tree
    BY <1>4, PutType
<1>6. [t EXCEPT ![cn] = t[co], ![co] = None] \in Tree
    BY <1>5
<1> QED BY <1>6 DEF Renamed

-----------------------------------------------------------------------------
(* Type correctness *)

\* The state after a step of one process is typed if the process is.
LEMMA ProcessType ==
    ASSUME TypeOK, NEW p \in Procs, NEW l \in Calls,
           NEW x \in InCall \cup Returned,
           recycler' = recycler, tree' \in Tree, born' = born,
           pc' = [pc EXCEPT ![p] = x],
           call' = [call EXCEPT ![p] = l],
           x \in InCall => l.path \in CallPaths,
           x \in InCall /\ recycler # <<>> => l.bin \in DOMAIN recycler,
           x \in {"mkdir", "rmparent", "statdst", "chmoddst", "rmdst"} =>
                l.modes # <<>>
    PROVE  TypeOK'
BY DEF TypeOK

\* A call starts and ends with blank variables.
LEMMA BlankType == Blank \in Calls
<1>1. <<>> \in Seq(Names) /\ <<>> \in Seq(BOOLEAN)
    OBVIOUS
<1>2. None \in Node
    BY DEF Node
<1> QED BY <1>1, <1>2 DEF Blank, Calls, Modes

\* A call may return at any time.
LEMMA ReturnType ==
    ASSUME TypeOK, NEW p \in Procs, NEW r \in Returned, Return(p, r),
           recycler' = recycler, tree' \in Tree, born' = born
    PROVE  TypeOK'
<1>1. r \notin InCall
    BY DEF Returned, InCall, Cloning
<1> QED BY <1>1, BlankType, ProcessType DEF Return, Goto, InCall, Cloning

\* The program counter alone may move within a call, to "mkdir" and its
\* like only while a directory is being cloned.
LEMMA GotoType ==
    ASSUME TypeOK, NEW p \in Procs, NEW x \in InCall, Goto(p, x),
           pc[p] \in InCall, recycler' = recycler, tree' \in Tree,
           born' = born, call' = call,
           x \in {"mkdir", "rmparent", "statdst", "chmoddst", "rmdst"} =>
                call[p].modes # <<>>
    PROVE  TypeOK'
<1>1. call[p] \in Calls /\ call' = [call EXCEPT ![p] = call[p]]
    BY DEF TypeOK
<1>2. /\ call[p].path \in CallPaths
      /\ recycler # <<>> => call[p].bin \in DOMAIN recycler
    BY DEF TypeOK
<1> QED BY <1>1, <1>2, ProcessType DEF Goto

\* The end of recyclix_clonepath_recursive, at any depth.
LEMMA CloneDoneType ==
    ASSUME TypeOK, NEW p \in Procs, CloneDone(p),
           pc[p] \in {"mkdir", "chmoddst"},
           recycler' = recycler, tree' \in Tree, born' = born
    PROVE  TypeOK'
<1> DEFINE l == call[p]
<1>1. /\ l \in Calls /\ pc[p] \in InCall
      /\ l.path \in CallPaths
      /\ recycler # <<>> => l.bin \in DOMAIN recycler
      /\ l.modes \in Seq(BOOLEAN)
    BY DEF TypeOK, InCall, Cloning, Calls
<1>2. CASE Len(l.modes) > 1
    <2> DEFINE k == [l EXCEPT !.modes = Front(@)]
    <2>1. Front(l.modes) \in Seq(BOOLEAN) /\ Front(l.modes) # <<>>
        BY <1>1, <1>2 DEF Front
    <2>2. k \in Calls /\ k.modes # <<>> /\ k.path = l.path /\ k.bin = l.bin
        BY <1>1, <2>1 DEF Calls
    <2>3. call' = [call EXCEPT ![p] = k] /\ pc' = [pc EXCEPT ![p] = "mkdir"]
        BY <1>2 DEF CloneDone, Goto
    <2>4. "mkdir" \in InCall
        BY DEF InCall, Cloning
    <2> QED BY <1>1, <2>2, <2>3, <2>4, ProcessType
<1>3. CASE ~(Len(l.modes) > 1)
    <2> DEFINE k == [l EXCEPT !.modes = <<>>]
               x == IF l.st.kind = "dir" THEN "real" ELSE "rename"
    <2>0. <<>> \in Seq(BOOLEAN)
        OBVIOUS
    <2>1. k \in Calls /\ k.path = l.path /\ k.bin = l.bin
        BY <1>1, <2>0 DEF Calls
    <2>2. call' = [call EXCEPT ![p] = k] /\ pc' = [pc EXCEPT ![p] = x]
        BY <1>3 DEF CloneDone, Goto
    <2>3. /\ x \in InCall
          /\ x \notin {"mkdir", "rmparent", "statdst", "chmoddst", "rmdst"}
        BY DEF InCall, Cloning
    <2> QED BY <1>1, <2>1, <2>2, <2>3, ProcessType
<1> QED BY <1>2, <1>3

\* One more mode is on record.
LEMMA ModesAppend ==
    ASSUME NEW s \in Seq(BOOLEAN), NEW m \in BOOLEAN
    PROVE  Append(s, m) \in Seq(BOOLEAN) /\ Append(s, m) # <<>>
BY AppendProperties

\* Every system call of a process keeps the types.
LEMMA StepType ==
    ASSUME TypeOK, NEW p \in Procs, Step(p)
    PROVE  TypeOK'
<1> DEFINE l == call[p]
<1> USE FileTreeAssumption, RecyclixAssumption
<1>1. /\ l \in Calls
      /\ pc[p] \in InCall => l.path \in CallPaths
      /\ pc[p] \in InCall /\ recycler # <<>> => l.bin \in DOMAIN recycler
      /\ tree \in Tree
      /\ recycler \in Seq(BinEntry)
    BY DEF TypeOK
<1>2. CASE Fstatat(p)
    <2> DEFINE n == Lookup(tree, l.path, FALSE)
               d == DevOf(tree, l.path, FALSE)
    <2>1. CASE n = None
        BY <1>1, <1>2, <2>1, ReturnType DEF Fstatat, Returned
    <2>2. CASE n # None
        <3> DEFINE k == [l EXCEPT !.st = n, !.dev = d]
        <3>1. n \in Node /\ d \in Nat
            BY <1>1, <2>2, LookupType DEF DevOf
        <3>2. k \in Calls /\ k.path = l.path /\ k.bin = l.bin
            BY <1>1, <3>1 DEF Calls
        <3>3. /\ call' = [call EXCEPT ![p] = k]
              /\ pc' = [pc EXCEPT ![p] = "choose"]
              /\ recycler' = recycler /\ tree' = tree /\ born' = born
              /\ pc[p] = "fstatat"
            BY <1>2, <2>2 DEF Fstatat, Goto
        <3> QED BY <1>1, <3>2, <3>3, ProcessType DEF InCall, Cloning
    <2> QED BY <2>1, <2>2
<1>3. CASE BadOption(p)
    BY <1>1, <1>3, ReturnType DEF BadOption, Returned
<1>4. CASE TakeBin(p)
    <2> DEFINE i == InoOf(tree, Bin(l).dir, TRUE)
               k == [l EXCEPT !.ino = i]
    <2>1. i \in Nat
        BY <1>1, <1>4, LookupType DEF TakeBin, Accepts, InoOf
    <2>2. k \in Calls /\ k.path = l.path /\ k.bin = l.bin
        BY <1>1, <2>1 DEF Calls
    <2>3. /\ call' = [call EXCEPT ![p] = k]
          /\ pc' = [pc EXCEPT ![p] = "resolve"]
          /\ recycler' = recycler /\ tree' = tree /\ born' = born
          /\ pc[p] = "choose"
        BY <1>4 DEF TakeBin, Goto
    <2> QED BY <1>1, <2>2, <2>3, ProcessType DEF InCall, Cloning
<1>5. CASE SkipBin(p)
    <2>1. /\ pc[p] = "choose" /\ pc[p] \in InCall
          /\ recycler' = recycler /\ tree' = tree /\ born' = born
        BY <1>5 DEF SkipBin, InCall
    <2>2. CASE l.bin = Len(recycler)
        BY <1>1, <1>5, <2>1, <2>2, GotoType DEF SkipBin, InCall
    <2>3. CASE l.bin # Len(recycler)
        <3> DEFINE k == [l EXCEPT !.bin = @ + 1]
        <3>1. l.bin \in Nat
            BY <1>1 DEF Calls
        <3>0. l.bin + 1 \in Nat
            BY <3>1
        <3>2. k \in Calls /\ k.path = l.path /\ k.bin = l.bin + 1
            BY <1>1, <3>0 DEF Calls
        <3>3. recycler # <<>> => l.bin + 1 \in DOMAIN recycler
            BY <1>1, <2>1, <2>3, <3>1
        <3>4. call' = [call EXCEPT ![p] = k] /\ pc' = pc
            BY <1>5, <2>3 DEF SkipBin
        <3>5. pc' = [pc EXCEPT ![p] = "choose"]
            BY <2>1, <3>4 DEF TypeOK
        <3>6. /\ k \in Calls /\ k.path \in CallPaths
              /\ recycler # <<>> => k.bin \in DOMAIN recycler
            BY <1>1, <2>1, <3>2, <3>3
        <3>7. "choose" \in InCall \cup Returned
            BY DEF InCall
        <3>8. tree' \in Tree
            BY <1>1, <2>1
        <3> HIDE DEF k
        <3> QED
            BY <2>1, <3>4, <3>5, <3>6, <3>7, <3>8, ProcessType
    <2> QED BY <2>2, <2>3
<1>6. CASE AtDirFails(p)
    BY <1>1, <1>6, ReturnType DEF AtDirFails, Returned
<1>7. CASE RealpathFails(p)
    BY <1>1, <1>7, ReturnType DEF RealpathFails, Returned
<1>8. CASE Resolve(p)
    <2> DEFINE dir == Canon(tree, Parent(l.path), TRUE)
               fq == Append(dir, Last(l.path))
               k == [l EXCEPT !.fq = fq, !.mp = Len(fq)]
    <2>1. dir \in Paths
        BY <1>1, <1>8, LookupType DEF Resolve
    <2>2. dir \in Seq(Names)
        BY <2>1
    <2>3. l.path \in Seq(Names) /\ l.path # <<>>
        BY <1>1, <1>8 DEF Resolve, InCall
    <2>4. Last(l.path) \in Names
        BY <2>3 DEF Last
    <2>5. fq \in Seq(Names) /\ Len(fq) \in Nat
        BY <2>2, <2>4, AppendType
    <2>6. k \in Calls /\ k.path = l.path /\ k.bin = l.bin
        BY <1>1, <2>5 DEF Calls
    <2>7. /\ call' = [call EXCEPT ![p] = k]
          /\ pc' = [pc EXCEPT ![p] = "walk"]
          /\ recycler' = recycler /\ tree' = tree /\ born' = born
          /\ pc[p] = "resolve"
        BY <1>8 DEF Resolve, Goto
    <2> QED BY <1>1, <2>6, <2>7, ProcessType DEF InCall, Cloning
<1>9. CASE WalkUp(p)
    <2> DEFINE up == Prefix(l.fq, l.mp - 1)
    <2>1. /\ pc[p] = "walk" /\ pc[p] \in InCall
          /\ recycler' = recycler /\ tree' = tree /\ born' = born
        BY <1>9 DEF WalkUp, InCall
    <2>2. \/ Return(p, "failed")
          \/ Goto(p, "real") /\ call' = call
          \/ Goto(p, "donor") /\ call' = call
          \/ /\ l.mp # 0
             /\ call' = [call EXCEPT ![p].mp = @ - 1] /\ pc' = pc
        BY <1>9 DEF WalkUp
    <2>3. CASE Return(p, "failed")
        BY <1>1, <2>1, <2>3, ReturnType DEF Returned
    <2>4. CASE (Goto(p, "real") \/ Goto(p, "donor")) /\ call' = call
        BY <1>1, <2>1, <2>4, GotoType DEF InCall, Cloning
    <2>5. CASE /\ l.mp # 0
               /\ call' = [call EXCEPT ![p].mp = @ - 1] /\ pc' = pc
        <3> DEFINE k == [l EXCEPT !.mp = @ - 1]
        <3>1. l.mp \in Nat
            BY <1>1 DEF Calls
        <3>0. l.mp - 1 \in Nat
            BY <2>5, <3>1
        <3>2. k \in Calls /\ k.path = l.path /\ k.bin = l.bin
            BY <1>1, <3>0 DEF Calls
        <3>3. call' = [call EXCEPT ![p] = k]
            BY <2>5
        <3>4. pc' = [pc EXCEPT ![p] = "walk"]
            BY <2>1, <2>5 DEF TypeOK
        <3> QED BY <1>1, <2>1, <3>2, <3>3, <3>4, ProcessType DEF InCall
    <2> QED BY <2>2, <2>3, <2>4, <2>5
<1>10. CASE DonorStat(p)
    <2> DEFINE n == Lookup(tree, DonorAt(l, Len(l.modes)), TRUE)
               k == [l EXCEPT !.modes = Append(@, ModeOf(n))]
    <2>1. CASE n = None
        BY <1>1, <1>10, <2>1, ReturnType DEF DonorStat, Returned
    <2>2. CASE n # None
        <3>1. n \in Node
            BY <1>1, LookupType
        <3>2. ModeOf(n) \in BOOLEAN
            BY <3>1, ModeType
        <3>3. l.modes \in Seq(BOOLEAN)
            BY <1>1 DEF Calls
        <3>4. /\ Append(l.modes, ModeOf(n)) \in Seq(BOOLEAN)
              /\ Append(l.modes, ModeOf(n)) # <<>>
            BY <3>2, <3>3, ModesAppend
        <3>5. /\ k \in Calls /\ k.path = l.path /\ k.bin = l.bin
              /\ k.modes # <<>>
            BY <1>1, <3>4 DEF Calls
        <3>6. /\ call' = [call EXCEPT ![p] = k]
              /\ pc' = [pc EXCEPT ![p] = "mkdir"]
              /\ recycler' = recycler /\ tree' = tree /\ born' = born
              /\ pc[p] = "donor"
            BY <1>10, <2>2 DEF DonorStat, Goto
        <3> QED BY <1>1, <3>5, <3>6, ProcessType DEF InCall, Cloning
    <2> QED BY <2>1, <2>2
<1>11. pc[p] \in {"mkdir", "rmparent", "statdst", "chmoddst", "rmdst"} =>
            /\ l.modes # <<>> /\ pc[p] \in InCall
            /\ Last(l.modes) \in BOOLEAN
    BY <1>1 DEF TypeOK, Calls, Last, InCall, Cloning
<1>12. CASE Mkdir(p)
    <2>1. /\ pc[p] = "mkdir" /\ recycler' = recycler /\ born' = born
          /\ \/ /\ \E mask \in Umasks :
                        tree' = Put(tree, Current(l),
                                    Dir(Masked(Last(l.modes), mask)))
                /\ CloneDone(p)
             \/ Goto(p, "rmparent") /\ tree' = tree /\ call' = call
             \/ Goto(p, "statdst") /\ tree' = tree /\ call' = call
             \/ Return(p, "failed") /\ tree' = tree
        BY <1>12 DEF Mkdir
    <2>2. ASSUME NEW mask \in Umasks
          PROVE  Dir(Masked(Last(l.modes), mask)) \in Node
        BY DEF Node, Masked
    <2>3. CASE /\ \E mask \in Umasks :
                        tree' = Put(tree, Current(l),
                                    Dir(Masked(Last(l.modes), mask)))
               /\ CloneDone(p)
        BY <1>1, <2>1, <2>2, <2>3, ChangeTypes, CloneDoneType
    <2>4. CASE /\ Goto(p, "rmparent") \/ Goto(p, "statdst")
               /\ tree' = tree /\ call' = call
        BY <1>1, <1>11, <2>1, <2>4, GotoType DEF InCall, Cloning
    <2>5. CASE Return(p, "failed") /\ tree' = tree
        BY <1>1, <2>1, <2>5, ReturnType DEF Returned
    <2> QED BY <2>1, <2>3, <2>4, <2>5
<1>13. CASE RmParent(p)
    <2> DEFINE parent == Parent(Current(l))
    <2>1. /\ pc[p] = "rmparent" /\ recycler' = recycler /\ born' = born
          /\ \/ /\ tree' = Removed(tree, parent)
                /\ Goto(p, "mkdir") /\ call' = call
             \/ Goto(p, "donor") /\ tree' = tree /\ call' = call
             \/ Return(p, "failed") /\ tree' = tree
        BY <1>13 DEF RmParent
    <2>2. Removed(tree, parent) \in Tree
        BY <1>1, ChangeTypes DEF Node
    <2>3. CASE /\ tree' \in Tree /\ call' = call
               /\ \/ Goto(p, "mkdir")
                  \/ Goto(p, "donor")
        BY <1>1, <1>11, <2>1, <2>3, GotoType DEF InCall, Cloning
    <2>4. CASE Return(p, "failed") /\ tree' = tree
        BY <1>1, <2>1, <2>4, ReturnType DEF Returned
    <2> QED BY <1>1, <2>1, <2>2, <2>3, <2>4
<1>14. CASE StatDst(p)
    <2>1. /\ pc[p] = "statdst" /\ recycler' = recycler /\ born' = born
          /\ tree' = tree
          /\ \/ Return(p, "failed")
             \/ Goto(p, "chmoddst") /\ call' = call
             \/ Goto(p, "rmdst") /\ call' = call
        BY <1>14 DEF StatDst
    <2>2. CASE Return(p, "failed")
        BY <1>1, <2>1, <2>2, ReturnType DEF Returned
    <2>3. CASE /\ Goto(p, "chmoddst") \/ Goto(p, "rmdst")
               /\ call' = call
        BY <1>1, <1>11, <2>1, <2>3, GotoType DEF InCall, Cloning
    <2> QED BY <2>1, <2>2, <2>3
<1>14a. CASE ChmodDst(p)
    <2> DEFINE q == Current(l)
    <2>1. /\ pc[p] = "chmoddst" /\ recycler' = recycler /\ born' = born
          /\ CloneDone(p)
          /\ tree' = Chmoded(tree, q, Last(l.modes)) \/ tree' = tree
        BY <1>14a DEF ChmodDst
    <2>2. Chmoded(tree, q, Last(l.modes)) \in Tree
        BY <1>1, <1>11, <2>1, ChangeTypes DEF Node
    <2> QED BY <1>1, <2>1, <2>2, CloneDoneType
<1>15. CASE RmDst(p)
    <2> DEFINE q == Current(l)
    <2>1. /\ pc[p] = "rmdst" /\ recycler' = recycler /\ born' = born
          /\ \/ /\ tree' = Removed(tree, q)
                /\ Goto(p, "mkdir") /\ call' = call
             \/ Return(p, "failed") /\ tree' = tree
        BY <1>15 DEF RmDst
    <2>2. Removed(tree, q) \in Tree
        BY <1>1, ChangeTypes DEF Node
    <2>3. CASE tree' \in Tree /\ Goto(p, "mkdir") /\ call' = call
        BY <1>1, <1>11, <2>1, <2>3, GotoType DEF InCall, Cloning
    <2>4. CASE Return(p, "failed") /\ tree' = tree
        BY <1>1, <2>1, <2>4, ReturnType DEF Returned
    <2> QED BY <2>1, <2>2, <2>3, <2>4
<1>16. CASE Rename(p)
    <2>1. /\ recycler' = recycler /\ born' = born
          /\ Return(p, "zero") \/ Return(p, "failed")
          /\ \/ tree' = tree
             \/ /\ RenameOk(l)
                /\ tree' = Renamed(tree, l.path, Recycled(l))
        BY <1>16 DEF Rename
    <2>2. tree' \in Tree
        BY <1>1, <2>1, RenamedType DEF RenameOk
    <2> QED BY <2>1, <2>2, ReturnType DEF Returned
<1>17. CASE RealUnlink(p)
    <2>1. /\ recycler' = recycler /\ born' = born
          /\ Return(p, "zero") \/ Return(p, "failed")
          /\ tree' = tree \/ tree' = Removed(tree, l.path)
        BY <1>17 DEF RealUnlink
    <2>2. tree' \in Tree
        BY <1>1, <2>1, ChangeTypes DEF Node
    <2> QED BY <2>1, <2>2, ReturnType DEF Returned
<1> QED BY <1>2, <1>3, <1>4, <1>5, <1>6, <1>7, <1>8, <1>9, <1>10, <1>12,
           <1>13, <1>14, <1>14a, <1>15, <1>16, <1>17 DEF Step

\* What the user does keeps the types.
LEMMA UserType ==
    ASSUME TypeOK, User
    PROVE  TypeOK'
<1> USE RecyclixAssumption
<1>1. UNCHANGED <<recycler, pc, call>>
    BY DEF User, Create, MakeDir, Symlink, HardLink, Chmod, Empty, UserPut
<1>2. tree' \in Tree /\ born' \subseteq Files
    <2>1. ASSUME NEW q, NEW n \in Node, UserPut(q, n)
          PROVE  tree' \in Tree
        BY <2>1, PutType DEF TypeOK, UserPut
    <2>2. CASE Create
        <3>1. PICK f \in Files, q \in UserPaths :
                    UserPut(q, Reg(f)) /\ born' = born \cup {f}
            BY <2>2 DEF Create
        <3>2. Reg(f) \in Node
            BY DEF Node
        <3> QED BY <2>1, <3>1, <3>2 DEF TypeOK
    <2>3. CASE MakeDir
        <3>1. PICK q \in UserPaths : UserPut(q, Dir(TRUE)) /\ born' = born
            BY <2>3 DEF MakeDir
        <3>2. Dir(TRUE) \in Node
            BY DEF Node
        <3> QED BY <2>1, <3>1, <3>2 DEF TypeOK
    <2>4. CASE Symlink
        <3>1. PICK q \in LinkPaths, to \in LinkTargets :
                    UserPut(q, Link(to)) /\ born' = born
            BY <2>4 DEF Symlink
        <3>2. Link(to) \in Node
            BY DEF Node
        <3> QED BY <2>1, <3>1, <3>2 DEF TypeOK
    <2>5. CASE HardLink
        <3>1. PICK q \in LinkPaths, old \in Paths :
                    UserPut(q, tree[old]) /\ born' = born
            BY <2>5 DEF HardLink
        <3>2. tree[old] \in Node
            BY DEF TypeOK, Tree
        <3> QED BY <2>1, <3>1, <3>2 DEF TypeOK
    <2>6. CASE Chmod
        <3>1. PICK q \in UserPaths :
                    UserPut(q, Dir(~tree[q].w)) /\ born' = born
            BY <2>6 DEF Chmod
        <3>2. Dir(~tree[q].w) \in Node
            <4>1. (~tree[q].w) \in BOOLEAN
                OBVIOUS
            <4> QED BY <4>1 DEF Node
        <3> QED BY <2>1, <3>1, <3>2 DEF TypeOK
    <2>7. CASE Empty
        <3>1. PICK q \in Paths : UserPut(q, None) /\ born' = born
            BY <2>7 DEF Empty
        <3>2. None \in Node
            BY DEF Node
        <3> QED BY <2>1, <3>1, <3>2 DEF TypeOK
    <2> QED BY <2>2, <2>3, <2>4, <2>5, <2>6, <2>7 DEF User
<1> QED BY <1>1, <1>2 DEF TypeOK

\* A process may call unlinkat.
LEMMA CallType ==
    ASSUME TypeOK, NEW p \in Procs, Call(p)
    PROVE  TypeOK'
<1> USE RecyclixAssumption
<1> DEFINE x == IF recycler = <<>> THEN "real" ELSE "fstatat"
<1>1. PICK q \in CallPaths, m \in CallModes, d \in BOOLEAN :
        call' = [call EXCEPT ![p] =
                    [Blank EXCEPT !.path = q, !.mode = m, !.rmdir = d]]
    BY DEF Call
<1> DEFINE k == [Blank EXCEPT !.path = q, !.mode = m, !.rmdir = d]
<1>2. k \in Calls /\ k.path = q /\ k.bin = 1
    BY BlankType DEF Blank, Calls
<1>3. recycler # <<>> => 1 \in DOMAIN recycler
    BY DEF TypeOK
<1>4. /\ x \in InCall
      /\ x \notin {"mkdir", "rmparent", "statdst", "chmoddst", "rmdst"}
    BY DEF InCall
<1>5. /\ pc' = [pc EXCEPT ![p] = x]
      /\ recycler' = recycler /\ tree' = tree /\ born' = born
    BY DEF Call, Goto
<1>6. tree' \in Tree
    BY <1>5 DEF TypeOK
<1> QED BY <1>1, <1>2, <1>3, <1>4, <1>5, <1>6, ProcessType

\* The types hold at the start.
LEMMA InitType == Init => TypeOK
<1> SUFFICES ASSUME Init PROVE TypeOK
    OBVIOUS
<1> USE RecyclixAssumption
<1>1. pc \in [Procs -> InCall \cup Returned]
    BY DEF Init, Returned
<1>2. call \in [Procs -> Calls]
    BY BlankType DEF Init
<1>3. \A p \in Procs : pc[p] \notin InCall
    BY DEF Init, InCall, Cloning
<1>4. {"mkdir", "rmparent", "statdst", "chmoddst", "rmdst"} \subseteq InCall
    BY DEF InCall, Cloning
<1> QED BY <1>1, <1>2, <1>3, <1>4 DEF Init, TypeOK

\* Every step keeps the types.
LEMMA NextType == TypeOK /\ [Next]_vars => TypeOK'
<1> SUFFICES ASSUME TypeOK, [Next]_vars PROVE TypeOK'
    OBVIOUS
<1>1. CASE User
    BY <1>1, UserType
<1>2. ASSUME NEW p \in Procs, Call(p) PROVE TypeOK'
    BY <1>2, CallType
<1>3. ASSUME NEW p \in Procs, Step(p) PROVE TypeOK'
    BY <1>3, StepType
<1>4. CASE UNCHANGED vars
    BY <1>4 DEF TypeOK, vars
<1> QED BY <1>1, <1>2, <1>3, <1>4 DEF Next

\* Every reachable state of Recyclix is typed, whatever the processes, the
\* tree, the values of RECYCLER and the interleaving.
THEOREM TypeCorrect == Spec => []TypeOK
BY InitType, NextType, PTL DEF Spec

-----------------------------------------------------------------------------
(* The entry of RECYCLER that is taken, and the one that is malformed *)

\* Where a call is once it has left the loop over the entries.
Settled == {"resolve", "walk", "rename", "real"} \cup Cloning

\* The entry at hand admits the file as it was seen.
Admitted(l) ==
    /\ ~Options(Bin(l), Arg(l)).excluded
    /\ l.st.kind = "reg" =>
            ~OutOfLimits(Options(Bin(l), Arg(l)), Size[l.st.file])

\* What a call with the variables l has found out when it is at x: the
\* entries it has passed are well formed, the one it took admits the file.
Justified(l, x) ==
    /\ x = "fstatat" => l.bin = 1
    /\ x = "choose" =>
            \A i \in DOMAIN recycler : i < l.bin => ~Malformed(i, l)
    /\ x \in Settled =>
            \A i \in DOMAIN recycler : i <= l.bin => ~Malformed(i, l)
    /\ x \in Settled \ {"real"} => Admitted(l)

ChoiceInv == TypeOK /\ \A p \in Procs : Justified(call[p], pc[p])

\* A call that goes on with the same entry, file and arguments stays
\* justified.
LEMMA StaysJustified ==
    ASSUME NEW l, NEW k, NEW x \in Settled, NEW y,
           y \in Settled \ {"real"} => x # "real",
           y \notin {"fstatat", "choose"},
           Justified(l, x),
           k.path = l.path, k.mode = l.mode, k.bin = l.bin, k.st = l.st
    PROVE  Justified(k, y)
<1>1. Arg(k) = Arg(l) /\ Bin(k) = Bin(l)
    BY DEF Arg, Bin
<1>2. \A i \in DOMAIN recycler : Malformed(i, k) = Malformed(i, l)
    BY <1>1 DEF Malformed
<1>3. Admitted(k) = Admitted(l)
    BY <1>1 DEF Admitted
<1> QED BY <1>1, <1>2, <1>3 DEF Justified

\* What a returned call holds needs no justification.
LEMMA ReturnedJustified ==
    ASSUME NEW l, NEW x \in Returned
    PROVE  Justified(l, x)
BY DEF Justified, Returned, Settled, Cloning

\* One process moves to a justified state, the others stay.
LEMMA ProcessJustified ==
    ASSUME ChoiceInv, TypeOK', recycler' = recycler,
           NEW p \in Procs, NEW l, NEW x,
           pc' = [pc EXCEPT ![p] = x], call' = [call EXCEPT ![p] = l],
           Justified(l, x)
    PROVE  ChoiceInv'
<1> SUFFICES ASSUME NEW q \in Procs
             PROVE  Justified(call[q], pc[q])'
    BY DEF ChoiceInv
<1>1. (q = p => call'[q] = l /\ pc'[q] = x)
      /\ (q # p => call'[q] = call[q] /\ pc'[q] = pc[q])
    BY DEF ChoiceInv, TypeOK
<1>2. Justified(call'[q], pc'[q])
    BY <1>1 DEF ChoiceInv
<1> QED BY <1>2 DEF Justified, Malformed, Admitted, Bin, Arg

\* A step out of a settled place within the call, or its return.
LEMMA SettledStep ==
    ASSUME ChoiceInv, TypeOK', recycler' = recycler, NEW p \in Procs,
           pc[p] \in Settled \ {"real"},
           NEW x \in Settled, pc' = [pc EXCEPT ![p] = x],
           NEW k, call' = [call EXCEPT ![p] = k],
           k.path = call[p].path, k.mode = call[p].mode,
           k.bin = call[p].bin, k.st = call[p].st
    PROVE  ChoiceInv'
<1>1. Justified(call[p], pc[p])
    BY DEF ChoiceInv
<1>2. x \notin {"fstatat", "choose"}
    BY DEF Settled, Cloning
<1>3. Justified(k, x)
    BY <1>1, <1>2, StaysJustified
<1> QED BY <1>3, ProcessJustified

\* The return of a call.
LEMMA ReturnStep ==
    ASSUME ChoiceInv, TypeOK', recycler' = recycler, NEW p \in Procs,
           NEW r \in Returned, Return(p, r)
    PROVE  ChoiceInv'
<1>1. Justified(Blank, r)
    BY ReturnedJustified
<1> QED BY <1>1, ProcessJustified DEF Return, Goto

\* The same when the variables of the call do not change.
LEMMA SettledGoto ==
    ASSUME ChoiceInv, TypeOK', recycler' = recycler, NEW p \in Procs,
           pc[p] \in Settled \ {"real"},
           NEW x \in Settled, Goto(p, x), call' = call
    PROVE  ChoiceInv'
<1>1. call' = [call EXCEPT ![p] = call[p]]
    BY DEF ChoiceInv, TypeOK
<1> QED BY <1>1, SettledStep DEF Goto

\* The end of the innermost clone, nested or not.
LEMMA CloneDoneStep ==
    ASSUME ChoiceInv, TypeOK', recycler' = recycler, NEW p \in Procs,
           pc[p] \in Cloning, CloneDone(p)
    PROVE  ChoiceInv'
<1> DEFINE l == call[p]
<1>1. pc[p] \in Settled \ {"real"} /\ l \in Calls
    BY DEF Settled, Cloning, ChoiceInv, TypeOK
<1>0. PICK s : \E x \in {"mkdir", "real", "rename"} :
            /\ pc' = [pc EXCEPT ![p] = x]
            /\ call' = [call EXCEPT ![p] = [l EXCEPT !.modes = s]]
    <2>1. CASE Len(l.modes) > 1
        <3>1. /\ pc' = [pc EXCEPT ![p] = "mkdir"]
              /\ call' = [call EXCEPT ![p] = [l EXCEPT !.modes = Front(@)]]
            BY <2>1 DEF CloneDone, Goto
        <3> QED BY <3>1
    <2>2. CASE ~(Len(l.modes) > 1)
        <3> DEFINE x == IF l.st.kind = "dir" THEN "real" ELSE "rename"
        <3>1. /\ pc' = [pc EXCEPT ![p] = x]
              /\ call' = [call EXCEPT ![p] = [l EXCEPT !.modes = <<>>]]
            BY <2>2 DEF CloneDone, Goto
        <3> QED BY <3>1
    <2> QED BY <2>1, <2>2
<1>2. PICK x \in {"mkdir", "real", "rename"} :
            /\ pc' = [pc EXCEPT ![p] = x]
            /\ call' = [call EXCEPT ![p] = [l EXCEPT !.modes = s]]
    BY <1>0
<1> DEFINE k == [l EXCEPT !.modes = s]
<1>3. /\ k.path = l.path /\ k.mode = l.mode /\ k.bin = l.bin
      /\ k.st = l.st
    BY <1>1 DEF Calls
<1>4. x \in Settled
    BY DEF Settled, Cloning
<1> QED BY <1>1, <1>2, <1>3, <1>4, SettledStep

\* Every system call of a process keeps the invariant.
LEMMA StepChoice ==
    ASSUME ChoiceInv, NEW p \in Procs, Step(p)
    PROVE  ChoiceInv'
<1> DEFINE l == call[p]
<1> USE RecyclixAssumption
<1>1. TypeOK /\ TypeOK'
    BY StepType DEF ChoiceInv
<1>2. recycler' = recycler
    BY DEF Step, Fstatat, BadOption, TakeBin, SkipBin, AtDirFails,
           RealpathFails, Resolve, WalkUp, DonorStat, Mkdir, RmParent,
           StatDst, ChmodDst, RmDst, Rename, RealUnlink
<1>3. l \in Calls /\ recycler \in Seq(BinEntry) /\ Justified(l, pc[p])
    BY <1>1 DEF TypeOK, ChoiceInv
<1>4. l.bin \in Nat
    BY <1>3 DEF Calls
<1>5. CASE Fstatat(p)
    <2> DEFINE n == Lookup(tree, l.path, FALSE)
               k == [l EXCEPT !.st = n, !.dev = DevOf(tree, l.path, FALSE)]
    <2>1. CASE n = None
        BY <1>1, <1>2, <1>5, <2>1, ReturnStep DEF Fstatat, Returned
    <2>2. CASE n # None
        <3>1. k.bin = l.bin
            BY <1>3 DEF Calls
        <3>2. l.bin = 1
            BY <1>3, <1>5 DEF Justified, Fstatat
        <3>3. \A i \in DOMAIN recycler : ~(i < 1)
            BY <1>3
        <3>4. Justified(k, "choose")
            BY <3>1, <3>2, <3>3 DEF Justified, Settled, Cloning
        <3>5. /\ call' = [call EXCEPT ![p] = k]
              /\ pc' = [pc EXCEPT ![p] = "choose"]
            BY <1>5, <2>2 DEF Fstatat, Goto
        <3> QED BY <1>1, <1>2, <3>4, <3>5, ProcessJustified
    <2> QED BY <2>1, <2>2
<1>6. CASE BadOption(p)
    BY <1>1, <1>2, <1>6, ReturnStep DEF BadOption, Returned
<1>7. CASE TakeBin(p)
    <2> DEFINE k == [l EXCEPT !.ino = InoOf(tree, Bin(l).dir, TRUE)]
    <2>1. /\ k.path = l.path /\ k.mode = l.mode /\ k.bin = l.bin
          /\ k.st = l.st
        BY <1>3 DEF Calls
    <2>2. Arg(k) = Arg(l) /\ Bin(k) = Bin(l)
        BY <2>1 DEF Arg, Bin
    <2>3. Admitted(k)
        BY <1>7, <2>1, <2>2 DEF TakeBin, Accepts, Admitted
    <2>4. \A i \in DOMAIN recycler : i < l.bin => ~Malformed(i, l)
        BY <1>3, <1>7 DEF Justified, TakeBin
    <2>5. ~Malformed(l.bin, l)
        BY <1>7 DEF TakeBin, Malformed, Bin
    <2>6. \A i \in DOMAIN recycler : i <= k.bin => ~Malformed(i, k)
        <3>1. \A i \in DOMAIN recycler : i <= l.bin => i < l.bin \/ i = l.bin
            BY <1>3, <1>4
        <3>2. \A i \in DOMAIN recycler : i <= l.bin => ~Malformed(i, l)
            BY <2>4, <2>5, <3>1
        <3> QED BY <2>1, <2>2, <3>2 DEF Malformed
    <2>7. Justified(k, "resolve")
        BY <2>3, <2>6 DEF Justified
    <2>8. /\ call' = [call EXCEPT ![p] = k]
          /\ pc' = [pc EXCEPT ![p] = "resolve"]
        BY <1>7 DEF TakeBin, Goto
    <2> QED BY <1>1, <1>2, <2>7, <2>8, ProcessJustified
<1>8. CASE SkipBin(p)
    <2>1. \A i \in DOMAIN recycler : i < l.bin => ~Malformed(i, l)
        BY <1>3, <1>8 DEF Justified, SkipBin
    <2>2. ~Malformed(l.bin, l)
        BY <1>8 DEF SkipBin, Malformed, Bin
    <2>3. \A i \in DOMAIN recycler : i < l.bin + 1 => ~Malformed(i, l)
        <3>1. \A i \in DOMAIN recycler :
                    i < l.bin + 1 => i < l.bin \/ i = l.bin
            BY <1>3, <1>4
        <3> QED BY <2>1, <2>2, <3>1
    <2>4. CASE l.bin = Len(recycler)
        <3>1. \A i \in DOMAIN recycler : i <= l.bin => i < l.bin + 1
            BY <1>3, <1>4
        <3>2. Justified(l, "real")
            BY <2>3, <3>1 DEF Justified
        <3>3. /\ call' = [call EXCEPT ![p] = l]
              /\ pc' = [pc EXCEPT ![p] = "real"]
            BY <1>1, <1>8, <2>4 DEF SkipBin, Goto, TypeOK
        <3> QED BY <1>1, <1>2, <3>2, <3>3, ProcessJustified
    <2>5. CASE l.bin # Len(recycler)
        <3> DEFINE k == [l EXCEPT !.bin = @ + 1]
        <3>1. k.path = l.path /\ k.mode = l.mode /\ k.bin = l.bin + 1
            BY <1>3 DEF Calls
        <3>2. \A i \in DOMAIN recycler : i < k.bin => ~Malformed(i, k)
            BY <2>3, <3>1 DEF Malformed, Arg
        <3>3. Justified(k, "choose")
            BY <3>2 DEF Justified, Settled, Cloning
        <3>4. pc[p] = "choose" /\ call' = [call EXCEPT ![p] = k] /\ pc' = pc
            BY <1>8, <2>5 DEF SkipBin
        <3>5. pc' = [pc EXCEPT ![p] = "choose"]
            BY <1>1, <3>4 DEF TypeOK
        <3> QED BY <1>1, <1>2, <3>3, <3>4, <3>5, ProcessJustified
    <2> QED BY <2>4, <2>5
<1>9. CASE AtDirFails(p)
    BY <1>1, <1>2, <1>9, ReturnStep DEF AtDirFails, Returned
<1>10. CASE RealpathFails(p)
    BY <1>1, <1>2, <1>10, ReturnStep DEF RealpathFails, Returned
<1>11. CASE Resolve(p)
    <2>1. PICK fq, n :
            call' = [call EXCEPT ![p] = [l EXCEPT !.fq = fq, !.mp = n]]
        <3>1. call' = [call EXCEPT ![p] = [l EXCEPT
                !.fq = Append(Canon(tree, Parent(l.path), TRUE), Last(l.path)),
                !.mp = Len(Append(Canon(tree, Parent(l.path), TRUE),
                                  Last(l.path)))]]
            BY <1>11 DEF Resolve
        <3> QED BY <3>1
    <2> DEFINE k == [l EXCEPT !.fq = fq, !.mp = n]
    <2>2. /\ k.path = l.path /\ k.mode = l.mode /\ k.bin = l.bin
          /\ k.st = l.st
        BY <1>3 DEF Calls
    <2>3. pc[p] = "resolve" /\ pc' = [pc EXCEPT ![p] = "walk"]
        BY <1>11 DEF Resolve, Goto
    <2> QED BY <1>1, <1>2, <2>1, <2>2, <2>3, SettledStep DEF Settled
<1>12. CASE WalkUp(p)
    <2>1. /\ pc[p] = "walk"
          /\ \/ Return(p, "failed")
             \/ Goto(p, "real") /\ call' = call
             \/ Goto(p, "donor") /\ call' = call
             \/ call' = [call EXCEPT ![p].mp = @ - 1] /\ pc' = pc
        BY <1>12 DEF WalkUp
    <2>2. CASE Return(p, "failed")
        BY <1>1, <1>2, <2>2, ReturnStep DEF Returned
    <2>3. CASE (Goto(p, "real") \/ Goto(p, "donor")) /\ call' = call
        BY <1>1, <1>2, <2>1, <2>3, SettledGoto DEF Settled, Cloning
    <2>4. CASE call' = [call EXCEPT ![p].mp = @ - 1] /\ pc' = pc
        <3> DEFINE k == [l EXCEPT !.mp = @ - 1]
        <3>1. /\ k.path = l.path /\ k.mode = l.mode /\ k.bin = l.bin
              /\ k.st = l.st
            BY <1>3 DEF Calls
        <3>2. /\ call' = [call EXCEPT ![p] = k]
              /\ pc' = [pc EXCEPT ![p] = "walk"]
            BY <1>1, <2>1, <2>4 DEF TypeOK
        <3> QED BY <1>1, <1>2, <2>1, <3>1, <3>2, SettledStep DEF Settled
    <2> QED BY <2>1, <2>2, <2>3, <2>4
<1>13. CASE DonorStat(p)
    <2> DEFINE n == Lookup(tree, DonorAt(l, Len(l.modes)), TRUE)
               k == [l EXCEPT !.modes = Append(@, ModeOf(n))]
    <2>1. CASE n = None
        BY <1>1, <1>2, <1>13, <2>1, ReturnStep DEF DonorStat, Returned
    <2>2. CASE n # None
        <3>1. /\ k.path = l.path /\ k.mode = l.mode /\ k.bin = l.bin
              /\ k.st = l.st
            BY <1>3 DEF Calls
        <3>2. /\ pc[p] = "donor"
              /\ call' = [call EXCEPT ![p] = k]
              /\ pc' = [pc EXCEPT ![p] = "mkdir"]
            BY <1>13, <2>2 DEF DonorStat, Goto
        <3> QED
            BY <1>1, <1>2, <3>1, <3>2, SettledStep DEF Settled, Cloning
    <2> QED BY <2>1, <2>2
<1>14. CASE Mkdir(p) \/ RmParent(p) \/ StatDst(p) \/ ChmodDst(p) \/ RmDst(p)
    <2>1. /\ pc[p] \in Cloning
          /\ \/ CloneDone(p)
             \/ Return(p, "failed")
             \/ \E x \in Cloning : Goto(p, x) /\ call' = call
        BY <1>14 DEF Mkdir, RmParent, StatDst, ChmodDst, RmDst, Cloning
    <2>2. CASE CloneDone(p)
        BY <1>1, <1>2, <2>1, <2>2, CloneDoneStep
    <2>3. CASE Return(p, "failed")
        BY <1>1, <1>2, <2>3, ReturnStep DEF Returned
    <2>4. CASE \E x \in Cloning : Goto(p, x) /\ call' = call
        BY <1>1, <1>2, <2>1, <2>4, SettledGoto DEF Settled, Cloning
    <2> QED BY <2>1, <2>2, <2>3, <2>4
<1>15. CASE Rename(p) \/ RealUnlink(p)
    <2>1. Return(p, "zero") \/ Return(p, "failed")
        BY <1>15 DEF Rename, RealUnlink
    <2> QED BY <1>1, <1>2, <2>1, ReturnStep DEF Returned
<1> QED BY <1>5, <1>6, <1>7, <1>8, <1>9, <1>10, <1>11, <1>12, <1>13,
           <1>14, <1>15 DEF Step

\* A process may call unlinkat.
LEMMA CallChoice ==
    ASSUME ChoiceInv, NEW p \in Procs, Call(p)
    PROVE  ChoiceInv'
<1> DEFINE x == IF recycler = <<>> THEN "real" ELSE "fstatat"
<1>1. TypeOK' /\ recycler' = recycler
    BY CallType DEF ChoiceInv, Call
<1>2. PICK q, m, d :
        call' = [call EXCEPT ![p] =
                    [Blank EXCEPT !.path = q, !.mode = m, !.rmdir = d]]
    BY DEF Call
<1> DEFINE k == [Blank EXCEPT !.path = q, !.mode = m, !.rmdir = d]
<1>3. k.bin = 1
    BY DEF Blank
<1>4. pc' = [pc EXCEPT ![p] = x]
    BY DEF Call, Goto
<1>5. Justified(k, x)
    <2>1. CASE recycler = <<>>
        <3>1. \A i \in DOMAIN recycler : FALSE
            BY <2>1
        <3> QED BY <2>1, <3>1 DEF Justified
    <2>2. CASE recycler # <<>>
        BY <1>3, <2>2 DEF Justified, Settled, Cloning
    <2> QED BY <2>1, <2>2
<1> QED BY <1>1, <1>2, <1>4, <1>5, ProcessJustified

\* The choice of a bin is justified in every reachable state.
THEOREM ChoiceJustified == Spec => []ChoiceInv
<1>1. Init => ChoiceInv
    <2>1. Init => TypeOK
        BY InitType
    <2>2. Init => \A p \in Procs : Justified(call[p], pc[p])
        BY ReturnedJustified DEF Init, Returned
    <2> QED BY <2>1, <2>2 DEF ChoiceInv
<1>2. ChoiceInv /\ [Next]_vars => ChoiceInv'
    <2> SUFFICES ASSUME ChoiceInv, [Next]_vars PROVE ChoiceInv'
        OBVIOUS
    <2>1. TypeOK'
        BY NextType DEF ChoiceInv
    <2>2. CASE User
        <3>1. UNCHANGED <<recycler, pc, call>>
            BY <2>2 DEF User, Create, MakeDir, Symlink, HardLink, Chmod,
                        Empty, UserPut
        <3> QED BY <2>1, <3>1 DEF ChoiceInv, Justified, Malformed, Admitted,
                                  Bin, Arg
    <2>3. ASSUME NEW p \in Procs, Call(p) PROVE ChoiceInv'
        BY <2>3, CallChoice
    <2>4. ASSUME NEW p \in Procs, Step(p) PROVE ChoiceInv'
        BY <2>4, StepChoice
    <2>5. CASE UNCHANGED vars
        BY <2>1, <2>5 DEF ChoiceInv, Justified, Malformed, Admitted, Bin,
                          Arg, vars
    <2> QED BY <2>2, <2>3, <2>4, <2>5 DEF Next
<1> QED BY <1>1, <1>2, PTL DEF Spec

\* No deletion gets past a malformed entry, whatever device that entry is
\* for, and nothing is dropped to a bin whose limits or pattern exclude it.
THEOREM MalformedCancels == Spec => []MalformedEntryCancels
<1>1. ChoiceInv => MalformedEntryCancels
    BY DEF ChoiceInv, Justified, Admitted, MalformedEntryCancels, Settled
<1> QED BY <1>1, ChoiceJustified, PTL

-----------------------------------------------------------------------------
(* Paths and their beginnings *)

\* What the first names of a path are.
LEMMA PrefixIs ==
    ASSUME NEW q \in Seq(Names), NEW n \in Int, n <= Len(q)
    PROVE  /\ Prefix(q, n) \in Seq(Names)
           /\ Len(Prefix(q, n)) = IF 1 <= n THEN n ELSE 0
           /\ \A i \in 1..n : Prefix(q, n)[i] = q[i]
<1>1. \A i \in 1..n : q[i] \in Names
    BY ElementOfSeq
<1>2. /\ Prefix(q, n) \in Seq(Names)
      /\ Len(Prefix(q, n)) = IF 1 <= n THEN n - 1 + 1 ELSE 0
      /\ \A i \in 1..(n - 1 + 1) : Prefix(q, n)[i] = q[1 + i - 1]
    BY <1>1, SubSeqProperties DEF Prefix
<1> QED BY <1>2

\* What the names after them are.
LEMMA RestIs ==
    ASSUME NEW q \in Seq(Names), NEW i \in 0..Len(q)
    PROVE  /\ SubSeq(q, i + 1, Len(q)) \in Seq(Names)
           /\ Len(SubSeq(q, i + 1, Len(q))) = Len(q) - i
           /\ \A j \in 1..(Len(q) - i) :
                 SubSeq(q, i + 1, Len(q))[j] = q[i + j]
<1>1. PICK x \in Int, y \in Int : x = i + 1 /\ y = Len(q)
    OBVIOUS
<1>2. \A j \in x..y : q[j] \in Names
    BY <1>1, ElementOfSeq
<1>3. /\ SubSeq(q, x, y) \in Seq(Names)
      /\ Len(SubSeq(q, x, y)) = IF x <= y THEN y - x + 1 ELSE 0
      /\ \A j \in 1..(y - x + 1) : SubSeq(q, x, y)[j] = q[x + j - 1]
    BY <1>2, SubSeqProperties
<1> QED BY <1>1, <1>3

\* Two paths with as many names, and the same ones, are one path.
LEMMA SamePath ==
    ASSUME NEW q \in Seq(Names), NEW r \in Seq(Names), Len(q) = Len(r),
           \A i \in 1..Len(q) : q[i] = r[i]
    PROVE  q = r
BY SeqEqual

\* The beginning of a beginning is one of the path.
LEMMA PrefixOfPrefix ==
    ASSUME NEW q \in Seq(Names), NEW n \in Int, n <= Len(q), NEW i \in 0..n
    PROVE  Prefix(Prefix(q, n), i) = Prefix(q, i)
<1> DEFINE r == Prefix(q, n)
<1>1. r \in Seq(Names) /\ Len(r) = n /\ \A j \in 1..n : r[j] = q[j]
    BY PrefixIs
<1>2. /\ Prefix(q, i) \in Seq(Names) /\ Len(Prefix(q, i)) = i
      /\ \A j \in 1..i : Prefix(q, i)[j] = q[j]
    BY PrefixIs
<1> HIDE DEF r
<1>0. i \in Int /\ i <= Len(r) /\ 0 <= i
    BY <1>1
<1>3. /\ Prefix(r, i) \in Seq(Names) /\ Len(Prefix(r, i)) = i
      /\ \A j \in 1..i : Prefix(r, i)[j] = r[j]
    BY <1>0, <1>1, PrefixIs
<1>4. \A j \in 1..i : Prefix(r, i)[j] = Prefix(q, i)[j]
    BY <1>1, <1>2, <1>3
<1> QED BY <1>2, <1>3, <1>4, SamePath DEF r

\* A path is its own beginning.
LEMMA PrefixFull ==
    ASSUME NEW q \in Seq(Names)
    PROVE  Prefix(q, Len(q)) = q
BY SubSeqFull DEF Prefix

\* One more name changes no beginning.
LEMMA PrefixOfAppend ==
    ASSUME NEW q \in Seq(Names), NEW e \in Names, NEW i \in 0..Len(q)
    PROVE  Prefix(Append(q, e), i) = Prefix(q, i)
<1>1. PICK r \in Seq(Names) : r = Append(q, e)
    BY AppendProperties
<1>2. Len(r) = Len(q) + 1 /\ \A j \in 1..Len(q) : r[j] = q[j]
    BY <1>1, AppendProperties
<1>3. i \in Int /\ 0 <= i /\ i <= Len(q) /\ i <= Len(r)
    BY <1>2
<1>4. /\ Prefix(q, i) \in Seq(Names) /\ Len(Prefix(q, i)) = i
      /\ \A j \in 1..i : Prefix(q, i)[j] = q[j]
    BY <1>3, PrefixIs
<1>5. /\ Prefix(r, i) \in Seq(Names) /\ Len(Prefix(r, i)) = i
      /\ \A j \in 1..i : Prefix(r, i)[j] = r[j]
    BY <1>3, PrefixIs
<1>6. \A j \in 1..i : Prefix(r, i)[j] = Prefix(q, i)[j]
    BY <1>2, <1>4, <1>5
<1> QED BY <1>1, <1>4, <1>5, <1>6, SamePath

\* A path but the root is a name in its parent, and its parent is without it.
LEMMA NameInParent ==
    ASSUME NEW q \in Seq(Names), q # <<>>
    PROVE  /\ Parent(q) \in Seq(Names) /\ Len(Parent(q)) = Len(q) - 1
           /\ Last(q) \in Names /\ q = Append(Parent(q), Last(q))
<1>1. Len(q) \in Nat /\ Len(q) # 0
    BY EmptySeq
<1>2. /\ Parent(q) \in Seq(Names) /\ Len(Parent(q)) = Len(q) - 1
      /\ \A j \in 1..(Len(q) - 1) : Parent(q)[j] = q[j]
    BY <1>1, PrefixIs DEF Parent
<1>3. Last(q) \in Names /\ Last(q) = q[Len(q)]
    BY <1>1, ElementOfSeq DEF Last
<1> DEFINE r == Append(Parent(q), Last(q))
<1>4. /\ r \in Seq(Names) /\ Len(r) = Len(q)
      /\ \A j \in 1..Len(q) : r[j] = q[j]
    BY <1>1, <1>2, <1>3, AppendProperties
<1> QED BY <1>2, <1>3, <1>4, SamePath

\* The parent of a path with one name more.
LEMMA ParentOfAppend ==
    ASSUME NEW q \in Seq(Names), NEW e \in Names
    PROVE  Parent(Append(q, e)) = q
<1>1. Len(Append(q, e)) = Len(q) + 1 /\ Len(q) \in Nat
    BY AppendProperties
<1>2. Parent(Append(q, e)) = Prefix(Append(q, e), Len(q))
    BY <1>1 DEF Parent
<1> QED BY <1>1, <1>2, PrefixOfAppend, PrefixFull

-----------------------------------------------------------------------------
(* Links *)

\* A link has a target of the universe.
LEMMA LinkTarget ==
    ASSUME NEW t \in Tree, NEW q, At(t, q).kind = "lnk"
    PROVE  q \in Paths /\ t[q].to \in Paths /\ t[q].kind = "lnk"
<1>1. q \in Paths /\ At(t, q) = t[q]
    BY DEF At, None
<1>2. t[q] \in Node
    BY <1>1 DEF Tree
<1>3. PICK to \in Paths : t[q] = Link(to)
    BY <1>1, <1>2 DEF Node, None, Dir, Reg, Link
<1> QED BY <1>1, <1>3 DEF Link

\* One more name changes no link before it.
LEMMA LinksOfAppend ==
    ASSUME NEW t, NEW q \in Seq(Names), NEW e \in Names
    PROVE  LinksOn(t, Append(q, e), Len(q)) = LinksOn(t, q, Len(q))
<1>1. \A i \in 1..Len(q) : Prefix(Append(q, e), i) = Prefix(q, i)
    BY PrefixOfAppend
<1> QED BY <1>1, Zenon DEF LinksOn

\* A path whose first link is followed is a path.
LEMMA FollowType ==
    ASSUME NEW t \in Tree, NEW q \in Seq(Names)
    PROVE  Follow(t, q, Len(q)) \in Seq(Names)
<1> DEFINE S == LinksOn(t, q, Len(q))
<1>1. CASE S = {}
    BY <1>1 DEF Follow
<1>2. CASE S # {}
    <2>1. S \in SUBSET Nat
        BY DEF LinksOn
    <2>2. PICK i : i = Min(S)
        OBVIOUS
    <2>3. i \in 1..Len(q) /\ At(t, Prefix(q, i)).kind = "lnk"
        <3> HIDE DEF S
        <3>1. i \in S
            BY <1>2, <2>1, <2>2, MinIsLeast
        <3> QED BY <3>1 DEF S, LinksOn
    <2>4. t[Prefix(q, i)].to \in Seq(Names)
        BY <2>3, LinkTarget, FileTreeAssumption
    <2>5. SubSeq(q, i + 1, Len(q)) \in Seq(Names)
        <3>1. \A j \in (i + 1)..Len(q) : q[j] \in Names
            BY <2>3, ElementOfSeq
        <3>2. i + 1 \in Int /\ Len(q) \in Int
            BY <2>3
        <3> QED BY <3>1, <3>2, SubSeqProperties
    <2>6. Follow(t, q, Len(q)) =
            t[Prefix(q, i)].to \o SubSeq(q, i + 1, Len(q))
        BY <1>2, <2>2, Zenon DEF Follow
    <2> QED BY <2>4, <2>5, <2>6, ConcatProperties
<1> QED BY <1>1, <1>2

\* A link before the last name is followed in the parent.
LEMMA FollowOfAppend ==
    ASSUME NEW t \in Tree, NEW q \in Seq(Names), NEW e \in Names
    PROVE  Follow(t, Append(q, e), Len(q)) = Append(Follow(t, q, Len(q)), e)
<1> DEFINE S == LinksOn(t, q, Len(q))
           r == Append(q, e)
<1>0. LinksOn(t, r, Len(q)) = S
    BY LinksOfAppend
<1>1. CASE S = {}
    BY <1>0, <1>1 DEF Follow
<1>2. CASE S # {}
    <2>1. S \in SUBSET Nat
        BY DEF LinksOn
    <2>2. PICK i : i = Min(S)
        OBVIOUS
    <2>3. i \in 1..Len(q) /\ At(t, Prefix(q, i)).kind = "lnk"
        <3> HIDE DEF S
        <3>1. i \in S
            BY <1>2, <2>1, <2>2, MinIsLeast
        <3> QED BY <3>1 DEF S, LinksOn
    <2>4. t[Prefix(q, i)].to \in Seq(Names)
        BY <2>3, LinkTarget, FileTreeAssumption
    <2>5. Prefix(r, i) = Prefix(q, i)
        BY <2>3, PrefixOfAppend
    <2>6. /\ r \in Seq(Names) /\ Len(r) = Len(q) + 1 /\ r[Len(q) + 1] = e
          /\ \A j \in 1..Len(q) : r[j] = q[j]
        BY AppendProperties
    <2>7. PICK a \in Seq(Names) : a = t[Prefix(q, i)].to
        BY <2>4
    <2> DEFINE m == Len(q)
    <2>8. PICK b : b = SubSeq(q, i + 1, m)
        OBVIOUS
    <2>9. PICK c : c = SubSeq(r, i + 1, m + 1)
        OBVIOUS
    <2>10. m \in Nat /\ i \in Nat /\ i <= m
        BY <2>3
    <2>11. /\ b \in Seq(Names) /\ Len(b) = m - i
           /\ \A j \in 1..(m - i) : b[j] = q[i + j]
        BY <2>8, <2>10, RestIs
    <2>12. /\ c \in Seq(Names) /\ Len(c) = m + 1 - i
           /\ \A j \in 1..(m + 1 - i) : c[j] = r[i + j]
        <3>1. i \in 0..Len(r)
            BY <2>6, <2>10
        <3> QED BY <2>6, <2>9, <3>1, RestIs
    <2>13. c = Append(b, e)
        <3>1. /\ Append(b, e) \in Seq(Names) /\ Len(Append(b, e)) = m + 1 - i
              /\ \A j \in 1..(m - i) : Append(b, e)[j] = b[j]
              /\ Append(b, e)[m + 1 - i] = e
            BY <2>10, <2>11, AppendProperties
        <3>2. \A j \in 1..(m + 1 - i) : c[j] = Append(b, e)[j]
            <4> TAKE j \in 1..(m + 1 - i)
            <4>1. CASE j = m + 1 - i
                BY <2>6, <2>10, <2>12, <3>1, <4>1
            <4>2. CASE j # m + 1 - i
                <5>1. j \in 1..(m - i) /\ i + j \in 1..m
                    BY <2>10, <4>2
                <5> QED BY <2>6, <2>11, <2>12, <3>1, <5>1
            <4> QED BY <4>1, <4>2
        <3> QED BY <2>12, <3>1, <3>2, SamePath
    <2>14. a \o Append(b, e) = Append(a \o b, e)
        <3>1. \A s \in Seq(Names) : Append(s, e) = s \o <<e>>
            BY AppendIsConcat
        <3>2. <<e>> \in Seq(Names)
            OBVIOUS
        <3>3. a \o b \in Seq(Names)
            BY <2>11, ConcatProperties
        <3> QED BY <2>11, <3>1, <3>2, <3>3, ConcatAssociative
    <2>15. Follow(t, q, Len(q)) = a \o b
        BY <1>2, <2>2, <2>7, <2>8, Zenon DEF Follow
    <2>16. Follow(t, r, Len(q)) = t[Prefix(r, i)].to \o SubSeq(r, i + 1, Len(r))
        BY <1>0, <1>2, <2>2, Zenon DEF Follow
    <2> QED
        BY <2>5, <2>6, <2>7, <2>9, <2>13, <2>14, <2>15, <2>16
<1> QED BY <1>1, <1>2

-----------------------------------------------------------------------------
(* Canonical paths *)

\* What may be a link in a path: the last name too, or not.
Reach(q, deref) == IF deref THEN Len(q) ELSE Len(q) - 1

\* The paths that following one link after the other goes through.
Turn(t, deref, f, n) == Follow(t, f[n - 1], Reach(f[n - 1], deref))
Turns(t, q, deref, m) ==
    CHOOSE f : f = [n \in 0..m |-> IF n = 0 THEN q ELSE Turn(t, deref, f, n)]

\* Each of the paths is the one before with its first link followed.  There are
\* such paths for any number of links: for the first number for which there are
\* none there would be those of the number before, and one more.
LEMMA TurnsAre ==
    ASSUME NEW t, NEW q, NEW deref, NEW m \in Nat
    PROVE  /\ Turns(t, q, deref, m)[0] = q
           /\ \A n \in 1..m :
                 Turns(t, q, deref, m)[n] =
                    Turn(t, deref, Turns(t, q, deref, m), n)
<1> DEFINE P(k) == \E f : f = [n \in 0..k |->
                                IF n = 0 THEN q ELSE Turn(t, deref, f, n)]
<1>1. P(0)
    <2>1. PICK f : f = [n \in 0..0 |-> q]
        OBVIOUS
    <2>2. f = [n \in 0..0 |-> IF n = 0 THEN q ELSE Turn(t, deref, f, n)]
        BY <2>1
    <2> QED BY <2>2
<1>2. ASSUME NEW k \in Nat, P(k)
      PROVE  P(k + 1)
    <2>1. PICK g : g = [n \in 0..k |->
                            IF n = 0 THEN q ELSE Turn(t, deref, g, n)]
        BY <1>2
    <2>2. PICK f : f = [n \in 0..(k + 1) |->
                            IF n <= k THEN g[n] ELSE Turn(t, deref, g, n)]
        OBVIOUS
    <2>3. \A n \in 0..(k + 1) :
              f[n] = IF n = 0 THEN q ELSE Turn(t, deref, f, n)
        <3> TAKE n \in 0..(k + 1)
        <3>1. CASE n = 0
            BY <2>1, <2>2, <3>1
        <3>2. CASE n # 0
            <4>1. n - 1 \in 0..k /\ n - 1 <= k
                BY <3>2
            <4>2. f[n - 1] = g[n - 1]
                BY <2>2, <4>1
            <4>3. f[n] = Turn(t, deref, g, n)
                BY <2>1, <2>2, <3>2
            <4> QED BY <3>2, <4>2, <4>3 DEF Turn
        <3> QED BY <3>1, <3>2
    <2>4. f = [n \in 0..(k + 1) |-> f[n]]
        BY <2>2
    <2>5. f = [n \in 0..(k + 1) |->
                    IF n = 0 THEN q ELSE Turn(t, deref, f, n)]
        BY <2>3, <2>4, Zenon
    <2> QED BY <2>5
<1>3. ASSUME ~P(m)
      PROVE  FALSE
    <2> DEFINE Without == {n \in Nat : ~P(n)}
    <2> HIDE DEF P
    <2>1. m \in Without
        BY <1>3
    <2>2. PICK k \in Without : \A n \in Without : k <= n
        BY <2>1, LeastNatural
    <2>3. k - 1 \in Nat
        BY <1>1, <2>2
    <2>4. P(k - 1)
        BY <2>2, <2>3
    <2>5. k - 1 + 1 = k
        BY <2>2
    <2> QED BY <1>2, <2>2, <2>3, <2>4, <2>5
<1>4. PICK f : f = Turns(t, q, deref, m)
    OBVIOUS
<1>5. f = [n \in 0..m |-> IF n = 0 THEN q ELSE Turn(t, deref, f, n)]
    BY <1>3, <1>4, Zenon DEF Turns
<1>6. \A n \in 0..m : f[n] = IF n = 0 THEN q ELSE Turn(t, deref, f, n)
    BY <1>5
<1>7. 0 \in 0..m /\ \A n \in 1..m : n \in 0..m /\ n # 0
    OBVIOUS
<1> QED BY <1>4, <1>6, <1>7, Zenon

\* The canonical path is the last of them.
LEMMA CanonIs ==
    ASSUME NEW t, NEW q, NEW deref
    PROVE  Canon(t, q, deref) =
              IF LinksOn(t, q, Reach(q, deref)) = {} THEN q
              ELSE Turns(t, q, deref, MaxLinks)[MaxLinks]
BY Zenon DEF Canon, Reach, Turns, Turn

\* The canonical path of a name is that of its directory, with the name: lstat
\* and realpath agree on where a file is.
LEMMA CanonOfAppend ==
    ASSUME NEW t \in Tree, NEW q \in Seq(Names), NEW e \in Names
    PROVE  Canon(t, Append(q, e), FALSE) = Append(Canon(t, q, TRUE), e)
<1>0. MaxLinks \in Nat
    BY FileTreeAssumption
<1>1. PICK yes, no : yes = TRUE /\ no = FALSE
    OBVIOUS
<1>2. \A r : Reach(r, yes) = Len(r) /\ Reach(r, no) = Len(r) - 1
    BY <1>1 DEF Reach
<1>3. PICK r \in Seq(Names) : r = Append(q, e)
    BY AppendProperties
<1>4. Len(r) - 1 = Len(q) /\ LinksOn(t, r, Len(r) - 1) = LinksOn(t, q, Len(q))
    BY <1>3, AppendProperties, LinksOfAppend
<1>5. /\ Canon(t, q, yes) = IF LinksOn(t, q, Len(q)) = {} THEN q
                            ELSE Turns(t, q, yes, MaxLinks)[MaxLinks]
      /\ Canon(t, r, no) = IF LinksOn(t, q, Len(q)) = {} THEN r
                           ELSE Turns(t, r, no, MaxLinks)[MaxLinks]
    BY <1>2, <1>4, CanonIs
<1>6. CASE LinksOn(t, q, Len(q)) = {}
    BY <1>1, <1>3, <1>5, <1>6
<1>7. CASE LinksOn(t, q, Len(q)) # {}
    <2>1. PICK f : f = Turns(t, q, yes, MaxLinks)
        OBVIOUS
    <2>2. PICK g : g = Turns(t, r, no, MaxLinks)
        OBVIOUS
    <2>3. /\ f[0] = q
          /\ \A n \in 1..MaxLinks : f[n] = Follow(t, f[n - 1], Len(f[n - 1]))
        <3>1. f[0] = q /\ \A n \in 1..MaxLinks : f[n] = Turn(t, yes, f, n)
            BY <1>0, <2>1, TurnsAre
        <3> QED BY <1>2, <3>1 DEF Turn
    <2>4. /\ g[0] = r
          /\ \A n \in 1..MaxLinks :
                g[n] = Follow(t, g[n - 1], Len(g[n - 1]) - 1)
        <3>1. g[0] = r /\ \A n \in 1..MaxLinks : g[n] = Turn(t, no, g, n)
            BY <1>0, <2>2, TurnsAre
        <3> QED BY <1>2, <3>1 DEF Turn
    <2> DEFINE Apart == {n \in 0..MaxLinks :
                         ~(f[n] \in Seq(Names) /\ g[n] = Append(f[n], e))}
    <2>5. ASSUME Apart # {}
          PROVE  FALSE
        <3>0. Apart \in SUBSET Nat
            OBVIOUS
        <3>1. PICK n \in Apart : \A k \in Apart : n <= k
            BY <2>5, <3>0, LeastNatural, Zenon
        <3>2. n # 0
            BY <1>3, <2>3, <2>4, <3>1
        <3>3. n \in 1..MaxLinks /\ n - 1 \in 0..MaxLinks /\ ~(n <= n - 1)
            <4>1. n \in 0..MaxLinks
                BY <3>1
            <4> HIDE DEF Apart
            <4> QED BY <1>0, <3>2, <4>1
        <3>4. f[n - 1] \in Seq(Names) /\ g[n - 1] = Append(f[n - 1], e)
            BY <3>1, <3>3
        <3>5. PICK c \in Seq(Names) : c = f[n - 1]
            BY <3>4
        <3>6. Len(Append(c, e)) - 1 = Len(c)
            BY AppendProperties
        <3>7. /\ f[n] = Follow(t, c, Len(c))
              /\ g[n] = Follow(t, Append(c, e), Len(c))
            BY <2>3, <2>4, <3>3, <3>4, <3>5, <3>6
        <3>8. /\ Follow(t, c, Len(c)) \in Seq(Names)
              /\ Follow(t, Append(c, e), Len(c)) =
                    Append(Follow(t, c, Len(c)), e)
            BY FollowType, FollowOfAppend
        <3>9. f[n] \in Seq(Names) /\ g[n] = Append(f[n], e)
            BY <3>7, <3>8
        <3> QED BY <3>1, <3>9
    <2>6. g[MaxLinks] = Append(f[MaxLinks], e)
        <3>1. MaxLinks \in 0..MaxLinks
            BY <1>0
        <3> QED BY <2>5, <3>1
    <2> QED BY <1>1, <1>3, <1>5, <1>7, <2>1, <2>2, <2>6
<1> QED BY <1>6, <1>7

\* A path none of whose beginnings is a link.
Straight(t, q) == LinksOn(t, q, Len(q)) = {}

\* Such a path is canonical, and so are its beginnings.
LEMMA StraightPrefix ==
    ASSUME NEW t, NEW q \in Seq(Names), Straight(t, q),
           NEW n \in Int, n <= Len(q)
    PROVE  Canon(t, Prefix(q, n), TRUE) = Prefix(q, n)
<1>1. PICK r \in Seq(Names) :
          /\ r = Prefix(q, n) /\ Len(r) = IF 1 <= n THEN n ELSE 0
    BY PrefixIs
<1>2. ASSUME NEW i \in 1..Len(r)
      PROVE  Prefix(r, i) = Prefix(q, i) /\ i \in 1..Len(q)
    <2>1. i \in 0..n /\ i \in 1..Len(q)
        BY <1>1, <1>2
    <2> QED BY <1>1, <2>1, PrefixOfPrefix
<1>3. \A i \in 1..Len(q) : ~(At(t, Prefix(q, i)).kind = "lnk")
    BY DEF Straight, LinksOn
<1>4. LinksOn(t, r, Len(r)) = {}
    BY <1>2, <1>3 DEF LinksOn
<1> QED BY <1>1, <1>4, CanonIs DEF Reach

\* stat finds nothing at the end of links that lead nowhere: what it finds is
\* at a canonical path in which no link is left.
LEMMA LookupStraight ==
    ASSUME NEW t \in Tree, NEW q, Lookup(t, q, TRUE) # None
    PROVE  Canon(t, q, TRUE) \in Paths /\ Straight(t, Canon(t, q, TRUE))
<1>1. PICK c : c = Canon(t, q, TRUE)
    OBVIOUS
<1>2. c \in Paths
    BY <1>1, LookupType
<1>3. PathErr(t, c) = "ok" /\ At(t, c).kind # "lnk"
    BY <1>1 DEF Lookup
<1>4. {i \in 0..(Len(c) - 1) : At(t, Prefix(c, i)).kind # "dir"} = {}
    BY <1>3, Zenon DEF PathErr
<1>5. c \in Seq(Names)
    BY <1>2, FileTreeAssumption
<1>6. ASSUME NEW i \in 1..Len(c)
      PROVE  At(t, Prefix(c, i)).kind # "lnk"
    <2>1. CASE i = Len(c)
        BY <1>3, <1>5, <2>1, PrefixFull
    <2>2. CASE i # Len(c)
        <3>1. i \in 0..(Len(c) - 1)
            BY <2>2
        <3> QED BY <1>4, <3>1
    <2> QED BY <2>1, <2>2
<1> QED BY <1>1, <1>2, <1>6 DEF Straight, LinksOn

-----------------------------------------------------------------------------
(* The way up to the mount point *)

\* No file system is mounted below a directory of itself.
OneMount ==
    \A q \in Paths : \A i, j \in 0..Len(q) :
        i <= j /\ Dev[Prefix(q, i)] = Dev[q] => Dev[Prefix(q, j)] = Dev[q]

\* There are no links, or nobody does anything while a call is in progress.
NoLinks ==
    "symlink" \notin UserOps /\ \A q \in Paths : InitTree[q].kind # "lnk"
Alone == ~Concurrent /\ \A p, q \in Procs : p = q

Unlinked(t) == \A q \in Paths : t[q].kind # "lnk"

\* Where the tree must stay as a call has seen it.
Looking == {"choose", "resolve", "walk"}
SameView(t, u) == t = u \/ (Unlinked(t) /\ Unlinked(u))

\* What a call with the variables l has found out in the tree t: the device of
\* what it deletes, the bin, and the directories it has passed on its way up.
FileSeen(t, l) ==
    \A c \in {Canon(t, l.path, FALSE)} : c \in Paths /\ Dev[c] = l.dev
BinSeen(t, l) ==
    /\ Bin(l).dir \in Paths
    /\ \A c \in {Canon(t, Bin(l).dir, TRUE)} :
            Dev[c] = l.dev /\ Ino[c] = l.ino
Walked(t, l) ==
    /\ l.fq \in Paths /\ l.fq # <<>> /\ Straight(t, Parent(l.fq))
    /\ l.mp <= Len(l.fq)
    /\ \A i \in l.mp..Len(l.fq) : Dev[Prefix(l.fq, i)] = l.dev
    /\ \A i \in l.mp..(Len(l.fq) - 1) : Ino[Prefix(l.fq, i)] # l.ino
MountFound(l) == l.mp = MountLen(l.fq) /\ ~UnderDir(Bin(l).dir, l.fq)

WalkOk(t, l, x) ==
    /\ x \in {"fstatat", "choose"} => recycler # <<>>
    /\ x \in {"choose", "resolve"} => FileSeen(t, l)
    /\ x \in {"resolve", "walk"} => BinSeen(t, l)
    /\ x = "walk" => Walked(t, l)
    /\ x \in Cloning \cup {"rename"} => MountFound(l)

WalkInv ==
    /\ NoLinks => Unlinked(tree)
    /\ \A p \in Procs : WalkOk(tree, call[p], pc[p])

\* Where there are no links every path is canonical.
LEMMA UnlinkedCanon ==
    ASSUME NEW t, Unlinked(t), NEW q, NEW deref
    PROVE  Canon(t, q, deref) = q /\ Straight(t, q)
<1>1. \A r : At(t, r).kind # "lnk"
    BY DEF Unlinked, At, None
<1>2. \A n : LinksOn(t, q, n) = {}
    BY <1>1, Zenon DEF LinksOn
<1> QED BY <1>2, CanonIs, Zenon DEF Straight

\* Two trees without links are the same to whoever looks for a path.
LEMMA ViewStays ==
    ASSUME NEW t, NEW u, SameView(t, u), NEW l, NEW x, WalkOk(t, l, x)
    PROVE  WalkOk(u, l, x)
<1>1. CASE t = u
    BY <1>1
<1>2. CASE Unlinked(t) /\ Unlinked(u)
    <2>1. \A q, d : Canon(u, q, d) = Canon(t, q, d)
        <3> SUFFICES ASSUME NEW q, NEW d
                     PROVE  Canon(u, q, d) = Canon(t, q, d)
            OBVIOUS
        <3>1. Canon(u, q, d) = q
            BY <1>2, UnlinkedCanon, Zenon
        <3>2. Canon(t, q, d) = q
            BY <1>2, UnlinkedCanon, Zenon
        <3> QED BY <3>1, <3>2
    <2>2. \A q : Straight(u, q) <=> Straight(t, q)
        BY <1>2, UnlinkedCanon, Zenon
    <2>3. FileSeen(t, l) => FileSeen(u, l)
        BY <2>1, Zenon DEF FileSeen
    <2>4. BinSeen(t, l) => BinSeen(u, l)
        BY <2>1, Zenon DEF BinSeen
    <2>5. Walked(t, l) => Walked(u, l)
        BY <2>2, Zenon DEF Walked
    <2> QED BY <2>3, <2>4, <2>5 DEF WalkOk
<1> QED BY <1>1, <1>2 DEF SameView

\* When the walk ends at another device, or at the root, it ends at the mount
\* point, and has passed the bin if it is above the file.
LEMMA WalkEnds ==
    ASSUME OneMount, NEW t, NEW l, l.mp \in Nat, Walked(t, l), BinSeen(t, l),
           l.mp = 0 \/ Dev[Prefix(l.fq, l.mp - 1)] # l.dev
    PROVE  MountFound(l)
<1>1. PICK q \in Paths : q = l.fq
    BY DEF Walked
<1>2. PICK m \in Nat : m = l.mp
    OBVIOUS
<1>3. PICK n \in Nat : n = Len(q)
    BY FileTreeAssumption
<1>4. PICK dev, ino : dev = l.dev /\ ino = l.ino
    OBVIOUS
<1>5. q \in Seq(Names)
    BY FileTreeAssumption
<1>6. /\ q # <<>> /\ Straight(t, Parent(q)) /\ m <= n
      /\ \A i \in m..n : Dev[Prefix(q, i)] = dev
      /\ \A i \in m..(n - 1) : Ino[Prefix(q, i)] # ino
    BY <1>1, <1>2, <1>3, <1>4 DEF Walked
<1>7. m = 0 \/ Dev[Prefix(q, m - 1)] # dev
    BY <1>1, <1>2, <1>4
<1>8. \A i \in 1..n : /\ Prefix(q, i) # <<>>
                      /\ Parent(Prefix(q, i)) = Prefix(q, i - 1)
    <2> SUFFICES ASSUME NEW i \in 1..n
                 PROVE  /\ Prefix(q, i) # <<>>
                        /\ Parent(Prefix(q, i)) = Prefix(q, i - 1)
        OBVIOUS
    <2>1. i \in Int /\ i <= Len(q) /\ i - 1 \in 0..i
        BY <1>3
    <2>2. Len(Prefix(q, i)) = i
        BY <1>5, <2>1, PrefixIs
    <2>3. Prefix(Prefix(q, i), i - 1) = Prefix(q, i - 1)
        BY <1>5, <2>1, PrefixOfPrefix
    <2>4. Prefix(q, i) # <<>>
        BY <2>2
    <2> QED BY <2>2, <2>3, <2>4 DEF Parent
<1>9. m = MountLen(q)
    <2> DEFINE S == {i \in 0..Len(q) : IsMount(Prefix(q, i))}
    <2>1. m \in S
        <3>1. CASE m = 0
            <4>1. Prefix(q, 0) = <<>>
                BY SubSeqEmpty DEF Prefix
            <4> QED BY <1>3, <3>1, <4>1 DEF IsMount
        <3>2. CASE m # 0
            <4>1. m \in 1..n /\ m \in m..n
                BY <1>6, <3>2
            <4>2. Dev[Prefix(q, m)] # Dev[Parent(Prefix(q, m))]
                BY <1>6, <1>7, <1>8, <3>2, <4>1
            <4> QED BY <1>3, <4>1, <4>2 DEF IsMount
        <3> QED BY <3>1, <3>2
    <2>2. ASSUME NEW i \in S
          PROVE  i <= m
        <3>1. i \in 0..n /\ IsMount(Prefix(q, i))
            BY <1>3, <2>2
        <3>2. ASSUME ~(i <= m)
              PROVE  FALSE
            <4>1. i \in 1..n /\ i \in m..n /\ i - 1 \in m..n
                BY <3>1, <3>2
            <4>2. Dev[Prefix(q, i)] = Dev[Parent(Prefix(q, i))]
                BY <1>6, <1>8, <4>1
            <4> QED BY <1>8, <3>1, <4>1, <4>2 DEF IsMount
        <3> QED BY <3>2
    <2>3. S \in SUBSET Nat
        OBVIOUS
    <2> HIDE DEF S
    <2>4. PICK x : x = Max(S)
        OBVIOUS
    <2>5. x \in S /\ \A y \in S : x >= y
        BY <2>1, <2>2, <2>3, <2>4, MaxIsGreatest
    <2>6. x = m
        BY <2>1, <2>2, <2>3, <2>5
    <2> QED BY <2>4, <2>6, Zenon DEF MountLen, S
<1>10. ASSUME UnderDir(Bin(l).dir, q)
       PROVE  FALSE
    <2>1. PICK b \in Paths : b = Bin(l).dir
        BY DEF BinSeen
    <2>2. PICK k \in Nat : k = Len(b)
        BY FileTreeAssumption
    <2>3. b \in Seq(Names)
        BY FileTreeAssumption
    <2>4. k <= n /\ Prefix(b, k) = Prefix(q, k) /\ b # q
        BY <1>3, <1>10, <2>1, <2>2
           DEF UnderDir, IsStrictPrefix, IsPrefix, Prefix
    <2>5. b = Prefix(q, k) /\ k # n
        BY <1>3, <1>5, <2>2, <2>3, <2>4, PrefixFull
    <2>6. PICK d \in Seq(Names) : d = Parent(q)
        BY <1>5, <1>6, NameInParent
    <2>7. Len(d) = n - 1 /\ k \in 0..(n - 1)
        <3>1. Len(d) = n - 1
            BY <1>3, <1>5, <1>6, <2>6, NameInParent
        <3>2. k <= n /\ k # n
            BY <2>4, <2>5
        <3> QED BY <3>1, <3>2
    <2>8. b = Prefix(d, k)
        <3>1. d = Prefix(q, n - 1)
            BY <1>3, <2>6 DEF Parent
        <3>2. n - 1 \in Int /\ n - 1 <= Len(q)
            BY <1>3
        <3> QED BY <1>5, <2>5, <2>7, <3>1, <3>2, PrefixOfPrefix
    <2>9. Canon(t, b, TRUE) = b
        <3>1. k \in Int /\ k <= Len(d)
            BY <2>7
        <3> QED BY <1>6, <2>6, <2>8, <3>1, StraightPrefix
    <2>10. Dev[b] = dev /\ Ino[b] = ino
        BY <1>4, <2>1, <2>9 DEF BinSeen
    <2>11. CASE m <= k
        <3>1. k \in m..(n - 1)
            BY <2>7, <2>11
        <3> QED BY <1>6, <2>5, <2>10, <3>1
    <2>12. CASE ~(m <= k)
        <3>1. m # 0 /\ k \in 0..n /\ m - 1 \in 0..n /\ k <= m - 1
            BY <1>6, <2>12
        <3>2. Dev[q] = dev
            <4>1. n \in m..n
                BY <1>6
            <4> QED BY <1>3, <1>5, <1>6, <4>1, PrefixFull
        <3>3. Dev[Prefix(q, m - 1)] = Dev[q]
            BY <1>3, <2>5, <2>10, <3>1, <3>2 DEF OneMount
        <3> QED BY <1>7, <3>1, <3>2, <3>3
    <2> QED BY <2>11, <2>12
<1> QED BY <1>1, <1>2, <1>9, <1>10 DEF MountFound

-----------------------------------------------------------------------------
(* No step makes a link, or nobody looks *)

\* A tree without links stays so when what is put into it is none.
LEMMA UnlinkedPut ==
    ASSUME NEW t \in Tree, Unlinked(t), NEW c, NEW n, n.kind # "lnk"
    PROVE  Unlinked([t EXCEPT ![c] = n])
BY DEF Unlinked, Tree

\* What the steps of a call do to the tree: a directory is made or gets a mode,
\* something goes, a file gets another name.
LEMMA StepTree ==
    ASSUME TypeOK, NEW p \in Procs, Step(p)
    PROVE  \/ tree' = tree
           \/ /\ pc[p] \notin Looking
              /\ \/ \E c, w : tree' = [tree EXCEPT ![c] = Dir(w)]
                 \/ \E c : tree' = [tree EXCEPT ![c] = None]
                 \/ \E q, r : /\ RenameErr(tree, q, r) = "ok"
                              /\ tree' = Renamed(tree, q, r)
<1>1. CASE Mkdir(p)
    BY <1>1 DEF Mkdir, Put, Looking
<1>2. CASE RmParent(p)
    BY <1>2 DEF RmParent, Removed, Put, Looking
<1>3. CASE StatDst(p) \/ ChmodDst(p)
    BY <1>3 DEF StatDst, ChmodDst, Chmoded, Looking
<1>4. CASE RmDst(p)
    BY <1>4 DEF RmDst, Removed, Put, Looking
<1>5. CASE Rename(p)
    BY <1>5 DEF Rename, RenameOk, Looking
<1>6. CASE RealUnlink(p)
    BY <1>6 DEF RealUnlink, Removed, Put, Looking
<1>7. CASE Fstatat(p) \/ BadOption(p) \/ TakeBin(p) \/ SkipBin(p)
           \/ AtDirFails(p) \/ RealpathFails(p) \/ Resolve(p) \/ WalkUp(p)
           \/ DonorStat(p)
    BY <1>7 DEF Fstatat, BadOption, TakeBin, SkipBin, AtDirFails,
                RealpathFails, Resolve, WalkUp, DonorStat
<1> QED BY <1>1, <1>2, <1>3, <1>4, <1>5, <1>6, <1>7 DEF Step

\* Where there are no links there will be none.
LEMMA UnlinkedStays ==
    ASSUME TypeOK, NoLinks, Unlinked(tree), [Next]_vars
    PROVE  Unlinked(tree')
<1>0. tree \in Tree
    BY DEF TypeOK
<1>1. ASSUME NEW p \in Procs, Step(p)
      PROVE  Unlinked(tree')
    <2>1. CASE tree' = tree
        BY <2>1
    <2>2. CASE \E c, w : tree' = [tree EXCEPT ![c] = Dir(w)]
        <3>1. \A w : Dir(w).kind # "lnk"
            BY DEF Dir
        <3>2. PICK c, n : n.kind # "lnk" /\ tree' = [tree EXCEPT ![c] = n]
            BY <2>2, <3>1
        <3> QED BY <1>0, <3>2, UnlinkedPut
    <2>3. CASE \E c : tree' = [tree EXCEPT ![c] = None]
        <3>1. None.kind # "lnk"
            BY DEF None
        <3>2. PICK c, n : n.kind # "lnk" /\ tree' = [tree EXCEPT ![c] = n]
            BY <2>3, <3>1
        <3> QED BY <1>0, <3>2, UnlinkedPut
    <2>4. CASE \E q, r : /\ RenameErr(tree, q, r) = "ok"
                         /\ tree' = Renamed(tree, q, r)
        <3>1. PICK q, r : /\ RenameErr(tree, q, r) = "ok"
                          /\ tree' = Renamed(tree, q, r)
            BY <2>4
        <3>2. PICK co, cn : co = Canon(tree, q, FALSE)
                            /\ cn = Canon(tree, r, FALSE)
            OBVIOUS
        <3>3. tree' = tree
              \/ tree' = [tree EXCEPT ![cn] = tree[co], ![co] = None]
            BY <3>1, <3>2 DEF Renamed
        <3>4. co \in Paths
            <4>1. At(tree, co).kind # "none"
                BY <3>1, <3>2 DEF RenameErr
            <4>2. None.kind = "none"
                BY DEF None
            <4> QED BY <4>1, <4>2, AtPath
        <3>5. tree[co].kind # "lnk" /\ tree[co] \in Node /\ None.kind # "lnk"
            BY <1>0, <3>4 DEF Unlinked, None, Tree
        <3>6. PICK u : u = [tree EXCEPT ![cn] = tree[co]]
            OBVIOUS
        <3>7. u \in Tree /\ Unlinked(u)
            BY <1>0, <3>5, <3>6, PutType, UnlinkedPut
        <3>8. Unlinked([u EXCEPT ![co] = None])
            BY <3>5, <3>7, UnlinkedPut
        <3>9. [tree EXCEPT ![cn] = tree[co], ![co] = None] =
                [u EXCEPT ![co] = None]
            BY <3>6
        <3> QED BY <3>3, <3>8, <3>9
    <2> QED BY <1>1, <2>1, <2>2, <2>3, <2>4, StepTree
<1>2. CASE User
    <2>1. ~Symlink
        BY DEF Symlink, UserMay, NoLinks
    <2>2. \E q, n : n.kind # "lnk" /\ tree' = [tree EXCEPT ![q] = n]
        <3>1. CASE Create
            <4>1. \A f : Reg(f).kind # "lnk"
                BY DEF Reg
            <4> QED BY <3>1, <4>1 DEF Create, UserPut
        <3>2. CASE MakeDir \/ Chmod
            <4>1. \A w : Dir(w).kind # "lnk"
                BY DEF Dir
            <4> QED BY <3>2, <4>1 DEF MakeDir, Chmod, UserPut
        <3>3. CASE HardLink
            <4>1. PICK q \in LinkPaths, old \in Paths :
                        tree[old].kind = "reg" /\ UserPut(q, tree[old])
                BY <3>3 DEF HardLink
            <4> QED BY <4>1 DEF UserPut
        <3>4. CASE Empty
            <4>1. None.kind # "lnk"
                BY DEF None
            <4> QED BY <3>4, <4>1 DEF Empty, UserPut
        <3> QED BY <1>2, <2>1, <3>1, <3>2, <3>3, <3>4 DEF User
    <2>3. PICK q, n : n.kind # "lnk" /\ tree' = [tree EXCEPT ![q] = n]
        BY <2>2
    <2> QED BY <1>0, <2>3, UnlinkedPut
<1>3. CASE (\E p \in Procs : Call(p)) \/ UNCHANGED vars
    BY <1>3 DEF Call, vars
<1> QED BY <1>1, <1>2, <1>3 DEF Next

\* While a call looks for its way the tree stays as it has seen it.
LEMMA ViewKept ==
    ASSUME TypeOK, NoLinks \/ Alone, NoLinks => Unlinked(tree), [Next]_vars,
           NEW p \in Procs, pc[p] \in Looking
    PROVE  SameView(tree, tree')
<1>1. CASE NoLinks
    BY <1>1, UnlinkedStays DEF SameView
<1>2. CASE Alone
    <2>1. pc[p] \notin Returned
        BY DEF Looking, Returned
    <2>2. ~User
        BY <1>2, <2>1 DEF Alone, User, Create, MakeDir, Symlink, HardLink,
                          Chmod, Empty, UserMay, Idle
    <2>3. \A q \in Procs : Call(q) \/ Step(q) => tree' = tree
        <3> SUFFICES ASSUME NEW q \in Procs, Call(q) \/ Step(q)
                     PROVE  tree' = tree
            OBVIOUS
        <3>1. q = p
            BY <1>2 DEF Alone
        <3> QED BY <3>1, StepTree DEF Call
    <2> QED BY <2>2, <2>3 DEF Next, SameView, vars
<1> QED BY <1>1, <1>2

-----------------------------------------------------------------------------
(* Every step keeps what was found on the way *)

\* What holds between a state and the next one in this section.
Between ==
    /\ TypeOK /\ TypeOK' /\ recycler' = recycler /\ WalkInv
    /\ NoLinks => Unlinked(tree')
    /\ \A q \in Procs : pc[q] \in Looking => SameView(tree, tree')

\* One process moves to where it has found out enough, the others stay.
LEMMA ProcessWalks ==
    ASSUME Between, NEW p \in Procs, NEW l, NEW x,
           pc' = [pc EXCEPT ![p] = x], call' = [call EXCEPT ![p] = l],
           WalkOk(tree', l, x)
    PROVE  WalkInv'
<1> SUFFICES ASSUME NEW q \in Procs
             PROVE  WalkOk(tree, call[q], pc[q])'
    BY DEF WalkInv, Between, Unlinked
<1>1. (q = p => call'[q] = l /\ pc'[q] = x)
      /\ (q # p => call'[q] = call[q] /\ pc'[q] = pc[q])
    BY DEF Between, TypeOK
<1>2. WalkOk(tree', call'[q], pc'[q])
    <2>1. CASE q = p
        BY <1>1, <2>1
    <2>2. CASE q # p /\ pc[q] \in Looking
        <3>1. WalkOk(tree, call[q], pc[q]) /\ SameView(tree, tree')
            BY <2>2 DEF Between, WalkInv
        <3> QED BY <1>1, <2>2, <3>1, ViewStays
    <2>3. CASE q # p /\ pc[q] \notin Looking
        <3>1. WalkOk(tree, call[q], pc[q])
            BY DEF Between, WalkInv
        <3> QED BY <1>1, <2>3, <3>1 DEF WalkOk, Looking
    <2> QED BY <2>1, <2>2, <2>3
<1>3. recycler' = recycler
    BY DEF Between
<1> QED BY <1>2, <1>3 DEF WalkOk, FileSeen, BinSeen, Walked, MountFound, Bin

\* A call that has returned, or goes on to unlink, has nothing to know.
LEMMA ReturnWalks ==
    ASSUME Between, NEW p \in Procs, NEW x \in Returned, Return(p, x)
    PROVE  WalkInv'
<1>1. WalkOk(tree', Blank, x)
    BY DEF WalkOk, Returned, Cloning
<1> QED BY <1>1, ProcessWalks DEF Return, Goto

\* A call that has the mount point keeps it.
LEMMA CloneWalks ==
    ASSUME Between, NEW p \in Procs, pc[p] \in Cloning,
           NEW x \in Cloning \cup {"rename", "real"}, NEW k,
           pc' = [pc EXCEPT ![p] = x], call' = [call EXCEPT ![p] = k],
           k.bin = call[p].bin, k.fq = call[p].fq, k.mp = call[p].mp
    PROVE  WalkInv'
<1>1. MountFound(call[p])
    BY DEF Between, WalkInv, WalkOk
<1>2. MountFound(k)
    BY <1>1 DEF MountFound, Bin
<1>3. WalkOk(tree', k, x)
    BY <1>2 DEF WalkOk, Cloning
<1> QED BY <1>3, ProcessWalks

\* The same when the variables of the call do not change.
LEMMA CloneGoto ==
    ASSUME Between, NEW p \in Procs, pc[p] \in Cloning,
           NEW x \in Cloning, Goto(p, x), call' = call
    PROVE  WalkInv'
<1>1. call' = [call EXCEPT ![p] = call[p]]
    BY DEF Between, TypeOK
<1> QED BY <1>1, CloneWalks DEF Goto

\* The end of a clone, nested or not.
LEMMA CloneDoneWalks ==
    ASSUME Between, NEW p \in Procs, pc[p] \in Cloning, CloneDone(p)
    PROVE  WalkInv'
<1> DEFINE l == call[p]
<1>1. l \in Calls
    BY DEF Between, TypeOK
<1>2. PICK s : \E x \in {"mkdir", "real", "rename"} :
            /\ pc' = [pc EXCEPT ![p] = x]
            /\ call' = [call EXCEPT ![p] = [l EXCEPT !.modes = s]]
    <2>1. CASE Len(l.modes) > 1
        <3>1. /\ pc' = [pc EXCEPT ![p] = "mkdir"]
              /\ call' = [call EXCEPT ![p] = [l EXCEPT !.modes = Front(@)]]
            BY <2>1 DEF CloneDone, Goto
        <3> QED BY <3>1
    <2>2. CASE ~(Len(l.modes) > 1)
        <3> DEFINE x == IF l.st.kind = "dir" THEN "real" ELSE "rename"
        <3>1. /\ pc' = [pc EXCEPT ![p] = x]
              /\ call' = [call EXCEPT ![p] = [l EXCEPT !.modes = <<>>]]
            BY <2>2 DEF CloneDone, Goto
        <3> QED BY <3>1
    <2> QED BY <2>1, <2>2
<1> DEFINE k == [l EXCEPT !.modes = s]
<1>0. PICK x \in {"mkdir", "real", "rename"} :
            pc' = [pc EXCEPT ![p] = x] /\ call' = [call EXCEPT ![p] = k]
    BY <1>2
<1>3. k.bin = l.bin /\ k.fq = l.fq /\ k.mp = l.mp
    BY <1>1 DEF Calls
<1>4. x \in Cloning \cup {"rename", "real"}
    BY DEF Cloning
<1> QED BY <1>0, <1>3, <1>4, CloneWalks

\* realpath of the directory and the name are where lstat has found the file,
\* so the walk begins on its device.
LEMMA ResolveWalks ==
    ASSUME Between, NEW p \in Procs, Resolve(p)
    PROVE  WalkInv'
<1> DEFINE l == call[p]
<1>1. /\ l \in Calls /\ tree \in Tree /\ pc[p] = "resolve" /\ tree' = tree
      /\ l.path \in CallPaths
    BY DEF Between, TypeOK, Resolve, InCall
<1>2. PICK path \in Seq(Names) : path = l.path /\ path # <<>>
    BY <1>1, RecyclixAssumption
<1>3. PICK dir : dir = Canon(tree, Parent(path), TRUE)
    OBVIOUS
<1>4. PICK e \in Names : e = Last(path)
    BY <1>2, NameInParent
<1>5. dir \in Paths /\ Straight(tree, dir)
    BY <1>1, <1>2, <1>3, LookupStraight DEF Resolve
<1>6. dir \in Seq(Names)
    BY <1>5, FileTreeAssumption
<1>7. PICK fq \in Seq(Names) : fq = Append(dir, e)
    BY <1>6, AppendProperties
<1> DEFINE k == [l EXCEPT !.fq = fq, !.mp = Len(fq)]
<1>8. call' = [call EXCEPT ![p] = k] /\ pc' = [pc EXCEPT ![p] = "walk"]
    BY <1>2, <1>3, <1>4, <1>7 DEF Resolve, Goto
<1>9. /\ k.bin = l.bin /\ k.dev = l.dev /\ k.ino = l.ino /\ k.path = l.path
      /\ k.fq = fq /\ k.mp = Len(fq)
    BY <1>1 DEF Calls
<1>10. fq = Canon(tree, path, FALSE)
    <2>1. PICK up \in Seq(Names) : up = Parent(path) /\ path = Append(up, e)
        BY <1>2, <1>4, NameInParent
    <2> QED BY <1>1, <1>3, <1>7, <2>1, CanonOfAppend
<1>11. FileSeen(tree, l) /\ BinSeen(tree, l)
    BY <1>1 DEF Between, WalkInv, WalkOk
<1>12. fq \in Paths /\ Dev[fq] = l.dev
    BY <1>2, <1>10, <1>11 DEF FileSeen
<1>13. Parent(fq) = dir /\ fq # <<>> /\ Len(fq) \in Nat
    BY <1>6, <1>7, ParentOfAppend, AppendProperties
<1>14. Walked(tree, k)
    <2>1. \A i \in Len(fq)..Len(fq) : Dev[Prefix(fq, i)] = l.dev
        <3>1. \A i \in Len(fq)..Len(fq) : i = Len(fq)
            BY <1>13
        <3> QED BY <1>12, <3>1, PrefixFull
    <2>2. \A i \in Len(fq)..(Len(fq) - 1) : FALSE
        BY <1>13
    <2>3. Len(fq) <= Len(fq)
        BY <1>13
    <2> HIDE DEF k
    <2> QED BY <1>5, <1>9, <1>12, <1>13, <2>1, <2>2, <2>3 DEF Walked
<1>15. BinSeen(tree, k)
    BY <1>9, <1>11 DEF BinSeen, Bin
<1>16. WalkOk(tree', k, "walk")
    BY <1>1, <1>14, <1>15 DEF WalkOk, Cloning
<1> QED BY <1>8, <1>16, ProcessWalks

\* One turn upwards.
LEMMA WalkUpWalks ==
    ASSUME OneMount, Between, NEW p \in Procs, WalkUp(p)
    PROVE  WalkInv'
<1> DEFINE l == call[p]
<1>1. /\ l \in Calls /\ tree \in Tree /\ pc[p] = "walk" /\ tree' = tree
    BY DEF Between, TypeOK, WalkUp
<1>2. Walked(tree, l) /\ BinSeen(tree, l)
    BY <1>1 DEF Between, WalkInv, WalkOk
<1>3. l.mp \in Nat
    BY <1>1 DEF Calls
<1>4. PICK up : up = Prefix(l.fq, l.mp - 1)
    OBVIOUS
<1>5. Canon(tree, up, TRUE) = up
    <2>1. PICK q \in Seq(Names) :
              q = l.fq /\ q # <<>> /\ l.mp <= Len(q)
                /\ Straight(tree, Parent(q))
        BY <1>2, FileTreeAssumption DEF Walked
    <2>2. PICK d \in Seq(Names) : d = Parent(q) /\ Len(d) = Len(q) - 1
        BY <2>1, NameInParent
    <2>3. l.mp - 1 \in Int /\ l.mp - 1 <= Len(d)
        BY <1>3, <2>1, <2>2
    <2>4. up = Prefix(d, l.mp - 1)
        <3>1. CASE l.mp = 0
            <4>1. -1 \in Int /\ 1 \in Int /\ -1 < 1
                OBVIOUS
            <4>2. SubSeq(q, 1, -1) = <<>> /\ SubSeq(d, 1, -1) = <<>>
                BY <4>1, SubSeqEmpty
            <4>3. l.mp - 1 = -1
                BY <3>1
            <4> QED BY <1>4, <2>1, <4>2, <4>3 DEF Prefix
        <3>2. CASE l.mp # 0
            <4>1. /\ l.mp - 1 \in 0..(Len(q) - 1) /\ Len(q) - 1 \in Int
                  /\ Len(q) - 1 <= Len(q)
                <5>1. PICK n \in Nat : n = Len(q)
                    OBVIOUS
                <5>2. l.mp <= n
                    BY <2>1, <5>1
                <5> QED BY <1>3, <3>2, <5>1, <5>2
            <4>2. d = Prefix(q, Len(q) - 1)
                BY <2>2 DEF Parent
            <4> QED BY <1>4, <2>1, <4>1, <4>2, PrefixOfPrefix
        <3> QED BY <3>1, <3>2
    <2> QED BY <2>1, <2>2, <2>3, <2>4, StraightPrefix
<1>6. DevOf(tree, up, TRUE) = Dev[up] /\ InoOf(tree, up, TRUE) = Ino[up]
    BY <1>5 DEF DevOf, InoOf
<1>7. \/ Return(p, "failed")
      \/ Goto(p, "real") /\ call' = call
      \/ /\ Goto(p, "donor") /\ call' = call
         /\ l.mp = 0 \/ Dev[up] # l.dev
      \/ /\ call' = [call EXCEPT ![p].mp = @ - 1] /\ pc' = pc
         /\ l.mp # 0 /\ Dev[up] = l.dev /\ Ino[up] # l.ino
    BY <1>4, <1>6 DEF WalkUp
<1>8. call = [call EXCEPT ![p] = l] /\ pc = [pc EXCEPT ![p] = "walk"]
    BY <1>1 DEF Between, TypeOK
<1>9. CASE Return(p, "failed")
    BY <1>9, ReturnWalks DEF Returned
<1>10. CASE Goto(p, "real") /\ call' = call
    <2>1. WalkOk(tree', l, "real")
        BY DEF WalkOk, Cloning
    <2> QED BY <1>8, <1>10, <2>1, ProcessWalks DEF Goto
<1>11. CASE Goto(p, "donor") /\ call' = call /\ (l.mp = 0 \/ Dev[up] # l.dev)
    <2>1. MountFound(l)
        BY <1>2, <1>3, <1>4, <1>11, WalkEnds
    <2>2. WalkOk(tree', l, "donor")
        BY <2>1 DEF WalkOk, Cloning
    <2> QED BY <1>8, <1>11, <2>2, ProcessWalks DEF Goto
<1>12. CASE /\ call' = [call EXCEPT ![p].mp = @ - 1] /\ pc' = pc
            /\ l.mp # 0 /\ Dev[up] = l.dev /\ Ino[up] # l.ino
    <2> DEFINE k == [l EXCEPT !.mp = @ - 1]
    <2>1. /\ k.bin = l.bin /\ k.dev = l.dev /\ k.ino = l.ino
          /\ k.fq = l.fq /\ k.mp = l.mp - 1
        BY <1>1 DEF Calls
    <2>2. BinSeen(tree, k)
        BY <1>2, <2>1 DEF BinSeen, Bin
    <2>3. Walked(tree, k)
        <3>1. PICK n \in Nat : n = Len(l.fq)
            <4>1. l.fq \in Seq(Names)
                BY <1>2, FileTreeAssumption DEF Walked
            <4> QED BY <4>1
        <3>2. PICK m \in Nat : m = l.mp - 1 /\ m + 1 = l.mp
            BY <1>3, <1>12
        <3>3. /\ m + 1 <= n
              /\ \A i \in (m + 1)..n : Dev[Prefix(l.fq, i)] = l.dev
              /\ \A i \in (m + 1)..(n - 1) : Ino[Prefix(l.fq, i)] # l.ino
            BY <1>2, <3>1, <3>2 DEF Walked
        <3>4. Dev[Prefix(l.fq, m)] = l.dev /\ Ino[Prefix(l.fq, m)] # l.ino
            BY <1>4, <1>12, <3>2
        <3>5. \A i \in m..n : i = m \/ i \in (m + 1)..n
            OBVIOUS
        <3>6. \A i \in m..(n - 1) : i = m \/ i \in (m + 1)..(n - 1)
            OBVIOUS
        <3>7. /\ m <= n
              /\ \A i \in m..n : Dev[Prefix(l.fq, i)] = l.dev
              /\ \A i \in m..(n - 1) : Ino[Prefix(l.fq, i)] # l.ino
            BY <3>3, <3>4, <3>5, <3>6
        <3> HIDE DEF k
        <3> QED BY <1>2, <2>1, <3>1, <3>2, <3>7 DEF Walked
    <2>4. WalkOk(tree', k, "walk")
        BY <1>1, <2>2, <2>3 DEF WalkOk, Cloning
    <2>5. call' = [call EXCEPT ![p] = k] /\ pc' = [pc EXCEPT ![p] = "walk"]
        BY <1>8, <1>12
    <2> QED BY <2>4, <2>5, ProcessWalks
<1> QED BY <1>7, <1>9, <1>10, <1>11, <1>12

\* A call that has a bin to choose has one at hand.
LEMMA BinAtHand ==
    ASSUME TypeOK, NEW p \in Procs, pc[p] \in InCall, recycler # <<>>
    PROVE  Bin(call[p]) \in BinEntry /\ Bin(call[p]).dir \in Paths
<1>1. recycler \in Seq(BinEntry) /\ call[p].bin \in DOMAIN recycler
    BY RecyclixAssumption DEF TypeOK
<1>2. recycler[call[p].bin] \in BinEntry
    BY <1>1, ElementOfSeq
<1> QED BY <1>2 DEF Bin, BinEntry

\* stat gives the device of what is deleted.
LEMMA FstatatWalks ==
    ASSUME Between, NEW p \in Procs, Fstatat(p)
    PROVE  WalkInv'
<1> DEFINE l == call[p]
           q == l.path
           n == Lookup(tree, q, FALSE)
           k == [l EXCEPT !.st = n, !.dev = DevOf(tree, q, FALSE)]
<1>1. l \in Calls /\ pc[p] = "fstatat" /\ tree' = tree /\ tree \in Tree
    BY DEF Between, TypeOK, Fstatat
<1>2. CASE Return(p, "failed")
    BY <1>2, ReturnWalks DEF Returned
<1>3. CASE n # None /\ call' = [call EXCEPT ![p] = k] /\ Goto(p, "choose")
    <2>1. recycler # <<>>
        BY <1>1 DEF Between, WalkInv, WalkOk
    <2>2. Canon(tree, q, FALSE) \in Paths
        BY <1>1, <1>3, LookupType
    <2>3. k.path = q /\ k.dev = Dev[Canon(tree, q, FALSE)]
        BY <1>1 DEF Calls, DevOf
    <2>4. FileSeen(tree, k)
        BY <2>2, <2>3 DEF FileSeen
    <2>5. WalkOk(tree', k, "choose")
        BY <1>1, <2>1, <2>4 DEF WalkOk, Cloning
    <2> QED BY <1>3, <2>5, ProcessWalks DEF Goto
<1>4. \/ Return(p, "failed")
      \/ n # None /\ call' = [call EXCEPT ![p] = k] /\ Goto(p, "choose")
    BY DEF Fstatat
<1> QED BY <1>2, <1>3, <1>4

\* The bin that is taken is on that device.
LEMMA TakeBinWalks ==
    ASSUME Between, NEW p \in Procs, TakeBin(p)
    PROVE  WalkInv'
<1> DEFINE l == call[p]
           k == [l EXCEPT !.ino = InoOf(tree, Bin(l).dir, TRUE)]
<1>1. /\ l \in Calls /\ pc[p] = "choose" /\ tree' = tree /\ tree \in Tree
      /\ TypeOK /\ Accepts(l)
    BY DEF Between, TypeOK, TakeBin
<1>2. recycler # <<>> /\ FileSeen(tree, l)
    BY <1>1 DEF Between, WalkInv, WalkOk
<1>3. Bin(l).dir \in Paths
    BY <1>1, <1>2, BinAtHand DEF InCall
<1>4. k.bin = l.bin /\ k.path = l.path /\ k.dev = l.dev
      /\ k.ino = InoOf(tree, Bin(l).dir, TRUE)
    BY <1>1 DEF Calls
<1>5. DevOf(tree, Bin(l).dir, TRUE) = l.dev
    BY <1>1 DEF Accepts
<1>6. FileSeen(tree, k) /\ BinSeen(tree, k)
    BY <1>2, <1>3, <1>4, <1>5 DEF FileSeen, BinSeen, DevOf, InoOf, Bin
<1>7. WalkOk(tree', k, "resolve")
    BY <1>1, <1>6 DEF WalkOk, Cloning
<1>8. /\ call' = [call EXCEPT ![p] = k]
      /\ pc' = [pc EXCEPT ![p] = "resolve"]
    BY DEF TakeBin, Goto
<1> QED BY <1>7, <1>8, ProcessWalks

\* The next bin is tried for the same file.
LEMMA SkipBinWalks ==
    ASSUME Between, NEW p \in Procs, SkipBin(p)
    PROVE  WalkInv'
<1> DEFINE l == call[p]
           k == [l EXCEPT !.bin = @ + 1]
<1>1. l \in Calls /\ pc[p] = "choose" /\ tree' = tree
    BY DEF Between, TypeOK, SkipBin
<1>2. recycler # <<>> /\ FileSeen(tree, l)
    BY <1>1 DEF Between, WalkInv, WalkOk
<1>3. /\ call = [call EXCEPT ![p] = l]
      /\ pc = [pc EXCEPT ![p] = "choose"]
    BY <1>1 DEF Between, TypeOK
<1>4. CASE Goto(p, "real") /\ call' = call
    <2>1. WalkOk(tree', l, "real")
        BY DEF WalkOk, Cloning
    <2> QED BY <1>3, <1>4, <2>1, ProcessWalks DEF Goto
<1>5. CASE call' = [call EXCEPT ![p] = k] /\ pc' = pc
    <2>1. k.path = l.path /\ k.dev = l.dev
        BY <1>1 DEF Calls
    <2>2. WalkOk(tree', k, "choose")
        BY <1>1, <1>2, <2>1 DEF WalkOk, FileSeen, Cloning
    <2> QED BY <1>3, <1>5, <2>2, ProcessWalks
<1> QED BY <1>4, <1>5 DEF SkipBin

\* What a clone does keeps the mount point.
LEMMA CloningWalks ==
    ASSUME Between, NEW p \in Procs,
           \/ DonorStat(p) \/ Mkdir(p) \/ RmParent(p)
           \/ StatDst(p) \/ ChmodDst(p) \/ RmDst(p)
    PROVE  WalkInv'
<1> DEFINE l == call[p]
<1>1. l \in Calls
    BY DEF Between, TypeOK
<1>2. pc[p] \in Cloning
    BY DEF DonorStat, Mkdir, RmParent, StatDst, ChmodDst, RmDst, Cloning
<1>3. CASE Return(p, "failed")
    BY <1>3, ReturnWalks DEF Returned
<1>4. CASE CloneDone(p)
    BY <1>2, <1>4, CloneDoneWalks
<1>5. CASE \E x \in Cloning : Goto(p, x) /\ call' = call
    BY <1>2, <1>5, CloneGoto
<1>6. CASE DonorStat(p)
    <2> DEFINE n == Lookup(tree, DonorAt(l, Len(l.modes)), TRUE)
               k == [l EXCEPT !.modes = Append(@, ModeOf(n))]
    <2>1. CASE call' = [call EXCEPT ![p] = k] /\ Goto(p, "mkdir")
        <3>1. k.bin = l.bin /\ k.fq = l.fq /\ k.mp = l.mp
            BY <1>1 DEF Calls
        <3>2. "mkdir" \in Cloning
            BY DEF Cloning
        <3> HIDE DEF k
        <3> QED BY <1>2, <2>1, <3>1, <3>2, CloneWalks DEF Goto
    <2>2. Return(p, "failed")
          \/ (call' = [call EXCEPT ![p] = k] /\ Goto(p, "mkdir"))
        BY <1>6 DEF DonorStat
    <2> QED BY <1>3, <2>1, <2>2
<1>7. CASE Mkdir(p)
    BY <1>3, <1>4, <1>5, <1>7 DEF Mkdir, Cloning
<1>8. CASE RmParent(p)
    BY <1>3, <1>5, <1>8 DEF RmParent, Cloning
<1>9. CASE StatDst(p) \/ ChmodDst(p)
    BY <1>3, <1>4, <1>5, <1>9 DEF StatDst, ChmodDst, Cloning
<1>10. CASE RmDst(p)
    BY <1>3, <1>5, <1>10 DEF RmDst, Cloning
<1> QED BY <1>6, <1>7, <1>8, <1>9, <1>10

\* Every system call.
LEMMA StepWalks ==
    ASSUME OneMount, Between, NEW p \in Procs, Step(p)
    PROVE  WalkInv'
<1>1. ASSUME NEW x \in Returned, Return(p, x)
      PROVE  WalkInv'
    BY <1>1, ReturnWalks
<1>2. CASE BadOption(p) \/ AtDirFails(p) \/ RealpathFails(p) \/ Rename(p)
           \/ RealUnlink(p)
    BY <1>1, <1>2 DEF BadOption, AtDirFails, RealpathFails, Rename,
                      RealUnlink, Returned
<1>3. CASE \/ DonorStat(p) \/ Mkdir(p) \/ RmParent(p)
           \/ StatDst(p) \/ ChmodDst(p) \/ RmDst(p)
    BY <1>3, CloningWalks
<1> QED BY <1>2, <1>3, FstatatWalks, TakeBinWalks, SkipBinWalks,
           ResolveWalks, WalkUpWalks DEF Step

\* A call begins.
LEMMA CallWalks ==
    ASSUME Between, NEW p \in Procs, Call(p)
    PROVE  WalkInv'
<1>1. PICK l : call' = [call EXCEPT ![p] = l]
    BY DEF Call
<1>2. PICK x : /\ x = IF recycler = <<>> THEN "real" ELSE "fstatat"
               /\ pc' = [pc EXCEPT ![p] = x]
    BY DEF Call, Goto
<1>3. WalkOk(tree', l, x)
    BY <1>2 DEF WalkOk, Cloning
<1> QED BY <1>1, <1>2, <1>3, ProcessWalks

\* The user changes nothing a call has seen.
LEMMA UserWalks ==
    ASSUME Between, UNCHANGED <<pc, call>>
    PROVE  WalkInv'
<1> SUFFICES ASSUME NEW q \in Procs
             PROVE  WalkOk(tree, call[q], pc[q])'
    BY DEF WalkInv, Between, Unlinked
<1>1. WalkOk(tree', call[q], pc[q])
    <2>1. CASE pc[q] \in Looking
        <3>1. WalkOk(tree, call[q], pc[q]) /\ SameView(tree, tree')
            BY <2>1 DEF Between, WalkInv
        <3> QED BY <3>1, ViewStays
    <2>2. CASE pc[q] \notin Looking
        <3>1. WalkOk(tree, call[q], pc[q])
            BY DEF Between, WalkInv
        <3> QED BY <2>2, <3>1 DEF WalkOk, Looking
    <2> QED BY <2>1, <2>2
<1>2. recycler' = recycler
    BY DEF Between
<1> QED BY <1>1, <1>2 DEF WalkOk, FileSeen, BinSeen, Walked, MountFound, Bin

\* Every step of the system.
LEMMA NextWalks ==
    ASSUME OneMount, NoLinks \/ Alone, TypeOK, WalkInv, [Next]_vars
    PROVE  WalkInv'
<1>1. Between
    <2>1. recycler' = recycler
        <3>1. ASSUME NEW p \in Procs, Step(p)
              PROVE  recycler' = recycler
            BY <3>1 DEF Step, Fstatat, BadOption, TakeBin, SkipBin,
                AtDirFails, RealpathFails, Resolve, WalkUp, DonorStat, Mkdir,
                RmParent, StatDst, ChmodDst, RmDst, Rename, RealUnlink
        <3> QED BY <3>1 DEF Next, vars, Call, User, Create, MakeDir,
                Symlink, HardLink, Chmod, Empty, UserPut
    <2>2. NoLinks => Unlinked(tree) /\ Unlinked(tree')
        BY UnlinkedStays DEF WalkInv
    <2>3. \A q \in Procs : pc[q] \in Looking => SameView(tree, tree')
        BY <2>2, ViewKept
    <2>4. TypeOK'
        BY NextType
    <2> QED BY <2>1, <2>2, <2>3, <2>4 DEF Between
<1>2. CASE User
    BY <1>1, <1>2, UserWalks DEF User, Create, MakeDir, Symlink, HardLink,
                                 Chmod, Empty, UserPut
<1>3. CASE \E p \in Procs : Call(p) \/ Step(p)
    BY <1>1, <1>3, CallWalks, StepWalks
<1>4. CASE UNCHANGED vars
    BY <1>1, <1>4, UserWalks DEF vars
<1> QED BY <1>2, <1>3, <1>4 DEF Next

\* At the beginning no call has found out anything.
LEMMA InitWalks == Init => WalkInv
<1> SUFFICES ASSUME Init PROVE WalkInv
    OBVIOUS
<1>1. NoLinks => Unlinked(tree)
    BY DEF Init, NoLinks, Unlinked
<1>2. \A p \in Procs : pc[p] = "idle"
    BY DEF Init
<1>3. \A p \in Procs : WalkOk(tree, call[p], pc[p])
    BY <1>2 DEF WalkOk, Cloning
<1> QED BY <1>1, <1>3 DEF WalkInv

\* The path in the bin is the path below the mount point, and the file is not
\* in that bin already (unlinkat, the loop over the parents of fqpath).
THEOREM WalkIsRight ==
    ASSUME OneMount, NoLinks \/ Alone
    PROVE  Spec => []WalkFindsMount
<1>1. WalkInv => WalkFindsMount
    BY DEF WalkInv, WalkOk, WalkFindsMount, MountFound
<1>2. TypeOK /\ WalkInv /\ [Next]_vars => WalkInv'
    BY NextWalks
<1> QED BY <1>1, <1>2, InitWalks, TypeCorrect, PTL DEF Spec

-----------------------------------------------------------------------------
(* The path in the bin and the directories on it *)

\* The beginning of a path is one.
LEMMA PrefixBegins ==
    ASSUME NEW q \in Seq(Names), NEW n \in Int, n <= Len(q)
    PROVE  IsPrefix(Prefix(q, n), q)
<1>1. PICK r \in Seq(Names) :
          /\ r = Prefix(q, n) /\ Len(r) = IF 1 <= n THEN n ELSE 0
    BY PrefixIs
<1>2. SubSeq(r, 1, Len(r)) = r
    BY SubSeqFull
<1>3. Len(r) <= Len(q)
    BY <1>1
<1>4. SubSeq(q, 1, Len(r)) = r
    <2>1. CASE 1 <= n
        BY <1>1, <2>1 DEF Prefix
    <2>2. CASE ~(1 <= n)
        <3>1. SubSeq(q, 1, 0) = <<>> /\ SubSeq(q, 1, n) = <<>>
            BY <2>2, SubSeqEmpty
        <3> QED BY <1>1, <2>2, <3>1 DEF Prefix
    <2> QED BY <2>1, <2>2
<1> QED BY <1>1, <1>2, <1>3, <1>4 DEF IsPrefix

\* A path begins with all that its beginnings begin with.
LEMMA PrefixTransitive ==
    ASSUME NEW a \in Seq(Names), NEW b \in Seq(Names), NEW c \in Seq(Names),
           IsPrefix(a, b), IsPrefix(b, c)
    PROVE  IsPrefix(a, c)
<1>1. PICK m \in Nat, n \in Nat : m = Len(a) /\ n = Len(b)
    OBVIOUS
<1>2. m <= n /\ n <= Len(c) /\ Prefix(a, m) = Prefix(b, m)
      /\ Prefix(b, n) = Prefix(c, n)
    BY <1>1 DEF IsPrefix, Prefix
<1>3. Prefix(b, n) = b
    BY <1>1, PrefixFull
<1>4. Prefix(Prefix(c, n), m) = Prefix(c, m)
    BY <1>1, <1>2, PrefixOfPrefix
<1>5. Prefix(a, m) = Prefix(c, m)
    BY <1>2, <1>3, <1>4
<1> QED BY <1>1, <1>2, <1>5 DEF IsPrefix, Prefix

\* Names that are cut off at the end of a path, at once or one after the other.
LEMMA CutIs ==
    ASSUME NEW q \in Seq(Names), NEW n \in Nat
    PROVE  /\ Cut(q, n) \in Seq(Names) /\ IsPrefix(Cut(q, n), q)
           /\ n <= Len(q) => Len(Cut(q, n)) = Len(q) - n
           /\ \A m \in Nat : m + n <= Len(q) =>
                    Cut(Cut(q, n), m) = Cut(q, m + n)
<1>1. PICK k \in Nat : k = Len(q)
    OBVIOUS
<1>2. k - n \in Int /\ k - n <= Len(q)
    BY <1>1
<1>3. Cut(q, n) \in Seq(Names) /\ IsPrefix(Cut(q, n), q)
    BY <1>1, <1>2, PrefixIs, PrefixBegins DEF Cut
<1>4. ASSUME n <= k
      PROVE  Len(Cut(q, n)) = k - n
    <2>1. PICK i \in Nat : i = k - n
        BY <1>4
    <2>2. Len(Prefix(q, i)) = IF 1 <= i THEN i ELSE 0
        BY <1>1, <1>2, <2>1, PrefixIs
    <2>3. Len(Prefix(q, i)) = i
        BY <2>2
    <2> QED BY <1>1, <2>1, <2>3 DEF Cut
<1>5. ASSUME NEW m \in Nat, m + n <= k
      PROVE  Cut(Cut(q, n), m) = Cut(q, m + n)
    <2>1. n <= k /\ k - n - m \in 0..(k - n) /\ k - n - m = k - (m + n)
        BY <1>5
    <2>2. Cut(Cut(q, n), m) = Prefix(Prefix(q, k - n), k - n - m)
        BY <1>1, <1>4, <2>1 DEF Cut
    <2>3. Prefix(Prefix(q, k - n), k - n - m) = Prefix(q, k - n - m)
        BY <1>2, <2>1, PrefixOfPrefix
    <2> QED BY <1>1, <2>1, <2>2, <2>3 DEF Cut
<1> QED BY <1>1, <1>3, <1>4, <1>5

\* A path put below another one begins with it.
LEMMA ConcatBegins ==
    ASSUME NEW a \in Seq(Names), NEW b \in Seq(Names)
    PROVE  IsPrefix(a, a \o b)
<1>1. PICK c \in Seq(Names) : c = a \o b
    BY ConcatProperties
<1>2. Len(c) = Len(a) + Len(b) /\ \A i \in 1..Len(a) : c[i] = a[i]
    BY <1>1, ConcatProperties
<1>3. PICK n \in Nat : n = Len(a)
    OBVIOUS
<1>4. n \in Int /\ n <= Len(c)
    BY <1>2, <1>3
<1>5. /\ Prefix(c, n) \in Seq(Names)
      /\ Len(Prefix(c, n)) = n
      /\ \A i \in 1..n : Prefix(c, n)[i] = c[i]
    BY <1>4, PrefixIs
<1>6. Prefix(c, n) = a
    BY <1>2, <1>3, <1>5, SamePath
<1>7. Prefix(a, n) = a
    BY <1>3, PrefixFull
<1> QED BY <1>1, <1>3, <1>4, <1>6, <1>7 DEF IsPrefix, Prefix

\* What a call with the variables l is about is there to speak of.
Placed(l) ==
    /\ Bin(l).dir \in Paths /\ l.fq \in Seq(Names)
    /\ l.mp \in Nat /\ l.mp <= Len(l.fq)

\* The path in the bin begins with the bin.
LEMMA RecycledIs ==
    ASSUME NEW l, Placed(l)
    PROVE  /\ Recycled(l) \in Seq(Names) /\ IsPrefix(Bin(l).dir, Recycled(l))
           /\ Len(Recycled(l)) = Len(Bin(l).dir) + (Len(l.fq) - l.mp)
<1>1. PICK b \in Seq(Names) : b = Bin(l).dir
    BY FileTreeAssumption DEF Placed
<1>2. PICK q \in Seq(Names) : q = l.fq
    BY DEF Placed
<1>3. PICK m \in 0..Len(q) : m = l.mp
    BY <1>2 DEF Placed
<1>4. PICK r \in Seq(Names) :
          r = SubSeq(q, m + 1, Len(q)) /\ Len(r) = Len(q) - m
    BY RestIs
<1>5. Recycled(l) = b \o r
    BY <1>1, <1>2, <1>3, <1>4 DEF Recycled
<1>6. /\ b \o r \in Seq(Names) /\ Len(b \o r) = Len(b) + Len(r)
      /\ IsPrefix(b, b \o r)
    BY ConcatProperties, ConcatBegins
<1> QED BY <1>1, <1>2, <1>3, <1>4, <1>5, <1>6

\* How many names of the path in the bin are not cloned.
Apart(l) == IF l.st.kind = "dir" THEN 0 ELSE 1

\* The target of the clone is the path in the bin, or that path without its
\* last name.
LEMMA TargetIs ==
    ASSUME NEW l, Placed(l)
    PROVE  CloneTarget(l) = Cut(Recycled(l), Apart(l))
<1>1. PICK r \in Seq(Names) : r = Recycled(l)
    BY RecycledIs
<1>2. Cut(r, 0) = r
    BY PrefixFull DEF Cut
<1> QED BY <1>1, <1>2 DEF CloneTarget, Cut, Parent, Apart

\* All that is cloned, or looked at to be cloned, is on the path in the bin.
LEMMA PlaceOnWay ==
    ASSUME NEW l, Placed(l), NEW n \in Nat
    PROVE  /\ PathAt(l, n) \in Seq(Names)
           /\ IsPrefix(PathAt(l, n), Recycled(l))
           /\ Parent(PathAt(l, n)) \in Seq(Names)
           /\ IsPrefix(Parent(PathAt(l, n)), Recycled(l))
<1>1. PICK r \in Seq(Names) : r = Recycled(l)
    BY RecycledIs
<1>2. PICK a \in Nat : a = Apart(l)
    BY DEF Apart
<1>3. PICK c \in Seq(Names) : c = CloneTarget(l) /\ IsPrefix(c, r)
    BY <1>1, <1>2, TargetIs, CutIs
<1>4. PICK d \in Seq(Names) : d = PathAt(l, n) /\ IsPrefix(d, c)
    BY <1>3, CutIs DEF PathAt
<1>5. PICK e \in Seq(Names) : e = Parent(d) /\ IsPrefix(e, d)
    BY CutIs DEF Parent, Cut
<1> QED BY <1>1, <1>3, <1>4, <1>5, PrefixTransitive

\* How many directories there are to clone below the bin, when the file is not
\* its mount point.
Deep(l) == Len(l.fq) - l.mp - Apart(l)

\* So many are in the bin, each below the next one, and the last is the bin.
LEMMA PlaceInBin ==
    ASSUME NEW l, Placed(l), Deep(l) \in Nat, NEW n \in 0..Deep(l)
    PROVE  /\ IsPrefix(Bin(l).dir, PathAt(l, n))
           /\ n # Deep(l) =>
                 /\ UnderDir(Bin(l).dir, PathAt(l, n))
                 /\ Parent(PathAt(l, n)) = PathAt(l, n + 1)
           /\ n = Deep(l) => PathAt(l, n) = Bin(l).dir
<1>1. PICK b \in Seq(Names) : b = Bin(l).dir
    BY FileTreeAssumption DEF Placed
<1>2. PICK a \in 0..1 : a = Apart(l)
    BY DEF Apart
<1>3. PICK d \in Nat : d = Deep(l)
    OBVIOUS
<1>4. PICK x \in Nat, y \in Nat : x = Len(l.fq) /\ y = Len(b)
    BY DEF Placed
<1>5. l.mp \in Nat /\ d = x - l.mp - a
    BY <1>2, <1>3, <1>4 DEF Deep, Placed
<1>6. PICK r \in Seq(Names) :
          r = Recycled(l) /\ IsPrefix(b, r) /\ Len(r) = y + d + a
    <2>1. PICK r \in Seq(Names) :
              r = Recycled(l) /\ IsPrefix(b, r) /\ Len(r) = y + (x - l.mp)
        BY <1>1, <1>4, RecycledIs
    <2>2. PICK z \in Nat : z = l.mp /\ d = x - z - a
        BY <1>5
    <2>3. x - z = d + a
        BY <2>2
    <2>4. y + (x - z) = y + d + a
        BY <2>3
    <2> QED BY <2>1, <2>2, <2>4
<1>7. \A k \in 0..d : PathAt(l, k) = Cut(r, k + a)
    <2> SUFFICES ASSUME NEW k \in 0..d
                 PROVE  PathAt(l, k) = Cut(r, k + a)
        OBVIOUS
    <2>1. k + a <= Len(r) /\ k \in Nat /\ a \in Nat
        BY <1>4, <1>6
    <2>2. CloneTarget(l) = Cut(r, a)
        BY <1>2, <1>6, TargetIs
    <2> QED BY <2>1, <2>2, CutIs DEF PathAt
<1>8. PICK m \in Nat : m = n + a /\ m <= d + a /\ n + 1 + a = m + 1
    BY <1>2, <1>3
<1>9. PICK c \in Seq(Names) :
          c = PathAt(l, n) /\ c = Cut(r, m) /\ Len(c) = y + d + a - m
    <2>1. m <= Len(r)
        BY <1>4, <1>6, <1>8
    <2>2. PathAt(l, n) = Cut(r, m)
        BY <1>3, <1>7, <1>8
    <2>3. PICK c \in Seq(Names) : c = Cut(r, m) /\ Len(c) = Len(r) - m
        BY <2>1, CutIs
    <2> QED BY <1>6, <2>2, <2>3
<1>10. IsPrefix(b, c)
    <2>1. PICK k \in Int : k = y + d + a - m /\ y \in 0..k /\ k <= Len(r)
        <3>1. m <= d + a /\ 0 <= m
            BY <1>8
        <3>2. PICK s \in Nat : s = d + a /\ m <= s
            BY <1>2, <1>3, <3>1
        <3>3. Len(r) = y + s
            BY <1>6, <3>2
        <3>4. PICK k \in Int : k = y + s - m
            BY <3>2
        <3>5. y <= k /\ k <= y + s
            BY <3>1, <3>2, <3>4
        <3>6. y \in 0..k /\ y + s - m = y + d + a - m
            BY <3>2, <3>5
        <3> QED BY <3>3, <3>4, <3>5, <3>6
    <2>2. c = Prefix(r, k)
        BY <1>6, <1>9, <2>1 DEF Cut
    <2>3. Prefix(c, y) = Prefix(r, y)
        BY <2>1, <2>2, PrefixOfPrefix
    <2>4. Prefix(b, y) = Prefix(r, y)
        BY <1>4, <1>6 DEF IsPrefix, Prefix
    <2> QED BY <1>4, <1>9, <2>1, <2>3, <2>4 DEF IsPrefix, Prefix
<1>11. ASSUME n # d
       PROVE  b # c /\ Parent(c) = PathAt(l, n + 1)
    <2>1. m < d + a
        BY <1>3, <1>8, <1>11
    <2>2. b # c
        BY <1>4, <1>9, <2>1
    <2>3. Parent(c) = Cut(c, 1)
        BY DEF Parent, Cut
    <2>4. 1 + m <= Len(r)
        BY <1>4, <1>6, <2>1
    <2>5. Cut(Cut(r, m), 1) = Cut(r, 1 + m)
        BY <2>4, CutIs
    <2>6. PathAt(l, n + 1) = Cut(r, n + 1 + a)
        BY <1>3, <1>7, <1>11
    <2> QED BY <1>8, <1>9, <2>2, <2>3, <2>5, <2>6
<1>12. ASSUME n = d
       PROVE  c = b
    <2>1. m = d + a
        BY <1>8, <1>12
    <2>2. PICK s \in Nat : s = d + a /\ y + d + a - m = y + s - m
        OBVIOUS
    <2>3. y + s - m = y
        BY <2>1, <2>2
    <2>4. Len(c) = y
        BY <1>9, <2>2, <2>3
    <2>5. Prefix(b, y) = b
        BY <1>4, PrefixFull
    <2>6. Prefix(c, y) = c
        BY <1>9, <2>4, PrefixFull
    <2> QED BY <1>4, <1>10, <2>5, <2>6 DEF IsPrefix, Prefix
<1> QED BY <1>1, <1>3, <1>9, <1>10, <1>11, <1>12 DEF UnderDir, IsStrictPrefix

-----------------------------------------------------------------------------
(* Trees without links *)

\* A path is searchable when all above its last name are directories.
LEMMA Searchable ==
    ASSUME NEW t, NEW c
    PROVE  PathErr(t, c) = "ok" <=>
              \A i \in 0..(Len(c) - 1) : At(t, Prefix(c, i)).kind = "dir"
BY DEF PathErr

\* stat finds what lies at a searchable path.
LEMMA LookupFlat ==
    ASSUME NEW t, Unlinked(t), NEW q, NEW deref \in BOOLEAN
    PROVE  Lookup(t, q, deref) = IF PathErr(t, q) = "ok" THEN At(t, q)
                                 ELSE None
<1>1. Canon(t, q, deref) = q
    BY UnlinkedCanon
<1>2. At(t, q).kind # "lnk"
    BY DEF Unlinked, At, None
<1> QED BY <1>1, <1>2 DEF Lookup

\* What is not nothing is not of the kind of nothing.
LEMMA Something ==
    ASSUME NEW n \in Node
    PROVE  n # None <=> n.kind # "none"
BY DEF Node, None, Dir, Reg, Link

\* What a step of a call changes where there are no links: it makes the
\* directory it is at, or gives it a mode, or removes what is in its way, or
\* moves the file, or deletes it.
Makes(p, t, u) ==
    \E w \in BOOLEAN :
        /\ pc[p] \in {"mkdir", "chmoddst"}
        /\ IF pc[p] = "mkdir"
           THEN \E mask \in Umasks : w = Masked(Last(call[p].modes), mask)
           ELSE w = Last(call[p].modes)
        /\ At(t, Current(call[p])).kind =
              IF pc[p] = "mkdir" THEN "none" ELSE "dir"
        /\ PathErr(t, Current(call[p])) = "ok" /\ Current(call[p]) \in Paths
        /\ CloneDone(p)
        /\ u = [t EXCEPT ![Current(call[p])] = Dir(w)]
Clears(p, t, u) ==
    \E c \in Paths :
        /\ \/ pc[p] = "rmparent" /\ c = Parent(Current(call[p]))
           \/ pc[p] = "rmdst" /\ c = Current(call[p])
        /\ t[c].kind \notin {"none", "dir"}
        /\ u = [t EXCEPT ![c] = None]
Moves(p, t, u) ==
    \E co \in Paths, cn \in Paths :
        /\ pc[p] = "rename" /\ pc'[p] = "zero"
        /\ co = call[p].path /\ cn = Recycled(call[p])
        /\ t[co].kind \notin {"none", "dir"} /\ t[cn].kind # "dir"
        /\ u = IF co = cn \/ (t[co].kind = "reg" /\ t[co] = t[cn]) THEN t
               ELSE [t EXCEPT ![cn] = t[co], ![co] = None]
Deletes(p, t, u) ==
    \E c \in Paths :
        /\ pc[p] = "real" /\ pc'[p] = "zero"
        /\ c = call[p].path /\ t[c].kind # "none"
        /\ u = [t EXCEPT ![c] = None]

\* A clone has the mode of the directory it is at.
LEMMA LastMode ==
    ASSUME TypeOK, NEW p \in Procs, pc[p] \in {"mkdir", "chmoddst"}
    PROVE  Last(call[p].modes) \in BOOLEAN
<1>1. PICK s \in Seq(BOOLEAN) : s = call[p].modes /\ s # <<>>
    BY DEF TypeOK, Calls
<1>2. Len(s) \in Nat \ {0}
    BY <1>1, EmptySeq
<1>3. s[Len(s)] \in BOOLEAN
    BY <1>2, ElementOfSeq
<1> QED BY <1>1, <1>3 DEF Last

\* mkdir makes the directory when the clone of it is done.
LEMMA MkdirMakes ==
    ASSUME TypeOK, Unlinked(tree), NEW p \in Procs, Mkdir(p)
    PROVE  \/ Makes(p, tree, tree')
           \/ tree' = tree /\ pc'[p] \notin {"rename", "real"}
<1> DEFINE l == call[p]
<1>1. \A q, d : Canon(tree, q, d) = q
    BY UnlinkedCanon
<1>2. \A x : pc' = [pc EXCEPT ![p] = x] => pc'[p] = x
    BY DEF TypeOK
<1>3. CASE MkdirErr(tree, Current(l)) = "ok"
    <2>1. PICK mask \in Umasks :
              /\ pc[p] = "mkdir" /\ CloneDone(p)
              /\ tree' = [tree EXCEPT ![Current(l)] =
                                Dir(Masked(Last(l.modes), mask))]
        BY <1>1, <1>3 DEF Mkdir, Put
    <2>2. /\ PathErr(tree, Current(l)) = "ok" /\ Current(l) \in Paths
          /\ At(tree, Current(l)).kind = "none"
        BY <1>1, <1>3 DEF MkdirErr
    <2>3. PICK w \in BOOLEAN : w = Masked(Last(l.modes), mask)
        BY DEF Masked
    <2> QED BY <2>1, <2>2, <2>3 DEF Makes
<1>4. CASE MkdirErr(tree, Current(l)) # "ok"
    BY <1>2, <1>4 DEF Mkdir, Return, Goto
<1> QED BY <1>3, <1>4

\* chmod gives it the mode then, if it is still there.
LEMMA ChmodMakes ==
    ASSUME TypeOK, Unlinked(tree), NEW p \in Procs, ChmodDst(p)
    PROVE  \/ Makes(p, tree, tree')
           \/ /\ tree' = tree
              /\ Lookup(tree, Current(call[p]), TRUE).kind # "dir"
<1> DEFINE l == call[p]
<1>1. \A q, d : Canon(tree, q, d) = q
    BY UnlinkedCanon
<1>3. CASE Lookup(tree, Current(l), TRUE).kind = "dir"
    <2>1. /\ pc[p] = "chmoddst" /\ CloneDone(p)
          /\ tree' = [tree EXCEPT ![Current(l)] = Dir(Last(l.modes))]
        BY <1>1, <1>3 DEF ChmodDst, Chmoded
    <2>2. PICK yes : yes = TRUE /\ yes \in BOOLEAN
        OBVIOUS
    <2>3. Lookup(tree, Current(l), yes) =
            IF PathErr(tree, Current(l)) = "ok"
            THEN At(tree, Current(l)) ELSE None
        BY <2>2, LookupFlat
    <2>4. /\ PathErr(tree, Current(l)) = "ok"
          /\ At(tree, Current(l)).kind = "dir"
        <3>1. None.kind # "dir"
            BY DEF None
        <3> QED BY <1>3, <2>2, <2>3, <3>1
    <2>5. Current(l) \in Paths
        BY <2>4 DEF At, None
    <2>6. Last(l.modes) \in BOOLEAN
        BY <2>1, LastMode
    <2> QED BY <2>1, <2>4, <2>5, <2>6 DEF Makes
<1>4. CASE Lookup(tree, Current(l), TRUE).kind # "dir"
    BY <1>4 DEF ChmodDst
<1> QED BY <1>3, <1>4

\* renameat moves the file if it returns zero.
LEMMA RenameMoves ==
    ASSUME TypeOK, Unlinked(tree), NEW p \in Procs, Rename(p)
    PROVE  \/ Moves(p, tree, tree')
           \/ tree' = tree /\ pc'[p] = "failed"
<1> DEFINE l == call[p]
<1>1. \A q, d : Canon(tree, q, d) = q
    BY UnlinkedCanon
<1>2. \A x : pc' = [pc EXCEPT ![p] = x] => pc'[p] = x
    BY DEF TypeOK
<1>3. CASE RenameOk(l)
    <2>1. PICK co, cn : co = l.path /\ cn = Recycled(l)
        OBVIOUS
    <2>2. RenameErr(tree, co, cn) = "ok"
        BY <1>3, <2>1 DEF RenameOk
    <2>3. /\ At(tree, co).kind \notin {"none", "dir"}
          /\ At(tree, cn).kind # "dir" /\ cn \in Paths
        BY <1>1, <2>2 DEF RenameErr
    <2>4. tree' = IF co = cn \/ (tree[co].kind = "reg" /\ tree[co] = tree[cn])
                  THEN tree
                  ELSE [tree EXCEPT ![cn] = tree[co], ![co] = None]
        <3>1. tree' = Renamed(tree, co, cn)
            BY <1>3, <2>1 DEF Rename
        <3>2. Canon(tree, co, FALSE) = co /\ Canon(tree, cn, FALSE) = cn
            BY <1>1
        <3> QED BY <3>1, <3>2, Zenon DEF Renamed
    <2>5. pc[p] = "rename" /\ pc'[p] = "zero"
        BY <1>2, <1>3 DEF Rename, Return, Goto
    <2>6. co \in Paths /\ tree[co].kind \notin {"none", "dir"}
          /\ tree[cn].kind # "dir"
        BY <2>3 DEF At, None
    <2> QED BY <2>1, <2>3, <2>4, <2>5, <2>6 DEF Moves
<1>4. CASE ~RenameOk(l)
    BY <1>2, <1>4 DEF Rename, Return, Goto
<1> QED BY <1>3, <1>4

\* unlinkat deletes it if it returns zero.
LEMMA UnlinkDeletes ==
    ASSUME TypeOK, Unlinked(tree), NEW p \in Procs, RealUnlink(p)
    PROVE  \/ Deletes(p, tree, tree')
           \/ tree' = tree /\ pc'[p] = "failed"
<1> DEFINE l == call[p]
<1>1. \A q, d : Canon(tree, q, d) = q
    BY UnlinkedCanon
<1>2. \A x : pc' = [pc EXCEPT ![p] = x] => pc'[p] = x
    BY DEF TypeOK
<1>3. CASE tree' = Removed(tree, l.path) /\ Return(p, "zero")
           /\ (UnlinkErr(tree, l.path) = "ok"
               \/ RmdirErr(tree, l.path) = "ok")
    <2>1. At(tree, l.path).kind # "none"
        BY <1>1, <1>3 DEF UnlinkErr, RmdirErr
    <2>2. tree' = [tree EXCEPT ![l.path] = None]
        BY <1>1, <1>3 DEF Removed, Put
    <2>3. pc[p] = "real" /\ pc'[p] = "zero"
        BY <1>2, <1>3 DEF RealUnlink, Return, Goto
    <2>4. l.path \in Paths /\ At(tree, l.path) = tree[l.path]
        BY <2>1 DEF At, None
    <2> QED BY <2>1, <2>2, <2>3, <2>4 DEF Deletes
<1>4. CASE tree' = tree /\ Return(p, "failed")
    BY <1>2, <1>4 DEF Return, Goto
<1> QED BY <1>3, <1>4 DEF RealUnlink

\* There is nothing else.
LEMMA StepFlat ==
    ASSUME TypeOK, Unlinked(tree), NEW p \in Procs, Step(p)
    PROVE  \/ tree' = tree
           \/ Makes(p, tree, tree') \/ Clears(p, tree, tree')
           \/ Moves(p, tree, tree') \/ Deletes(p, tree, tree')
<1> DEFINE l == call[p]
<1>1. \A q, d : Canon(tree, q, d) = q
    BY UnlinkedCanon
<1>2. \A c : At(tree, c).kind # "none" => c \in Paths /\ At(tree, c) = tree[c]
    BY DEF At, None
<1>3. CASE Mkdir(p) \/ StatDst(p) \/ ChmodDst(p)
    BY <1>3, MkdirMakes, ChmodMakes DEF StatDst
<1>4. ASSUME NEW c, UnlinkErr(tree, c) = "ok", tree' = Removed(tree, c)
      PROVE  /\ c \in Paths /\ tree[c].kind \notin {"none", "dir"}
             /\ tree' = [tree EXCEPT ![c] = None]
    BY <1>1, <1>2, <1>4 DEF UnlinkErr, Removed, Put
<1>5. CASE RmParent(p)
    BY <1>4, <1>5 DEF RmParent, Clears
<1>6. CASE RmDst(p)
    BY <1>4, <1>6 DEF RmDst, Clears
<1>7. CASE Rename(p) \/ RealUnlink(p)
    BY <1>7, RenameMoves, UnlinkDeletes
<1>8. CASE Fstatat(p) \/ BadOption(p) \/ TakeBin(p) \/ SkipBin(p)
           \/ AtDirFails(p) \/ RealpathFails(p) \/ Resolve(p) \/ WalkUp(p)
           \/ DonorStat(p)
    BY <1>8 DEF Fstatat, BadOption, TakeBin, SkipBin, AtDirFails,
                 RealpathFails, Resolve, WalkUp, DonorStat
<1> QED BY <1>3, <1>5, <1>6, <1>7, <1>8 DEF Step

-----------------------------------------------------------------------------
(* The path of a call *)

\* RECYCLER stays as it is.
LEMMA RecyclerStays ==
    ASSUME [Next]_vars
    PROVE  recycler' = recycler
<1>1. ASSUME NEW p \in Procs, Step(p)
      PROVE  recycler' = recycler
    BY <1>1 DEF Step, Fstatat, BadOption, TakeBin, SkipBin, AtDirFails,
        RealpathFails, Resolve, WalkUp, DonorStat, Mkdir, RmParent, StatDst,
        ChmodDst, RmDst, Rename, RealUnlink
<1> QED BY <1>1 DEF Next, vars, Call, User, Create, MakeDir, Symlink,
        HardLink, Chmod, Empty, UserPut

\* The user calls nothing and ends no call.
LEMMA UserApart == User => UNCHANGED <<recycler, pc, call>>
BY DEF User, Create, MakeDir, Symlink, HardLink, Chmod, Empty, UserPut

\* A call that goes on has a bin, and without links the path of what is deleted
\* is the one it was called with and lies on the file system of the bin.
WayOk(l, x) ==
    /\ x \in InCall \ {"real"} => recycler # <<>>
    /\ x \in {"walk", "rename"} \cup Cloning =>
            /\ l.fq = l.path /\ l.path \in Paths
            /\ Dev[l.path] = Dev[Bin(l).dir]
WayInv == \A p \in Procs : WayOk(call[p], pc[p])

\* One process moves on, the others stay.
LEMMA ProcessWay ==
    ASSUME TypeOK, WayInv, recycler' = recycler, NEW p \in Procs, NEW l, NEW x,
           pc' = [pc EXCEPT ![p] = x], call' = [call EXCEPT ![p] = l],
           WayOk(l, x)
    PROVE  WayInv'
<1> SUFFICES ASSUME NEW q \in Procs
             PROVE  WayOk(call[q], pc[q])'
    BY DEF WayInv
<1>1. (q = p => call'[q] = l /\ pc'[q] = x)
      /\ (q # p => call'[q] = call[q] /\ pc'[q] = pc[q])
    BY DEF TypeOK
<1>2. WayOk(call'[q], pc'[q])
    BY <1>1 DEF WayInv
<1> QED BY <1>2 DEF WayOk, Bin

\* The same when it has its path and keeps it.
LEMMA KeepsWay ==
    ASSUME TypeOK, WayInv, recycler' = recycler, NEW p \in Procs, NEW l, NEW x,
           pc' = [pc EXCEPT ![p] = x], call' = [call EXCEPT ![p] = l],
           pc[p] \in {"walk"} \cup Cloning,
           x \in {"walk", "rename", "real"} \cup Cloning,
           l.path = call[p].path, l.fq = call[p].fq,
           l.bin = call[p].bin
    PROVE  WayInv'
<1>1. WayOk(call[p], pc[p])
    BY DEF WayInv
<1>2. WayOk(l, x)
    BY <1>1 DEF WayOk, InCall, Cloning, Bin
<1> QED BY <1>2, ProcessWay

\* A clone that is done changes nothing of its call but the modes.
LEMMA CloneDoneMoves ==
    ASSUME TypeOK, NEW p \in Procs, CloneDone(p)
    PROVE  \E s, x : /\ x \in {"rename", "real"} \cup Cloning
                    /\ pc' = [pc EXCEPT ![p] = x]
                    /\ call' = [call EXCEPT ![p] =
                                    [call[p] EXCEPT !.modes = s]]
<1> DEFINE l == call[p]
<1>1. CASE Len(l.modes) > 1
    <2>1. /\ pc' = [pc EXCEPT ![p] = "mkdir"]
          /\ call' = [call EXCEPT ![p] = [l EXCEPT !.modes = Front(@)]]
        BY <1>1 DEF CloneDone, Goto
    <2> QED BY <2>1 DEF Cloning
<1>2. CASE ~(Len(l.modes) > 1)
    <2> DEFINE x == IF l.st.kind = "dir" THEN "real" ELSE "rename"
    <2>1. /\ pc' = [pc EXCEPT ![p] = x]
          /\ call' = [call EXCEPT ![p] = [l EXCEPT !.modes = <<>>]]
        BY <1>2 DEF CloneDone, Goto
    <2>2. x \in {"rename", "real"} \cup Cloning
        OBVIOUS
    <2> QED BY <2>1, <2>2
<1> QED BY <1>1, <1>2

\* Every step keeps the path.
LEMMA StepWay ==
    ASSUME TypeOK, WayInv, WalkInv, Unlinked(tree), recycler' = recycler,
           NEW p \in Procs, Step(p)
    PROVE  WayInv'
<1> DEFINE l == call[p]
<1>1. l \in Calls /\ WayOk(l, pc[p])
    BY DEF TypeOK, WayInv
<1>2. ASSUME NEW x \in Returned, Return(p, x)
      PROVE  WayInv'
    <2>1. WayOk(Blank, x)
        BY DEF WayOk, InCall, Returned, Cloning
    <2> QED BY <1>2, <2>1, ProcessWay DEF Return, Goto
<1>3. call = [call EXCEPT ![p] = l] /\ pc = [pc EXCEPT ![p] = pc[p]]
    BY DEF TypeOK
<1>4. ASSUME NEW x \in Cloning \cup {"real"}, Goto(p, x), call' = call,
             pc[p] \in {"walk"} \cup Cloning
      PROVE  WayInv'
    BY <1>3, <1>4, KeepsWay DEF Goto
<1>5. CASE Fstatat(p)
    <2> DEFINE n == Lookup(tree, l.path, FALSE)
               k == [l EXCEPT !.st = n, !.dev = DevOf(tree, l.path, FALSE)]
    <2>1. CASE call' = [call EXCEPT ![p] = k] /\ Goto(p, "choose")
               /\ pc[p] = "fstatat"
        <3>1. WayOk(k, "choose")
            BY <1>1, <2>1 DEF WayOk, InCall, Cloning
        <3> QED BY <2>1, <3>1, ProcessWay DEF Goto
    <2> QED BY <1>2, <1>5, <2>1 DEF Fstatat, Returned
<1>6. CASE TakeBin(p)
    <2> DEFINE k == [l EXCEPT !.ino = InoOf(tree, Bin(l).dir, TRUE)]
    <2>1. WayOk(k, "resolve")
        BY <1>1, <1>6 DEF TakeBin, WayOk, InCall, Cloning
    <2>2. call' = [call EXCEPT ![p] = k] /\ Goto(p, "resolve")
        BY <1>6 DEF TakeBin
    <2> QED BY <2>1, <2>2, ProcessWay DEF Goto
<1>7. CASE SkipBin(p)
    <2> DEFINE k == [l EXCEPT !.bin = @ + 1]
    <2>1. CASE Goto(p, "real") /\ call' = call
        <3>1. WayOk(l, "real")
            BY DEF WayOk, Cloning
        <3> QED BY <1>3, <2>1, <3>1, ProcessWay DEF Goto
    <2>2. CASE call' = [call EXCEPT ![p] = k] /\ pc' = pc
        <3>1. WayOk(k, pc[p])
            BY <1>1, <1>7 DEF SkipBin, WayOk, InCall, Cloning
        <3> QED BY <1>3, <2>2, <3>1, ProcessWay
    <2> QED BY <1>7, <2>1, <2>2 DEF SkipBin
<1>8. CASE Resolve(p)
    <2>1. PICK q \in Seq(Names) : q = l.path /\ q # <<>>
        BY <1>8, RecyclixAssumption DEF TypeOK, Resolve, InCall
    <2>2. Canon(tree, Parent(q), TRUE) = Parent(q)
        BY UnlinkedCanon
    <2>3. q = Append(Parent(q), Last(q))
        BY <2>1, NameInParent
    <2> DEFINE k == [l EXCEPT !.fq = q, !.mp = Len(q)]
    <2>4. call' = [call EXCEPT ![p] = k] /\ Goto(p, "walk")
        BY <1>8, <2>1, <2>2, <2>3 DEF Resolve
    <2>5. k.fq = q /\ k.path = q /\ k.bin = l.bin
        BY <1>1, <2>1 DEF Calls
    <2>6. recycler # <<>>
        BY <1>1, <1>8 DEF Resolve, WayOk, InCall
    <2>7. q \in Paths /\ Dev[q] = Dev[Bin(l).dir]
        <3>1. FileSeen(tree, l) /\ BinSeen(tree, l)
            BY <1>8 DEF WalkInv, WalkOk, Resolve
        <3>2. \A c, d : Canon(tree, c, d) = c
            BY UnlinkedCanon
        <3>3. q \in Paths /\ Dev[q] = l.dev
            BY <2>1, <3>1, <3>2, Zenon DEF FileSeen
        <3>4. Dev[Bin(l).dir] = l.dev
            BY <3>1, <3>2, Zenon DEF BinSeen
        <3> QED BY <3>3, <3>4
    <2>8. WayOk(k, "walk")
        <3> HIDE DEF k
        <3> QED BY <2>5, <2>6, <2>7 DEF WayOk, Bin
    <2> QED BY <2>4, <2>8, ProcessWay DEF Goto
<1>9. CASE WalkUp(p)
    <2> DEFINE k == [l EXCEPT !.mp = @ - 1]
    <2>1. CASE call' = [call EXCEPT ![p] = k] /\ pc' = pc /\ pc[p] = "walk"
        <3>1. k.path = l.path /\ k.fq = l.fq /\ k.bin = l.bin
            BY <1>1 DEF Calls
        <3> HIDE DEF k
        <3> QED BY <1>3, <2>1, <3>1, KeepsWay
    <2>2. \/ Return(p, "failed")
          \/ Goto(p, "real") /\ call' = call
          \/ Goto(p, "donor") /\ call' = call
          \/ call' = [call EXCEPT ![p] = k] /\ pc' = pc /\ pc[p] = "walk"
        BY <1>9 DEF WalkUp
    <2>3. pc[p] = "walk"
        BY <1>9 DEF WalkUp
    <2> QED BY <1>2, <1>4, <2>1, <2>2, <2>3 DEF Returned, Cloning
<1>10. CASE DonorStat(p)
    <2> DEFINE n == Lookup(tree, DonorAt(l, Len(l.modes)), TRUE)
               k == [l EXCEPT !.modes = Append(@, ModeOf(n))]
    <2>1. CASE call' = [call EXCEPT ![p] = k] /\ Goto(p, "mkdir")
        <3>1. k.path = l.path /\ k.fq = l.fq /\ k.bin = l.bin
            BY <1>1 DEF Calls
        <3>2. pc[p] \in Cloning /\ "mkdir" \in Cloning
            BY <1>10 DEF DonorStat, Cloning
        <3> HIDE DEF k
        <3> QED BY <2>1, <3>1, <3>2, KeepsWay DEF Goto
    <2>2. Return(p, "failed")
          \/ (call' = [call EXCEPT ![p] = k] /\ Goto(p, "mkdir"))
        BY <1>10 DEF DonorStat
    <2> QED BY <1>2, <2>1, <2>2 DEF Returned
<1>11. CASE CloneDone(p) /\ pc[p] \in Cloning
    <2>1. PICK s, x : /\ x \in {"rename", "real"} \cup Cloning
                      /\ pc' = [pc EXCEPT ![p] = x]
                      /\ call' = [call EXCEPT ![p] = [l EXCEPT !.modes = s]]
        BY <1>11, CloneDoneMoves
    <2>2. PICK k : k = [l EXCEPT !.modes = s]
        OBVIOUS
    <2>3. k.path = l.path /\ k.fq = l.fq /\ k.bin = l.bin
        BY <1>1, <2>2 DEF Calls
    <2> QED BY <1>11, <2>1, <2>2, <2>3, KeepsWay
<1>12. CASE Mkdir(p) \/ RmParent(p) \/ StatDst(p) \/ ChmodDst(p) \/ RmDst(p)
    <2>1. pc[p] \in Cloning
        BY <1>12 DEF Mkdir, RmParent, StatDst, ChmodDst, RmDst, Cloning
    <2>2. \/ Return(p, "failed") \/ CloneDone(p)
          \/ \E x \in Cloning : Goto(p, x) /\ call' = call
        BY <1>12 DEF Mkdir, RmParent, StatDst, ChmodDst, RmDst, Cloning
    <2> QED BY <1>2, <1>4, <1>11, <2>1, <2>2 DEF Returned
<1>13. CASE BadOption(p) \/ AtDirFails(p) \/ RealpathFails(p) \/ Rename(p)
            \/ RealUnlink(p)
    BY <1>2, <1>13 DEF BadOption, AtDirFails, RealpathFails, Rename,
                       RealUnlink, Returned
<1> QED BY <1>5, <1>6, <1>7, <1>8, <1>9, <1>10, <1>12, <1>13 DEF Step

\* So does everything else.
LEMMA NextWay ==
    ASSUME TypeOK, WayInv, WalkInv, Unlinked(tree), [Next]_vars
    PROVE  WayInv'
<1>1. recycler' = recycler
    BY RecyclerStays
<1>2. ASSUME NEW p \in Procs, Call(p)
      PROVE  WayInv'
    <2>1. PICK l : call' = [call EXCEPT ![p] = l]
        BY <1>2 DEF Call
    <2>2. PICK x : /\ x = IF recycler = <<>> THEN "real" ELSE "fstatat"
                   /\ pc' = [pc EXCEPT ![p] = x]
        BY <1>2 DEF Call, Goto
    <2>3. WayOk(l, x)
        BY <2>2 DEF WayOk, Cloning
    <2> QED BY <1>1, <2>1, <2>2, <2>3, ProcessWay
<1>3. CASE UNCHANGED <<recycler, pc, call>>
    BY <1>1, <1>3 DEF WayInv, WayOk, Bin
<1> QED BY <1>1, <1>2, <1>3, StepWay, UserApart DEF Next, vars

-----------------------------------------------------------------------------
(* What a call changes in the bins *)

\* A step of one call leaves the variables of the others alone.
LEMMA OthersStay ==
    ASSUME TypeOK, NEW p \in Procs, Step(p), NEW q \in Procs, q # p
    PROVE  pc'[q] = pc[q] /\ call'[q] = call[q]
<1>0. pc \in [Procs -> InCall \cup Returned] /\ call \in [Procs -> Calls]
    BY DEF TypeOK
<1>1. ASSUME NEW x, Goto(p, x)
      PROVE  pc'[q] = pc[q]
    BY <1>0, <1>1 DEF Goto
<1>2. ASSUME NEW x, Return(p, x)
      PROVE  pc'[q] = pc[q] /\ call'[q] = call[q]
    BY <1>0, <1>1, <1>2 DEF Return
<1>3. ASSUME NEW k, call' = [call EXCEPT ![p] = k]
      PROVE  call'[q] = call[q]
    BY <1>0, <1>3
<1>4. ASSUME CloneDone(p)
      PROVE  pc'[q] = pc[q] /\ call'[q] = call[q]
    <2>1. PICK s, x : /\ pc' = [pc EXCEPT ![p] = x]
                      /\ call' = [call EXCEPT ![p] =
                                    [call[p] EXCEPT !.modes = s]]
        BY <1>4, CloneDoneMoves
    <2> QED BY <1>0, <1>3, <2>1
<1>5. CASE Fstatat(p)
    <2> DEFINE n == Lookup(tree, call[p].path, FALSE)
               k == [call[p] EXCEPT !.st = n,
                                    !.dev = DevOf(tree, call[p].path, FALSE)]
    <2>1. CASE Goto(p, "choose") /\ call' = [call EXCEPT ![p] = k]
        <3> HIDE DEF k
        <3> QED BY <1>1, <1>3, <2>1
    <2> QED BY <1>2, <1>5, <2>1 DEF Fstatat
<1>6. CASE TakeBin(p)
    BY <1>0, <1>1, <1>6 DEF TakeBin
<1>7. CASE SkipBin(p)
    BY <1>0, <1>1, <1>7 DEF SkipBin
<1>8. CASE Resolve(p)
    <2> DEFINE fq == Append(Canon(tree, Parent(call[p].path), TRUE),
                            Last(call[p].path))
               k == [call[p] EXCEPT !.fq = fq, !.mp = Len(fq)]
    <2>1. Goto(p, "walk") /\ call' = [call EXCEPT ![p] = k]
        BY <1>8 DEF Resolve
    <2> HIDE DEF k
    <2> QED BY <1>1, <1>3, <2>1
<1>9. CASE WalkUp(p)
    BY <1>0, <1>1, <1>2, <1>9 DEF WalkUp
<1>10. CASE DonorStat(p)
    BY <1>0, <1>1, <1>2, <1>10 DEF DonorStat
<1>11. CASE Mkdir(p) \/ RmParent(p) \/ StatDst(p) \/ ChmodDst(p) \/ RmDst(p)
    BY <1>1, <1>2, <1>4, <1>11 DEF Mkdir, RmParent, StatDst, ChmodDst, RmDst
<1>12. CASE BadOption(p) \/ AtDirFails(p) \/ RealpathFails(p) \/ Rename(p)
            \/ RealUnlink(p)
    BY <1>2, <1>12 DEF BadOption, AtDirFails, RealpathFails, Rename,
                       RealUnlink
<1> QED BY <1>5, <1>6, <1>7, <1>8, <1>9, <1>10, <1>11, <1>12 DEF Step

\* Who steps in a call makes a system call of it.
LEMMA SteppedIsStep ==
    ASSUME TypeOK, [Next]_vars, NEW p \in Procs, Stepped(p)
    PROVE  Step(p)
<1>1. ~UNCHANGED <<pc, call>> /\ pc[p] \notin Returned
    BY DEF Stepped, InCall, Cloning, Returned
<1>2. PICK q \in Procs : Call(q) \/ Step(q)
    BY <1>1, UserApart DEF Next, vars
<1>3. CASE q # p
    <2>1. pc'[p] = pc[p] /\ call'[p] = call[p]
        <3>1. CASE Step(q)
            BY <1>3, <3>1, OthersStay
        <3>2. CASE Call(q)
            <4>1. PICK k : call' = [call EXCEPT ![q] = k]
                BY <3>2 DEF Call
            <4> QED BY <1>3, <3>2, <4>1 DEF Call, Goto, TypeOK
        <3> QED BY <1>2, <3>1, <3>2
    <2> QED BY <2>1 DEF Stepped
<1> QED BY <1>1, <1>2, <1>3 DEF Call

\* The mount point of a path begins it.
LEMMA MountLenIs ==
    ASSUME NEW q \in Seq(Names), NEW n \in Nat, n = Len(q)
    PROVE  MountLen(q) \in 0..n /\ IsMount(Prefix(q, MountLen(q)))
<1> DEFINE S == {i \in 0..n : IsMount(Prefix(q, i))}
<1>1. 0 \in S
    <2>1. SubSeq(q, 1, 0) = <<>>
        BY SubSeqEmpty
    <2> QED BY <2>1 DEF IsMount, Prefix
<1>2. S \in SUBSET Nat /\ S # {} /\ \A i \in S : i <= n
    BY <1>1
<1>3. Max(S) \in S
    BY <1>2, MaxIsGreatest
<1> QED BY <1>3 DEF MountLen

\* A call that has found the mount point is placed.
LEMMA PlacedOnceFound ==
    ASSUME TypeOK, WayInv, WalkInv, NEW p \in Procs,
           pc[p] \in Cloning \cup {"rename"}
    PROVE  Placed(call[p])
<1>1. pc[p] \in InCall \ {"real"} /\ recycler # <<>>
    BY DEF WayInv, WayOk, InCall, Cloning
<1>2. Bin(call[p]).dir \in Paths
    BY <1>1, BinAtHand
<1>3. call[p].fq \in Seq(Names) /\ call[p].mp = MountLen(call[p].fq)
    BY DEF TypeOK, Calls, WalkInv, WalkOk, MountFound
<1>4. PICK n \in Nat : n = Len(call[p].fq)
    BY <1>3
<1>5. MountLen(call[p].fq) \in 0..n
    BY <1>3, <1>4, MountLenIs
<1> QED BY <1>2, <1>3, <1>4, <1>5 DEF Placed

\* Nothing a caller names is in one bin and on the file system of another one.
BinsApart ==
    \A r \in Recyclers : \A i, j \in DOMAIN r : \A q \in CallPaths \cap Paths :
        UnderDir(r[i].dir, q) /\ Dev[q] = Dev[r[j].dir] => i = j

\* With one bin what is lost from it is on the way.
LEMMA LossOnTheWay ==
    ASSUME BinsApart, TypeOK, WayInv, WalkInv, Unlinked(tree),
           NEW p \in Procs, Step(p),
           NEW q \in Paths, InBin(q), tree[q].kind \in {"reg", "lnk"},
           tree'[q] # tree[q]
    PROVE  \/ pc[p] # "real" /\ IsPrefix(q, Recycled(call[p]))
           \/ pc[p] = "real" /\ q = Canon(tree, call[p].path, FALSE)
<1> DEFINE l == call[p]
<1>0. tree \in [Paths -> Node] /\ At(tree, q) = tree[q]
    BY DEF TypeOK, Tree, At
<1>1. CASE Makes(p, tree, tree')
    <2>1. PICK c, n : /\ tree' = [tree EXCEPT ![c] = n]
                      /\ At(tree, c).kind \in {"none", "dir"}
        BY <1>1 DEF Makes
    <2>2. c # q
        BY <1>0, <2>1
    <2> QED BY <1>0, <2>1, <2>2
<1>2. CASE Clears(p, tree, tree')
    <2>1. PICK c \in Paths :
              /\ \/ c = Parent(Current(l))
                 \/ c = Current(l)
              /\ pc[p] \in {"rmparent", "rmdst"}
              /\ tree' = [tree EXCEPT ![c] = None]
        BY <1>2 DEF Clears
    <2>2. c = q
        BY <1>0, <2>1
    <2>3. Placed(l)
        BY <2>1, PlacedOnceFound DEF Cloning
    <2>4. PICK n \in Nat : n = Len(l.modes) - 1
        <3>1. PICK s \in Seq(BOOLEAN) : s = l.modes /\ s # <<>>
            BY <2>1 DEF TypeOK, Calls
        <3>2. Len(s) \in Nat /\ Len(s) # 0
            BY <3>1, EmptySeq
        <3> QED BY <3>1, <3>2
    <2>5. IsPrefix(c, Recycled(l))
        BY <2>1, <2>3, <2>4, PlaceOnWay DEF Current
    <2> QED BY <2>1, <2>2, <2>5
<1>3. CASE Moves(p, tree, tree')
    <2>1. PICK co \in Paths, cn \in Paths :
              /\ pc[p] = "rename" /\ co = l.path /\ cn = Recycled(l)
              /\ \/ tree' = tree
                 \/ tree' = [tree EXCEPT ![cn] = tree[co], ![co] = None]
        BY <1>3 DEF Moves
    <2>2. q \in {co, cn}
        BY <1>0, <2>1
    <2>3. IsPrefix(cn, Recycled(l))
        BY <2>1, FileTreeAssumption DEF IsPrefix
    <2>4. q # co \/ q = cn
        <3>1. MountFound(l)
            BY <2>1 DEF WalkInv, WalkOk
        <3>2. l.fq = co /\ Dev[co] = Dev[Bin(l).dir]
            BY <2>1 DEF WayInv, WayOk
        <3>3. recycler # <<>> /\ co \in CallPaths
            BY <2>1 DEF WayInv, WayOk, InCall, TypeOK
        <3>4. l.bin \in DOMAIN recycler /\ recycler \in Recyclers
            BY <2>1, <3>3 DEF TypeOK, InCall
        <3>5. PICK i \in DOMAIN recycler : UnderDir(recycler[i].dir, q)
            BY DEF InBin
        <3>6. ASSUME q = co
              PROVE  FALSE
            <4>1. i = l.bin
                BY <3>2, <3>3, <3>4, <3>5, <3>6 DEF BinsApart, Bin
            <4> QED BY <3>1, <3>2, <3>5, <3>6, <4>1 DEF MountFound, Bin
        <3> QED BY <3>6
    <2> QED BY <2>1, <2>2, <2>3, <2>4
<1>4. CASE Deletes(p, tree, tree')
    <2>1. pc[p] = "real" /\ tree' = [tree EXCEPT ![l.path] = None]
        BY <1>4, Zenon DEF Deletes
    <2>2. q = l.path
        BY <1>0, <2>1
    <2>3. \A d : Canon(tree, l.path, d) = l.path
        BY UnlinkedCanon
    <2> QED BY <2>1, <2>2, <2>3, Zenon
<1> QED BY <1>1, <1>2, <1>3, <1>4, StepFlat

\* A file that lies in a bin is lost (overwritten by the rename, or removed by
\* the unlink of what is in the way of a mkdir) only if it is on the way of the
\* path being recycled, or is what the caller deletes from under the bin.  Any
\* number of processes and a user who acts at any moment may take part; there
\* are no symbolic links, and what can be deleted from one bin is not on the
\* file system of another.
THEOREM BinLossIsOnTheWay ==
    ASSUME OneMount, NoLinks, BinsApart
    PROVE  Spec => BinLossOnlyInTheWay
<1>1. Init => WayInv
    BY DEF Init, WayInv, WayOk, InCall, Cloning
<1>2. TypeOK /\ WalkInv /\ WayInv /\ [Next]_vars => WalkInv' /\ WayInv'
    BY NextWalks, NextWay DEF WalkInv
<1>3. TypeOK /\ WalkInv /\ WayInv /\ [Next]_vars =>
        [\A p \in Procs : Stepped(p) =>
            \A q \in Paths :
                InBin(q) /\ tree[q].kind \in {"reg", "lnk"} /\
                tree'[q] # tree[q]
                => LET r == Recycled(call[p])
                   IN  \/ pc[p] # "real" /\ IsPrefix(q, r)
                       \/ pc[p] = "real" /\ q = Canon(tree, call[p].path, FALSE)
        ]_vars
    BY SteppedIsStep, LossOnTheWay DEF WalkInv
<1> QED BY <1>1, <1>2, <1>3, InitWalks, TypeCorrect, PTL
        DEF Spec, BinLossOnlyInTheWay

-----------------------------------------------------------------------------
(* The directories a clone is about are in the bin *)

\* Nobody deletes a bin or a directory above it, and no bin is in another one.
BinsKept ==
    \A r \in Recyclers : \A i, j \in DOMAIN r :
        /\ ~UnderDir(r[j].dir, r[i].dir)
        /\ \A q \in CallPaths : ~IsPrefix(q, r[i].dir)

\* Nobody deletes what a file system is mounted on.
MountsKept == \A q \in CallPaths \cap Paths : ~IsMount(q)

\* A directory stays one unless a call deletes it or it is in a bin.
LEMMA DirStays ==
    ASSUME TypeOK, Unlinked(tree), [Next]_vars, NEW c \in Paths,
           tree[c].kind = "dir", c \notin CallPaths, ~InBin(c)
    PROVE  tree'[c].kind = "dir"
<1>0. tree \in [Paths -> Node]
    BY DEF TypeOK, Tree
<1>1. ASSUME NEW p \in Procs, Step(p)
      PROVE  tree'[c].kind = "dir"
    <2>1. CASE Makes(p, tree, tree')
        <3>1. PICK q, w : tree' = [tree EXCEPT ![q] = Dir(w)]
            BY <2>1 DEF Makes
        <3> QED BY <1>0, <3>1 DEF Dir
    <2>2. CASE Clears(p, tree, tree')
        BY <1>0, <2>2 DEF Clears
    <2>3. CASE Moves(p, tree, tree')
        BY <1>0, <2>3 DEF Moves
    <2>4. CASE Deletes(p, tree, tree')
        <3>1. call[p].path \in CallPaths
            BY <2>4 DEF Deletes, TypeOK, InCall
        <3> QED BY <1>0, <2>4, <3>1 DEF Deletes
    <2> QED BY <1>1, <2>1, <2>2, <2>3, <2>4, StepFlat
<1>2. CASE User
    <2>1. CASE Empty
        BY <1>0, <2>1 DEF Empty, UserPut
    <2>2. CASE Chmod
        <3>1. PICK q, w : tree' = [tree EXCEPT ![q] = Dir(w)]
            BY <2>2 DEF Chmod, UserPut
        <3> QED BY <1>0, <3>1 DEF Dir
    <2>3. CASE Create \/ MakeDir \/ Symlink \/ HardLink
        <3>1. PICK q, n : /\ tree' = [tree EXCEPT ![q] = n]
                          /\ Free(q) \/ tree[q].kind = "reg"
            BY <2>3 DEF Create, MakeDir, Symlink, HardLink, UserPut
        <3>2. q # c
            BY <3>1 DEF Free, At
        <3> QED BY <1>0, <3>1, <3>2
    <2> QED BY <1>2, <2>1, <2>2, <2>3 DEF User
<1> QED BY <1>1, <1>2 DEF Next, vars, Call

\* So does all that is above a bin.
LEMMA BinStays ==
    ASSUME BinsKept, TypeOK, Unlinked(tree), [Next]_vars,
           NEW i \in DOMAIN recycler, PathErr(tree, recycler[i].dir) = "ok"
    PROVE  PathErr(tree', recycler[i].dir) = "ok"
<1>1. /\ recycler \in Recyclers /\ recycler \in Seq(BinEntry)
      /\ \A j \in DOMAIN recycler : recycler[j].dir \in Seq(Names)
    <2>1. recycler \in Recyclers /\ recycler \in Seq(BinEntry)
        BY RecyclixAssumption DEF TypeOK
    <2>2. \A j \in DOMAIN recycler : recycler[j] \in BinEntry
        BY <2>1, ElementOfSeq
    <2> QED BY <2>1, <2>2, FileTreeAssumption DEF BinEntry
<1>2. PICK b \in Seq(Names) : b = recycler[i].dir
    BY <1>1
<1>3. PICK n \in Nat : n = Len(b)
    OBVIOUS
<1>4. SUFFICES ASSUME NEW k \in 0..(n - 1)
               PROVE  At(tree', Prefix(b, k)).kind = "dir"
    BY <1>2, <1>3, Searchable
<1>5. At(tree, Prefix(b, k)).kind = "dir"
    BY <1>2, <1>3, Searchable
<1>6. PICK c \in Seq(Names) : c = Prefix(b, k) /\ Len(c) = k /\ IsPrefix(c, b)
    <2>1. k \in Int /\ k <= n /\ k \in Nat
        OBVIOUS
    <2>2. /\ Prefix(b, k) \in Seq(Names)
          /\ Len(Prefix(b, k)) = IF 1 <= k THEN k ELSE 0
        BY <1>3, <2>1, PrefixIs
    <2>3. Len(Prefix(b, k)) = k
        BY <2>1, <2>2
    <2> QED BY <1>3, <2>1, <2>2, <2>3, PrefixBegins
<1>7. c \in Paths /\ tree[c].kind = "dir"
    BY <1>5, <1>6 DEF At, None
<1>8. c \notin CallPaths
    BY <1>1, <1>2, <1>6 DEF BinsKept
<1>9. ~InBin(c)
    <2> SUFFICES ASSUME NEW j \in DOMAIN recycler,
                        IsStrictPrefix(recycler[j].dir, c)
                 PROVE  FALSE
        BY DEF InBin, UnderDir
    <2>1. PICK a \in Seq(Names) : a = recycler[j].dir
        BY <1>1
    <2>2. IsPrefix(a, b)
        BY <1>6, <2>1, PrefixTransitive DEF IsStrictPrefix
    <2>3. Len(a) <= k
        BY <1>6, <2>1 DEF IsStrictPrefix, IsPrefix
    <2>4. a # b
        BY <1>3, <2>3
    <2> QED BY <1>1, <1>2, <2>1, <2>2, <2>4 DEF BinsKept, UnderDir,
                                                IsStrictPrefix
<1>10. tree'[c].kind = "dir"
    BY <1>7, <1>8, <1>9, DirStays
<1> QED BY <1>6, <1>7, <1>10 DEF At

-----------------------------------------------------------------------------
(* What a call changes outside the bins *)

\* How deep a clone is: not below the bin, and on it only to make or see it.
\* The directories above the bin are there.
DeepOk(t, l, x) ==
    /\ x \in {"fstatat", "choose", "resolve", "walk"} => l.modes = <<>>
    /\ x \in {"resolve", "walk"} \cup Cloning => PathErr(t, Bin(l).dir) = "ok"
    /\ x \in {"donor", "rmparent"} => Len(l.modes) <= Deep(l)
    /\ x \in {"mkdir", "statdst", "chmoddst", "rmdst"} =>
            Len(l.modes) <= Deep(l) + 1
DeepInv == \A p \in Procs : DeepOk(tree, call[p], pc[p])

\* What holds between a state and the next one in this section.
Steady ==
    /\ TypeOK /\ TypeOK' /\ WalkInv /\ WalkInv' /\ WayInv /\ WayInv' /\ DeepInv
    /\ Unlinked(tree) /\ recycler' = recycler
    /\ \A i \in DOMAIN recycler :
            PathErr(tree, recycler[i].dir) = "ok"
                => PathErr(tree', recycler[i].dir) = "ok"

\* One process moves on, the others stay.
LEMMA ProcessDeep ==
    ASSUME Steady, NEW p \in Procs, NEW l, NEW x,
           pc' = [pc EXCEPT ![p] = x], call' = [call EXCEPT ![p] = l],
           DeepOk(tree', l, x)
    PROVE  DeepInv'
<1> SUFFICES ASSUME NEW q \in Procs
             PROVE  DeepOk(tree, call[q], pc[q])'
    BY DEF DeepInv
<1>1. (q = p => call'[q] = l /\ pc'[q] = x)
      /\ (q # p => call'[q] = call[q] /\ pc'[q] = pc[q])
    BY DEF Steady, TypeOK
<1>2. DeepOk(tree', call'[q], pc'[q])
    <2>1. CASE q = p
        BY <1>1, <2>1
    <2>2. CASE q # p
        <3>1. DeepOk(tree, call[q], pc[q])
            BY DEF Steady, DeepInv
        <3>2. pc[q] \in {"resolve", "walk"} \cup Cloning =>
                    PathErr(tree', Bin(call[q]).dir) = "ok"
            <4> HAVE pc[q] \in {"resolve", "walk"} \cup Cloning
            <4>1. recycler # <<>> /\ pc[q] \in InCall
                BY DEF Steady, WayInv, WayOk, InCall, Cloning
            <4>2. call[q].bin \in DOMAIN recycler
                BY <4>1 DEF Steady, TypeOK
            <4> QED BY <3>1, <4>2 DEF DeepOk, Steady, Bin
        <3> QED BY <1>1, <2>2, <3>1, <3>2 DEF DeepOk
    <2> QED BY <2>1, <2>2
<1> QED BY <1>2 DEF DeepOk, Deep, Apart, Bin, Steady

\* A call that has returned has nothing to keep.
LEMMA ReturnDeep ==
    ASSUME Steady, NEW p \in Procs, NEW x \in Returned, Return(p, x)
    PROVE  DeepInv'
<1>1. DeepOk(tree', Blank, x)
    BY DEF DeepOk, Returned, Cloning
<1> QED BY <1>1, ProcessDeep DEF Return, Goto

\* The bin of a call that goes on stays where it is.
LEMMA BinThere ==
    ASSUME Steady, NEW p \in Procs, pc[p] \in {"resolve", "walk"} \cup Cloning
    PROVE  PathErr(tree', Bin(call[p]).dir) = "ok"
<1>1. recycler # <<>> /\ pc[p] \in InCall
    BY DEF Steady, WayInv, WayOk, InCall, Cloning
<1>2. call[p].bin \in DOMAIN recycler
    BY <1>1 DEF Steady, TypeOK
<1>3. DeepOk(tree, call[p], pc[p])
    BY DEF Steady, DeepInv
<1> QED BY <1>2, <1>3 DEF DeepOk, Steady, Bin

\* A clone goes on at the same depth.
LEMMA GotoDeep ==
    ASSUME Steady, NEW p \in Procs, pc[p] \in Cloning, NEW x \in Cloning,
           Goto(p, x), call' = call, Len(call[p].modes) <= Deep(call[p])
             \/ (x \in {"mkdir", "statdst", "chmoddst", "rmdst"}
                 /\ Len(call[p].modes) <= Deep(call[p]) + 1)
    PROVE  DeepInv'
<1>1. call' = [call EXCEPT ![p] = call[p]]
    BY DEF Steady, TypeOK
<1>2. Len(call[p].modes) \in Nat /\ call[p].mp \in Nat
      /\ Len(call[p].fq) \in Nat
    BY DEF Steady, TypeOK, Calls
<1>3. Deep(call[p]) \in Int
    BY <1>2 DEF Deep, Apart
<1>4. Len(call[p].modes) <= Deep(call[p]) =>
            Len(call[p].modes) <= Deep(call[p]) + 1
    BY <1>2, <1>3
<1>5. DeepOk(tree', call[p], x)
    BY <1>4, BinThere DEF DeepOk, Cloning
<1> QED BY <1>1, <1>5, ProcessDeep DEF Goto

\* A clone that is done leaves one depth.
LEMMA CloneDoneDeep ==
    ASSUME Steady, NEW p \in Procs, pc[p] \in {"mkdir", "chmoddst"},
           CloneDone(p)
    PROVE  DeepInv'
<1> DEFINE l == call[p]
<1>1. l \in Calls /\ DeepOk(tree, l, pc[p])
    BY DEF Steady, TypeOK, DeepInv
<1>2. PICK s \in Seq(BOOLEAN) : s = l.modes
    BY <1>1 DEF Calls
<1>3. CASE Len(s) > 1
    <2> DEFINE k == [l EXCEPT !.modes = Front(@)]
    <2>1. /\ pc' = [pc EXCEPT ![p] = "mkdir"] /\ call' = [call EXCEPT ![p] = k]
        BY <1>2, <1>3 DEF CloneDone, Goto
    <2>2. Len(Front(s)) = Len(s) - 1
        BY <1>3 DEF Front
    <2>3. /\ k.bin = l.bin /\ k.fq = l.fq /\ k.mp = l.mp /\ k.st = l.st
          /\ k.modes = Front(s)
        BY <1>1, <1>2 DEF Calls
    <2> HIDE DEF k
    <2>4. Bin(k) = Bin(l) /\ Deep(k) = Deep(l)
        BY <2>3 DEF Bin, Deep, Apart
    <2>5. Len(s) <= Deep(l) + 1
        BY <1>1, <1>2 DEF DeepOk
    <2>6. Deep(l) \in Int
        <3>1. l.mp \in Nat /\ Len(l.fq) \in Nat
            BY <1>1 DEF Calls
        <3> QED BY <3>1 DEF Deep, Apart
    <2>7. Len(k.modes) <= Deep(k) + 1
        <3>1. PICK n \in Nat, d \in Int : n = Len(s) /\ d = Deep(l)
            BY <1>2, <2>6
        <3> QED BY <2>2, <2>3, <2>4, <2>5, <3>1
    <2>8. DeepOk(tree', k, "mkdir")
        BY <2>4, <2>7, BinThere DEF DeepOk, Cloning
    <2> QED BY <2>1, <2>8, ProcessDeep
<1>4. CASE ~(Len(s) > 1)
    <2> DEFINE k == [l EXCEPT !.modes = <<>>]
               x == IF l.st.kind = "dir" THEN "real" ELSE "rename"
    <2>1. pc' = [pc EXCEPT ![p] = x] /\ call' = [call EXCEPT ![p] = k]
        BY <1>2, <1>4 DEF CloneDone, Goto
    <2>2. DeepOk(tree', k, x)
        BY DEF DeepOk, Cloning
    <2> HIDE DEF k, x
    <2> QED BY <2>1, <2>2, ProcessDeep
<1> QED BY <1>3, <1>4

\* A clone whose parent is missing is not at the bin.
LEMMA MissingParent ==
    ASSUME Steady, NEW p \in Procs, pc[p] = "mkdir",
           MkdirErr(tree, Current(call[p])) \in {"ENOENT", "ENOTDIR"}
    PROVE  Len(call[p].modes) <= Deep(call[p])
<1> DEFINE l == call[p]
<1>1. /\ l \in Calls /\ Len(l.modes) <= Deep(l) + 1
      /\ PathErr(tree, Bin(l).dir) = "ok"
    BY DEF Steady, TypeOK, DeepInv, DeepOk, Cloning
<1>2. Placed(l)
    BY PlacedOnceFound DEF Steady, Cloning
<1>3. PICK n \in Nat : Len(l.modes) = n + 1 /\ n = Len(l.modes) - 1
    <2>1. PICK s \in Seq(BOOLEAN) : s = l.modes /\ s # <<>>
        BY DEF Steady, TypeOK, Calls
    <2>2. Len(s) \in Nat /\ Len(s) # 0
        BY <2>1, EmptySeq
    <2> QED BY <2>1, <2>2
<1>4. PICK d \in Int : d = Deep(l)
    <2>1. l.mp \in Nat /\ Len(l.fq) \in Nat
        BY <1>1 DEF Calls
    <2> QED BY <2>1 DEF Deep, Apart
<1>5. PathErr(tree, Current(l)) # "ok"
    <2>1. Canon(tree, Current(l), FALSE) = Current(l)
        BY UnlinkedCanon, Zenon DEF Steady
    <2> QED BY <2>1 DEF MkdirErr
<1>6. n <= d
    BY <1>1, <1>3, <1>4
<1>7. n # d
    <2>1. d \in Nat
        BY <1>6
    <2>2. n = d => PathAt(l, n) = Bin(l).dir
        BY <1>2, <1>4, <1>6, <2>1, PlaceInBin
    <2> QED BY <1>1, <1>3, <1>5, <2>2 DEF Current
<1> QED BY <1>3, <1>4, <1>6, <1>7

\* A mount point is above what is deleted, so there is a directory to clone or
\* the bin itself.
LEMMA CloneBegins ==
    ASSUME MountsKept, Steady, NEW p \in Procs, pc[p] = "walk",
           Goto(p, "donor"), call' = call
    PROVE  DeepInv'
<1> DEFINE l == call[p]
<1>1. call' = [call EXCEPT ![p] = l] /\ pc'[p] = "donor" /\ call'[p] = l
    BY DEF Steady, TypeOK, Goto
<1>2. l \in Calls /\ l.modes = <<>> /\ l.path \in CallPaths
    BY DEF Steady, TypeOK, DeepInv, DeepOk, InCall
<1>3. l.fq = l.path /\ l.path \in Paths
    BY DEF Steady, WayInv, WayOk
<1>4. l.mp = MountLen(l.fq)
    BY <1>1 DEF Steady, WalkInv, WalkOk, MountFound, Cloning
<1>5. PICK q \in Seq(Names) : q = l.path /\ ~IsMount(q)
    BY <1>2, <1>3, FileTreeAssumption DEF MountsKept
<1>6. PICK n \in Nat : n = Len(q)
    OBVIOUS
<1>7. MountLen(q) \in 0..n /\ IsMount(Prefix(q, MountLen(q)))
    BY <1>6, MountLenIs
<1>8. MountLen(q) # n
    BY <1>5, <1>6, <1>7, PrefixFull
<1>9. PICK m \in 0..n : m = l.mp /\ m < n
    BY <1>3, <1>4, <1>5, <1>7, <1>8
<1>10. 0 <= Deep(l)
    <2>1. PICK a \in 0..1 : a = Apart(l)
        BY DEF Apart
    <2>2. Deep(l) = n - m - a
        BY <1>3, <1>5, <1>6, <1>9, <2>1 DEF Deep
    <2> QED BY <1>9, <2>2
<1>11. DeepOk(tree', l, "donor")
    BY <1>2, <1>10, BinThere DEF DeepOk, Cloning
<1> QED BY <1>1, <1>11, ProcessDeep DEF Goto

\* The system calls before the clone.
LEMMA EarlyDeep ==
    ASSUME MountsKept, Steady, NEW p \in Procs,
           Fstatat(p) \/ TakeBin(p) \/ SkipBin(p) \/ Resolve(p) \/ WalkUp(p)
    PROVE  DeepInv'
<1> DEFINE l == call[p]
<1>1. /\ l \in Calls /\ DeepOk(tree, l, pc[p]) /\ tree' = tree
    BY DEF Steady, TypeOK, DeepInv, Fstatat, TakeBin, SkipBin, Resolve, WalkUp
<1>2. l.modes = <<>>
    BY <1>1 DEF DeepOk, Fstatat, TakeBin, SkipBin, Resolve, WalkUp
<1>3. call = [call EXCEPT ![p] = l] /\ pc = [pc EXCEPT ![p] = pc[p]]
    BY DEF Steady, TypeOK
<1>4. ASSUME Goto(p, "real"), call' = call
      PROVE  DeepInv'
    <2>1. DeepOk(tree', l, "real")
        BY DEF DeepOk, Cloning
    <2> QED BY <1>3, <1>4, <2>1, ProcessDeep DEF Goto
<1>5. ASSUME NEW x \in {"choose", "walk"}, NEW k,
             pc' = [pc EXCEPT ![p] = x], call' = [call EXCEPT ![p] = k],
             k.modes = l.modes, k.bin = l.bin \/ x = "choose",
             pc[p] \in {"resolve", "walk"} \/ x = "choose"
      PROVE  DeepInv'
    <2>1. x = "walk" => PathErr(tree', Bin(k).dir) = "ok"
        BY <1>5, BinThere DEF Bin
    <2>2. DeepOk(tree', k, x)
        BY <1>2, <1>5, <2>1 DEF DeepOk, Cloning
    <2> QED BY <1>5, <2>2, ProcessDeep
<1>6. CASE Fstatat(p)
    <2> DEFINE n == Lookup(tree, l.path, FALSE)
               k == [l EXCEPT !.st = n, !.dev = DevOf(tree, l.path, FALSE)]
    <2>1. CASE call' = [call EXCEPT ![p] = k] /\ Goto(p, "choose")
        <3>1. k.modes = l.modes
            BY <1>1 DEF Calls
        <3> HIDE DEF k
        <3> QED BY <1>5, <2>1, <3>1 DEF Goto
    <2> QED BY <1>6, <2>1, ReturnDeep DEF Fstatat, Returned
<1>7. CASE TakeBin(p)
    <2> DEFINE k == [l EXCEPT !.ino = InoOf(tree, Bin(l).dir, TRUE)]
    <2>1. call' = [call EXCEPT ![p] = k] /\ Goto(p, "resolve")
        BY <1>7 DEF TakeBin
    <2>2. k.modes = l.modes /\ k.bin = l.bin
        BY <1>1 DEF Calls
    <2>3. PathErr(tree, Bin(l).dir) = "ok"
        <3>1. PICK yes : yes = TRUE /\ yes \in BOOLEAN
            OBVIOUS
        <3>2. Lookup(tree, Bin(l).dir, yes) # None
            BY <1>7, <3>1 DEF TakeBin, Accepts
        <3> QED BY <3>1, <3>2, LookupFlat DEF Steady
    <2> HIDE DEF k
    <2>4. DeepOk(tree', k, "resolve")
        BY <1>1, <1>2, <2>2, <2>3 DEF DeepOk, Cloning, Bin
    <2> QED BY <2>1, <2>4, ProcessDeep DEF Goto
<1>8. CASE SkipBin(p)
    <2> DEFINE k == [l EXCEPT !.bin = @ + 1]
    <2>1. CASE call' = [call EXCEPT ![p] = k] /\ pc' = pc /\ pc[p] = "choose"
        <3>1. k.modes = l.modes
            BY <1>1 DEF Calls
        <3> HIDE DEF k
        <3> QED BY <1>3, <1>5, <2>1, <3>1
    <2> QED BY <1>4, <1>8, <2>1 DEF SkipBin
<1>9. CASE Resolve(p)
    <2> DEFINE fq == Append(Canon(tree, Parent(l.path), TRUE), Last(l.path))
               k == [l EXCEPT !.fq = fq, !.mp = Len(fq)]
    <2>1. call' = [call EXCEPT ![p] = k] /\ Goto(p, "walk") /\ pc[p] = "resolve"
        BY <1>9 DEF Resolve
    <2>2. k.modes = l.modes /\ k.bin = l.bin
        BY <1>1 DEF Calls
    <2> HIDE DEF k
    <2> QED BY <1>5, <2>1, <2>2 DEF Goto
<1>10. CASE WalkUp(p)
    <2> DEFINE k == [l EXCEPT !.mp = @ - 1]
    <2>1. CASE call' = [call EXCEPT ![p] = k] /\ pc' = pc /\ pc[p] = "walk"
        <3>1. k.modes = l.modes /\ k.bin = l.bin
            BY <1>1 DEF Calls
        <3> HIDE DEF k
        <3> QED BY <1>3, <1>5, <2>1, <3>1
    <2>2. pc[p] = "walk"
        BY <1>10 DEF WalkUp
    <2>3. \/ Return(p, "failed")
          \/ Goto(p, "real") /\ call' = call
          \/ Goto(p, "donor") /\ call' = call
          \/ call' = [call EXCEPT ![p] = k] /\ pc' = pc
        BY <1>10 DEF WalkUp
    <2>4. CASE Return(p, "failed")
        BY <2>4, ReturnDeep DEF Returned
    <2> QED BY <1>4, <2>1, <2>2, <2>3, <2>4, CloneBegins
<1> QED BY <1>6, <1>7, <1>8, <1>9, <1>10

\* The system calls of the clone.
LEMMA CloningDeep ==
    ASSUME Steady, NEW p \in Procs,
           \/ DonorStat(p) \/ Mkdir(p) \/ RmParent(p)
           \/ StatDst(p) \/ ChmodDst(p) \/ RmDst(p)
    PROVE  DeepInv'
<1> DEFINE l == call[p]
<1>1. l \in Calls /\ DeepOk(tree, l, pc[p]) /\ pc[p] \in Cloning
    BY DEF Steady, TypeOK, DeepInv, DonorStat, Mkdir, RmParent, StatDst,
           ChmodDst, RmDst, Cloning
<1>2. CASE Return(p, "failed")
    BY <1>2, ReturnDeep DEF Returned
<1>3. CASE DonorStat(p)
    <2> DEFINE n == Lookup(tree, DonorAt(l, Len(l.modes)), TRUE)
               k == [l EXCEPT !.modes = Append(@, ModeOf(n))]
    <2>1. CASE call' = [call EXCEPT ![p] = k] /\ Goto(p, "mkdir")
        <3>1. PICK s, w : /\ s = l.modes /\ w = ModeOf(n)
                          /\ s \in Seq(BOOLEAN)
            BY <1>1 DEF Calls
        <3>2. /\ k.bin = l.bin /\ k.fq = l.fq /\ k.mp = l.mp /\ k.st = l.st
              /\ k.modes = Append(s, w)
            BY <1>1, <3>1 DEF Calls
        <3> HIDE DEF k
        <3>3. Bin(k) = Bin(l) /\ Deep(k) = Deep(l)
            BY <3>2 DEF Bin, Deep, Apart
        <3>4. Len(k.modes) = Len(s) + 1
            BY <3>1, <3>2
        <3>5. Len(s) <= Deep(l)
            BY <1>1, <1>3, <3>1 DEF DeepOk, DonorStat
        <3>6. PICK i \in Nat, d \in Int : i = Len(s) /\ d = Deep(l)
            <4>1. l.mp \in Nat /\ Len(l.fq) \in Nat
                BY <1>1 DEF Calls
            <4>2. PICK x \in Nat, y \in Nat, a \in Nat :
                      x = Len(l.fq) /\ y = l.mp /\ a = Apart(l)
                BY <4>1 DEF Apart
            <4>3. PICK i \in Nat : i = Len(s)
                BY <3>1
            <4>4. PICK d \in Int : d = Deep(l)
                BY <4>2 DEF Deep
            <4> QED BY <4>3, <4>4
        <3>7. Len(k.modes) <= Deep(k) + 1
            BY <3>3, <3>4, <3>5, <3>6
        <3>8. DeepOk(tree', k, "mkdir")
            BY <1>1, <3>3, <3>7, BinThere DEF DeepOk, Cloning
        <3> QED BY <2>1, <3>8, ProcessDeep DEF Goto
    <2> QED BY <1>2, <1>3, <2>1 DEF DonorStat
<1>4. CASE Mkdir(p)
    <2>1. pc[p] = "mkdir" /\ Len(l.modes) <= Deep(l) + 1
        BY <1>1, <1>4 DEF Mkdir, DeepOk
    <2>2. CASE Goto(p, "rmparent") /\ call' = call
               /\ MkdirErr(tree, Current(l)) \in {"ENOENT", "ENOTDIR"}
        <3>1. Len(l.modes) <= Deep(l)
            BY <2>1, <2>2, MissingParent
        <3> QED BY <1>1, <2>2, <3>1, GotoDeep DEF Cloning
    <2>3. CASE Goto(p, "statdst") /\ call' = call
        BY <1>1, <2>1, <2>3, GotoDeep DEF Cloning
    <2> QED BY <1>2, <1>4, <2>1, <2>2, <2>3, CloneDoneDeep DEF Mkdir
<1>5. CASE RmParent(p)
    <2>1. Len(l.modes) <= Deep(l)
        BY <1>1, <1>5 DEF RmParent, DeepOk
    <2>2. CASE \E x \in Cloning : Goto(p, x) /\ call' = call
        BY <1>1, <2>1, <2>2, GotoDeep
    <2> QED BY <1>2, <1>5, <2>2 DEF RmParent, Cloning
<1>6. CASE StatDst(p)
    <2>1. pc[p] = "statdst" /\ Len(l.modes) <= Deep(l) + 1
        BY <1>1, <1>6 DEF StatDst, DeepOk
    <2>2. CASE (Goto(p, "chmoddst") \/ Goto(p, "rmdst")) /\ call' = call
        BY <1>1, <2>1, <2>2, GotoDeep DEF Cloning
    <2> QED BY <1>2, <1>6, <2>2 DEF StatDst
<1>6a. CASE ChmodDst(p)
    BY <1>6a, CloneDoneDeep DEF ChmodDst
<1>7. CASE RmDst(p)
    <2>1. Len(l.modes) <= Deep(l) + 1
        BY <1>1, <1>7 DEF RmDst, DeepOk
    <2>2. CASE Goto(p, "mkdir") /\ call' = call
        BY <1>1, <2>1, <2>2, GotoDeep DEF Cloning
    <2> QED BY <1>2, <1>7, <2>2 DEF RmDst
<1> QED BY <1>3, <1>4, <1>5, <1>6, <1>6a, <1>7

\* Every step of the system.
LEMMA NextDeep ==
    ASSUME OneMount, NoLinks, MountsKept, BinsKept, TypeOK, WalkInv, WayInv,
           DeepInv, [Next]_vars
    PROVE  DeepInv'
<1>1. Steady
    <2>1. Unlinked(tree) /\ recycler' = recycler /\ TypeOK'
        BY RecyclerStays, NextType DEF WalkInv
    <2>2. WalkInv' /\ WayInv'
        BY <2>1, NextWalks, NextWay
    <2> QED BY <2>1, <2>2, BinStays DEF Steady
<1>2. ASSUME NEW p \in Procs, Step(p)
      PROVE  DeepInv'
    <2>1. CASE BadOption(p) \/ AtDirFails(p) \/ RealpathFails(p) \/ Rename(p)
               \/ RealUnlink(p)
        BY <1>1, <2>1, ReturnDeep DEF BadOption, AtDirFails, RealpathFails,
                                      Rename, RealUnlink, Returned
    <2> QED BY <1>1, <1>2, <2>1, EarlyDeep, CloningDeep DEF Step
<1>3. ASSUME NEW p \in Procs, Call(p)
      PROVE  DeepInv'
    <2>1. PICK q, m, d :
              call' = [call EXCEPT ![p] =
                        [Blank EXCEPT !.path = q, !.mode = m, !.rmdir = d]]
        BY <1>3 DEF Call
    <2> DEFINE k == [Blank EXCEPT !.path = q, !.mode = m, !.rmdir = d]
               x == IF recycler = <<>> THEN "real" ELSE "fstatat"
    <2>2. k.modes = <<>>
        BY DEF Blank
    <2>3. pc' = [pc EXCEPT ![p] = x]
        BY <1>3 DEF Call, Goto
    <2>4. DeepOk(tree', k, x)
        BY <2>2 DEF DeepOk, Cloning
    <2> HIDE DEF k, x
    <2>5. call' = [call EXCEPT ![p] = k]
        BY <2>1 DEF k
    <2> QED BY <1>1, <2>3, <2>4, <2>5, ProcessDeep
<1>4. ASSUME UNCHANGED <<pc, call>>
      PROVE  DeepInv'
    <2> SUFFICES ASSUME NEW q \in Procs
                 PROVE  DeepOk(tree, call[q], pc[q])'
        BY DEF DeepInv
    <2>1. DeepOk(tree, call[q], pc[q])
        BY DEF DeepInv
    <2>2. pc[q] \in {"resolve", "walk"} \cup Cloning =>
                PathErr(tree', Bin(call[q]).dir) = "ok"
        BY <1>1, BinThere
    <2>3. DeepOk(tree', call[q], pc[q])
        BY <2>1, <2>2 DEF DeepOk
    <2> QED BY <1>1, <1>4, <2>3 DEF DeepOk, Deep, Apart, Bin, Steady
<1> QED BY <1>2, <1>3, <1>4, UserApart DEF Next, vars

\* What begins with the bin of a call is in a bin.
AtBin(q) == \E i \in DOMAIN recycler :
                q = recycler[i].dir \/ UnderDir(recycler[i].dir, q)

\* A call that clones or renames has an entry of RECYCLER, and what lies below
\* the directory of that entry is at a bin.
LEMMA BinOfCall ==
    ASSUME TypeOK, WayInv, NEW p \in Procs, pc[p] \in Cloning \cup {"rename"},
           NEW q, IsPrefix(Bin(call[p]).dir, q)
    PROVE  AtBin(q)
<1>1. recycler # <<>> /\ pc[p] \in InCall
    BY DEF WayInv, WayOk, InCall, Cloning
<1>2. call[p].bin \in DOMAIN recycler
    BY <1>1 DEF TypeOK
<1> QED BY <1>2 DEF AtBin, Bin, UnderDir, IsStrictPrefix

\* The directory a clone is at is in the bin, and so is its parent when it is
\* looked at.
LEMMA CurrentInBin ==
    ASSUME TypeOK, WalkInv, WayInv, DeepInv, NEW p \in Procs,
           pc[p] \in {"mkdir", "statdst", "chmoddst", "rmdst", "rmparent"}
    PROVE  /\ IsPrefix(Bin(call[p]).dir, Current(call[p]))
           /\ pc[p] = "rmparent" =>
                    IsPrefix(Bin(call[p]).dir, Parent(Current(call[p])))
<1> DEFINE l == call[p]
<1>1. l \in Calls /\ DeepOk(tree, l, pc[p]) /\ Placed(l)
    BY PlacedOnceFound DEF TypeOK, DeepInv, Cloning
<1>2. PICK n \in Nat : Len(l.modes) = n + 1 /\ n = Len(l.modes) - 1
    <2>1. PICK s \in Seq(BOOLEAN) : s = l.modes /\ s # <<>>
        BY DEF TypeOK, Calls
    <2>2. Len(s) \in Nat /\ Len(s) # 0
        BY <2>1, EmptySeq
    <2>3. PICK n \in Nat : Len(s) = n + 1 /\ n = Len(s) - 1
        BY <2>2
    <2> QED BY <2>1, <2>3
<1>3. PICK d \in Int : d = Deep(l)
    <2>1. l.mp \in Nat /\ Len(l.fq) \in Nat
        BY <1>1 DEF Calls
    <2> QED BY <2>1 DEF Deep, Apart
<1>4. n <= d /\ (pc[p] = "rmparent" => n < d)
    BY <1>1, <1>2, <1>3 DEF DeepOk
<1>5. d \in Nat /\ n \in 0..d
    BY <1>4
<1>6. IsPrefix(Bin(l).dir, Current(l))
    BY <1>1, <1>2, <1>3, <1>5, PlaceInBin DEF Current
<1>7. ASSUME pc[p] = "rmparent"
      PROVE  IsPrefix(Bin(l).dir, Parent(Current(l)))
    <2>1. n # d /\ n + 1 \in 0..d
        BY <1>4, <1>5, <1>7
    <2>2. Parent(Current(l)) = PathAt(l, n + 1)
        BY <1>1, <1>2, <1>3, <1>5, <2>1, PlaceInBin DEF Current
    <2> QED BY <1>1, <1>3, <1>5, <2>1, <2>2, PlaceInBin
<1> QED BY <1>6, <1>7

\* What a step changes that is in no bin.
LEMMA FrameStep ==
    ASSUME TypeOK, WalkInv, WayInv, DeepInv, Unlinked(tree),
           NEW p \in Procs, Step(p), NEW q \in Paths
    PROVE  \/ tree'[q] = tree[q] \/ AtBin(q)
           \/ /\ pc'[p] = "zero" /\ tree'[q] = None
              /\ q = Canon(tree, call[p].path, FALSE)
<1> DEFINE l == call[p]
<1>0. tree \in [Paths -> Node] /\ \A d : Canon(tree, l.path, d) = l.path
    BY UnlinkedCanon DEF TypeOK, Tree
<1>1. CASE Makes(p, tree, tree')
    <2>1. PICK n : /\ tree' = [tree EXCEPT ![Current(l)] = n]
                   /\ pc[p] \in {"mkdir", "chmoddst"}
        BY <1>1 DEF Makes
    <2>2. AtBin(Current(l))
        BY <2>1, CurrentInBin, BinOfCall DEF Cloning
    <2> QED BY <1>0, <2>1, <2>2
<1>2. CASE Clears(p, tree, tree')
    <2>1. PICK c \in Paths :
              /\ \/ pc[p] = "rmparent" /\ c = Parent(Current(l))
                 \/ pc[p] = "rmdst" /\ c = Current(l)
              /\ tree' = [tree EXCEPT ![c] = None]
        BY <1>2 DEF Clears
    <2>2. AtBin(c)
        BY <2>1, CurrentInBin, BinOfCall DEF Cloning
    <2> QED BY <1>0, <2>1, <2>2
<1>3. CASE Moves(p, tree, tree')
    <2>1. PICK co \in Paths, cn \in Paths :
              /\ pc[p] = "rename" /\ pc'[p] = "zero"
              /\ co = l.path /\ cn = Recycled(l)
              /\ \/ tree' = tree
                 \/ tree' = [tree EXCEPT ![cn] = tree[co], ![co] = None]
        BY <1>3 DEF Moves
    <2>2. AtBin(cn)
        BY <2>1, PlacedOnceFound, RecycledIs, BinOfCall
    <2>3. tree'[q] = tree[q] \/ q = cn \/ (q = co /\ tree'[q] = None)
        BY <1>0, <2>1
    <2>4. co = Canon(tree, l.path, FALSE)
        BY <1>0, <2>1, Zenon
    <2> QED BY <2>1, <2>2, <2>3, <2>4, Zenon
<1>4. CASE Deletes(p, tree, tree')
    <2>1. PICK c \in Paths : /\ c = l.path /\ pc'[p] = "zero"
                             /\ tree' = [tree EXCEPT ![c] = None]
        BY <1>4 DEF Deletes
    <2>2. tree'[q] = tree[q] \/ (q = c /\ tree'[q] = None)
        BY <1>0, <2>1
    <2>3. c = Canon(tree, l.path, FALSE)
        BY <1>0, <2>1, Zenon
    <2> QED BY <2>1, <2>2, <2>3, Zenon
<1> QED BY <1>1, <1>2, <1>3, <1>4, StepFlat

\* Outside the bins a call of unlinkat changes nothing but the entry it deletes,
\* and that one only in the step that reports success: a call that fails
\* half-way, in clonepath or in renameat, has left the user's files alone.  Any
\* number of processes and a user who acts at any moment may take part; there
\* are no symbolic links, and nobody deletes a mount point or a directory that a
\* bin is in.
THEOREM OutsideTheBins ==
    ASSUME OneMount, NoLinks, MountsKept, BinsKept
    PROVE  Spec => LiveTreeFrame
<1>1. Init => WayInv /\ DeepInv
    BY DEF Init, WayInv, WayOk, DeepInv, DeepOk, InCall, Cloning
<1>2. TypeOK /\ WalkInv /\ WayInv /\ DeepInv /\ [Next]_vars =>
            WalkInv' /\ WayInv' /\ DeepInv'
    BY NextWalks, NextWay, NextDeep DEF WalkInv
<1>3. TypeOK /\ WalkInv /\ WayInv /\ DeepInv /\ [Next]_vars =>
        [\A p \in Procs : Stepped(p) =>
            \A q \in Paths :
                \/ tree'[q] = tree[q]
                \/ \E i \in DOMAIN recycler :
                        q = recycler[i].dir \/ UnderDir(recycler[i].dir, q)
                \/ /\ pc'[p] = "zero"
                   /\ q = Canon(tree, call[p].path, FALSE)
                   /\ tree'[q] = None]_vars
    <2> SUFFICES ASSUME TypeOK, WalkInv, WayInv, DeepInv, [Next]_vars,
                        NEW p \in Procs, Stepped(p), NEW q \in Paths
                 PROVE  \/ tree'[q] = tree[q] \/ AtBin(q)
                        \/ /\ pc'[p] = "zero" /\ tree'[q] = None
                           /\ q = Canon(tree, call[p].path, FALSE)
        BY Zenon DEF AtBin
    <2> QED BY SteppedIsStep, FrameStep DEF WalkInv
<1> QED BY <1>1, <1>2, <1>3, InitWalks, TypeCorrect, PTL
        DEF Spec, LiveTreeFrame

-----------------------------------------------------------------------------
(* Success *)

\* The user waits for the one process there is.
LEMMA UserWaits ==
    ASSUME Alone, User, NEW p \in Procs
    PROVE  pc[p] \in Returned
BY DEF Alone, User, Create, MakeDir, Symlink, HardLink, Chmod, Empty, UserMay,
       Idle

\* No two regular files are one at the start, and no hard links are made.
NoHardLinks ==
    /\ "link" \notin UserOps
    /\ \A q, r \in Paths : InitTree[q].kind = "reg" /\ InitTree[q] = InitTree[r]
                                => q = r

\* Every file has one name, and all that exist have been born.
Named(t, b) ==
    /\ \A q, r \in Paths : t[q].kind = "reg" /\ t[q] = t[r] => q = r
    /\ \A q \in Paths, f \in Files : t[q] = Reg(f) => f \in b

\* A path that gets what is no file, or a new one.
LEMMA NamedPut ==
    ASSUME NEW t \in Tree, NEW b, NEW c, NEW b2, Named(t, b), NEW n \in Node,
           b \subseteq b2,
           \/ n.kind # "reg"
           \/ \E f \in Files \ b : n = Reg(f) /\ f \in b2
    PROVE  Named([t EXCEPT ![c] = n], b2)
<1> DEFINE u == [t EXCEPT ![c] = n]
<1>0. t \in [Paths -> Node]
    BY DEF Tree
<1>1. \A q \in Paths : u[q] = IF q = c THEN n ELSE t[q]
    BY <1>0
<1> HIDE DEF u
<1>2. CASE n.kind # "reg"
    <2>1. \A f : Reg(f).kind = "reg"
        BY DEF Reg
    <2>2. \A f : n # Reg(f)
        BY <1>2, <2>1
    <2> QED BY <1>1, <1>2, <2>2 DEF Named, u
<1>3. ASSUME NEW f \in Files \ b, n = Reg(f), f \in b2
      PROVE  Named(u, b2)
    <2>1. \A q \in Paths : t[q] # n
        BY <1>3 DEF Named
    <2>2. \A g : Reg(g) = Reg(f) => g = f
        BY DEF Reg
    <2>3. \A q, r \in Paths : u[q].kind = "reg" /\ u[q] = u[r] => q = r
        BY <1>1, <2>1 DEF Named
    <2>4. \A q \in Paths, g \in Files : u[q] = Reg(g) => g \in b2
        <3> TAKE q \in Paths, g \in Files
        <3>1. CASE q = c
            BY <1>1, <1>3, <2>2, <3>1
        <3>2. CASE q # c
            BY <1>1, <3>2 DEF Named
        <3> QED BY <3>1, <3>2
    <2> QED BY <2>3, <2>4 DEF Named
<1> QED BY <1>2, <1>3 DEF u

\* A file that is moved keeps one name.
LEMMA NamedMoved ==
    ASSUME NEW t \in Tree, NEW b, Named(t, b), NEW co \in Paths,
           NEW cn \in Paths, co # cn
    PROVE  Named([t EXCEPT ![cn] = t[co], ![co] = None], b)
<1> DEFINE u == [t EXCEPT ![cn] = t[co], ![co] = None]
<1>0. t \in [Paths -> Node]
    BY DEF Tree
<1>1. \A q \in Paths : u[q] = IF q = co THEN None
                              ELSE IF q = cn THEN t[co] ELSE t[q]
    BY <1>0
<1> HIDE DEF u
<1>2. None.kind # "reg" /\ \A f : None # Reg(f)
    BY DEF None, Reg
<1>3. \A q, r \in Paths : u[q].kind = "reg" /\ u[q] = u[r] => q = r
    BY <1>1, <1>2 DEF Named
<1>4. \A q \in Paths, f \in Files : u[q] = Reg(f) => f \in b
    BY <1>1, <1>2 DEF Named
<1> QED BY <1>3, <1>4 DEF Named, u

\* Every step leaves a file one name at most.
LEMMA NextNamed ==
    ASSUME "link" \notin UserOps, TypeOK, Unlinked(tree), Named(tree, born),
           [Next]_vars
    PROVE  Named(tree, born)'
<1>0. tree \in Tree /\ None \in Node /\ None.kind # "reg"
    BY DEF TypeOK, None, Node
<1>1. \A w \in BOOLEAN : Dir(w) \in Node /\ Dir(w).kind # "reg"
    BY DEF Dir, Node
<1>2. ASSUME NEW p \in Procs, Step(p)
      PROVE  Named(tree', born)
    <2>1. CASE Makes(p, tree, tree')
        <3>1. PICK c, w : w \in BOOLEAN /\ tree' = [tree EXCEPT ![c] = Dir(w)]
            BY <2>1 DEF Makes
        <3> QED BY <1>0, <1>1, <3>1, NamedPut
    <2>2. CASE Clears(p, tree, tree') \/ Deletes(p, tree, tree')
        <3>1. PICK c : tree' = [tree EXCEPT ![c] = None]
            BY <2>2 DEF Clears, Deletes
        <3> QED BY <1>0, <3>1, NamedPut
    <2>3. CASE Moves(p, tree, tree')
        <3>1. PICK co \in Paths, cn \in Paths :
                  \/ tree' = tree
                  \/ /\ co # cn
                     /\ tree' = [tree EXCEPT ![cn] = tree[co], ![co] = None]
            BY <2>3, Zenon DEF Moves
        <3> QED BY <1>0, <3>1, NamedMoved
    <2> QED BY <1>2, <2>1, <2>2, <2>3, StepFlat
<1>3. ASSUME NEW p \in Procs, Step(p)
      PROVE  born' = born
    BY <1>3 DEF Step, Fstatat, BadOption, TakeBin, SkipBin, AtDirFails,
        RealpathFails, Resolve, WalkUp, DonorStat, Mkdir, RmParent, StatDst,
        ChmodDst, RmDst, Rename, RealUnlink
<1>4. CASE User
    <2>1. CASE Create
        <3>1. PICK f \in Files \ born, q \in UserPaths :
                  tree' = [tree EXCEPT ![q] = Reg(f)] /\ born' = born \cup {f}
            BY <2>1 DEF Create, UserPut
        <3>2. PICK n \in Node : n = Reg(f)
            BY DEF Node
        <3>3. f \in born' /\ born \subseteq born'
            BY <3>1
        <3> QED BY <1>0, <3>1, <3>2, <3>3, NamedPut
    <2>2. CASE MakeDir \/ Chmod
        <3>1. PICK q, w : /\ tree' = [tree EXCEPT ![q] = Dir(w)]
                          /\ w \in BOOLEAN /\ born' = born
            <4>1. CASE MakeDir
                BY <4>1 DEF MakeDir, UserPut
            <4>2. CASE Chmod
                <5>1. PICK q : /\ tree' = [tree EXCEPT ![q] = Dir(~tree[q].w)]
                               /\ born' = born
                    BY <4>2 DEF Chmod, UserPut
                <5>2. (~tree[q].w) \in BOOLEAN
                    OBVIOUS
                <5> QED BY <5>1, <5>2
            <4> QED BY <2>2, <4>1, <4>2
        <3> QED BY <1>0, <1>1, <3>1, NamedPut
    <2>3. CASE Symlink
        <3>1. PICK q, to : /\ to \in LinkTargets /\ born' = born
                          /\ tree' = [tree EXCEPT ![q] = Link(to)]
            BY <2>3 DEF Symlink, UserPut
        <3>2. to \in Paths
            BY <3>1, RecyclixAssumption
        <3>3. Link(to) \in Node
            BY <3>2 DEF Node
        <3>4. Link(to).kind # "reg"
            BY DEF Link
        <3> QED BY <1>0, <3>1, <3>3, <3>4, NamedPut
    <2>4. CASE Empty
        <3>1. PICK q : tree' = [tree EXCEPT ![q] = None] /\ born' = born
            BY <2>4 DEF Empty, UserPut
        <3> QED BY <1>0, <3>1, NamedPut
    <2>5. ~HardLink
        BY DEF HardLink, UserMay
    <2> QED BY <1>4, <2>1, <2>2, <2>3, <2>4, <2>5 DEF User
<1>5. CASE (\E p \in Procs : Call(p)) \/ UNCHANGED vars
    BY <1>5 DEF Call, vars
<1> QED BY <1>2, <1>3, <1>4, <1>5 DEF Next

\* A call that has seen its file finds the directory of it when it looks for
\* its real path.
FileThere(l, x) ==
    x \in {"choose", "resolve"} => PathErr(tree, l.path) = "ok"
ThereInv == \A p \in Procs : FileThere(call[p], pc[p])

\* Where a step goes that is of interest below.
LEMMA PlacesAfter ==
    ASSUME TypeOK, NEW p \in Procs, Step(p)
    PROVE  /\ pc'[p] \in {"choose", "resolve"} =>
                    Fstatat(p) \/ TakeBin(p) \/ SkipBin(p)
           /\ pc'[p] = "zero" => RealpathFails(p) \/ Rename(p) \/ RealUnlink(p)
           /\ pc[p] \in Cloning /\ pc'[p] \in {"rename", "real"} =>
                    (Mkdir(p) \/ ChmodDst(p)) /\ CloneDone(p)
           /\ pc'[p] \in Cloning =>
                    pc[p] \in Cloning \/ (pc[p] = "walk" /\ call' = call)
<1>1. ASSUME NEW x, Goto(p, x)
      PROVE  pc'[p] = x
    BY <1>1 DEF Goto, TypeOK
<1>2. ASSUME NEW x, Return(p, x)
      PROVE  pc'[p] = x
    BY <1>1, <1>2 DEF Return
<1>3. CASE Fstatat(p) \/ TakeBin(p) \/ SkipBin(p)
    <2>1. pc[p] \notin Cloning
        BY <1>3 DEF Fstatat, TakeBin, SkipBin, Cloning
    <2>2. pc'[p] \in {"failed", "choose", "resolve", "real"}
        <3>1. CASE Fstatat(p)
            BY <1>1, <1>2, <3>1 DEF Fstatat
        <3>2. CASE TakeBin(p)
            BY <1>1, <3>2 DEF TakeBin
        <3>3. CASE SkipBin(p)
            BY <1>1, <3>3 DEF SkipBin
        <3> QED BY <1>3, <3>1, <3>2, <3>3
    <2> QED BY <1>3, <2>1, <2>2 DEF Cloning
<1>4. CASE BadOption(p) \/ AtDirFails(p)
    <2>1. pc'[p] = "failed"
        BY <1>2, <1>4 DEF BadOption, AtDirFails
    <2> QED BY <2>1 DEF Cloning
<1>5. CASE RealpathFails(p) \/ Rename(p) \/ RealUnlink(p)
    <2>1. pc[p] \notin Cloning
        BY <1>5 DEF RealpathFails, Rename, RealUnlink, Cloning
    <2>2. \E x \in Returned : Return(p, x)
        BY <1>5 DEF RealpathFails, Rename, RealUnlink, Returned
    <2>3. pc'[p] \in Returned
        BY <1>2, <2>2
    <2> QED BY <1>5, <2>1, <2>3 DEF Returned, Cloning
<1>6. CASE Resolve(p)
    <2>1. pc[p] \notin Cloning /\ pc'[p] = "walk"
        BY <1>1, <1>6 DEF Resolve, Cloning
    <2> QED BY <2>1 DEF Cloning
<1>7. CASE WalkUp(p)
    <2>1. pc[p] = "walk" /\ pc[p] \notin Cloning
        BY <1>7 DEF WalkUp, Cloning
    <2>2. \/ Return(p, "failed")
          \/ \E x \in {"real", "donor"} : Goto(p, x) /\ call' = call
          \/ pc' = pc
        BY <1>7 DEF WalkUp
    <2>3. \/ pc'[p] \in {"failed", "walk"}
          \/ pc'[p] \in {"real", "donor"} /\ call' = call
        BY <1>1, <1>2, <2>1, <2>2
    <2> QED BY <2>1, <2>3 DEF Cloning
<1>8. CASE DonorStat(p)
    <2>1. pc'[p] \in {"failed", "mkdir"} /\ pc[p] \in Cloning
        BY <1>1, <1>2, <1>8 DEF DonorStat, Cloning
    <2> QED BY <2>1
<1>9. CASE Mkdir(p) \/ RmParent(p) \/ StatDst(p) \/ ChmodDst(p) \/ RmDst(p)
    <2>0. pc[p] \in Cloning
        BY <1>9 DEF Mkdir, RmParent, StatDst, ChmodDst, RmDst, Cloning
    <2>1. CASE CloneDone(p) /\ (Mkdir(p) \/ ChmodDst(p))
        <3>1. PICK s, x : /\ x \in {"rename", "real"} \cup Cloning
                          /\ pc' = [pc EXCEPT ![p] = x]
            BY <2>1, CloneDoneMoves
        <3>2. pc'[p] \in {"rename", "real"} \cup Cloning
            BY <1>1, <3>1 DEF Goto
        <3> QED BY <2>0, <2>1, <3>2 DEF Cloning
    <2>2. CASE \E x \in {"failed"} \cup Cloning : Return(p, x) \/ Goto(p, x)
        <3>1. pc'[p] \in {"failed"} \cup Cloning
            BY <1>1, <1>2, <2>2
        <3> QED BY <2>0, <3>1 DEF Cloning
    <2> QED BY <1>9, <2>1, <2>2
            DEF Mkdir, RmParent, StatDst, ChmodDst, RmDst, Cloning
<1> QED BY <1>3, <1>4, <1>5, <1>6, <1>7, <1>8, <1>9 DEF Step

\* While the one call looks for its way nobody changes anything.
LEMMA NextThere ==
    ASSUME Alone, TypeOK, Unlinked(tree), ThereInv, [Next]_vars
    PROVE  ThereInv'
<1> SUFFICES ASSUME NEW p \in Procs, pc'[p] \in {"choose", "resolve"}
             PROVE  PathErr(tree', call'[p].path) = "ok"
    BY DEF ThereInv, FileThere
<1> DEFINE l == call[p]
<1>1. l \in Calls
    BY DEF TypeOK
<1>2. CASE Fstatat(p)
    <2> DEFINE n == Lookup(tree, l.path, FALSE)
               k == [l EXCEPT !.st = n, !.dev = DevOf(tree, l.path, FALSE)]
    <2>1. pc'[p] # "failed"
        OBVIOUS
    <2>2. ~Return(p, "failed")
        BY <2>1 DEF Return, Goto, TypeOK
    <2>3. n # None /\ call' = [call EXCEPT ![p] = k] /\ tree' = tree
        BY <1>2, <2>2 DEF Fstatat
    <2>4. k.path = l.path
        BY <1>1 DEF Calls
    <2>5. PICK no : no = FALSE /\ no \in BOOLEAN
        OBVIOUS
    <2>6. PathErr(tree, l.path) = "ok"
        <3>1. Lookup(tree, l.path, no) # None
            BY <2>3, <2>5
        <3> QED BY <2>5, <3>1, LookupFlat
    <2> HIDE DEF k
    <2>7. call'[p] = k
        BY <2>3 DEF TypeOK
    <2> QED BY <2>3, <2>4, <2>6, <2>7
<1>3. CASE TakeBin(p) \/ SkipBin(p)
    <2>1. /\ pc[p] = "choose" /\ tree' = tree
        BY <1>3 DEF TakeBin, SkipBin
    <2>2. call'[p].path = l.path
        BY <1>1, <1>3 DEF TypeOK, Calls, TakeBin, SkipBin
    <2> QED BY <2>1, <2>2 DEF ThereInv, FileThere
<1>4. CASE User
    <2>1. pc[p] \in Returned /\ pc' = pc
        BY <1>4, UserWaits, UserApart
    <2> QED BY <2>1 DEF Returned
<1>5. ASSUME NEW q \in Procs, Call(q) \/ Step(q)
      PROVE  PathErr(tree', call'[p].path) = "ok"
    <2>1. q = p
        BY DEF Alone
    <2>2. ~Call(q)
        BY <2>1 DEF Call, Goto, TypeOK
    <2> QED BY <1>2, <1>3, <1>5, <2>1, <2>2, PlacesAfter
<1>6. CASE UNCHANGED vars
    BY <1>6 DEF vars, ThereInv, FileThere
<1> QED BY <1>4, <1>5, <1>6 DEF Next

\* The directory of a path that can be reached is there.
LEMMA ParentThere ==
    ASSUME NEW t, Unlinked(t), NEW q \in Seq(Names), q # <<>>,
           PathErr(t, q) = "ok"
    PROVE  Lookup(t, Parent(q), TRUE) # None
<1>1. PICK n \in Nat : n = Len(q) - 1 /\ Len(q) = n + 1
    <2>1. Len(q) \in Nat /\ Len(q) # 0
        BY EmptySeq
    <2> QED BY <2>1
<1>2. PICK d \in Seq(Names) : d = Parent(q) /\ Len(d) = n
    BY <1>1, NameInParent
<1>3. \A i \in 0..n : At(t, Prefix(q, i)).kind = "dir"
    BY <1>1, Searchable
<1>4. d = Prefix(q, n)
    BY <1>1, <1>2 DEF Parent
<1>5. \A i \in 0..(n - 1) : Prefix(d, i) = Prefix(q, i)
    BY <1>1, <1>4, PrefixOfPrefix
<1>6. PathErr(t, d) = "ok"
    BY <1>2, <1>3, <1>5, Searchable
<1>7. At(t, d).kind = "dir"
    BY <1>3, <1>4
<1>8. PICK yes : yes = TRUE /\ yes \in BOOLEAN
    OBVIOUS
<1>9. Lookup(t, d, yes) = At(t, d)
    BY <1>6, <1>8, LookupFlat
<1>10. Lookup(t, d, yes) # None
    BY <1>7, <1>9 DEF None
<1> QED BY <1>2, <1>8, <1>10

\* What is not mounted on has a place below the bin.
LEMMA MovedElsewhere ==
    ASSUME MountsKept, TypeOK, WalkInv, WayInv, NEW p \in Procs,
           pc[p] = "rename"
    PROVE  call[p].path # Recycled(call[p])
<1> DEFINE l == call[p]
<1>1. /\ Placed(l) /\ MountFound(l) /\ l.fq = l.path /\ l.path \in Paths
      /\ l.path \in CallPaths
    BY PlacedOnceFound DEF WalkInv, WalkOk, WayInv, WayOk, TypeOK, InCall
<1>2. PICK q \in Seq(Names), n \in Nat : q = l.path /\ n = Len(q)
    BY <1>1, FileTreeAssumption
<1>3. PICK b \in Seq(Names), y \in Nat : b = Bin(l).dir /\ y = Len(b)
    BY <1>1, FileTreeAssumption DEF Placed
<1>4. PICK m \in 0..n : m = l.mp /\ m # n
    <2>1. ~IsMount(q)
        BY <1>1, <1>2 DEF MountsKept
    <2>2. PICK m \in 0..n : m = MountLen(q) /\ IsMount(Prefix(q, m))
        BY <1>2, MountLenIs
    <2>3. m # n
        BY <1>2, <2>1, <2>2, PrefixFull
    <2> QED BY <1>1, <1>2, <2>2, <2>3 DEF MountFound
<1>5. IsPrefix(b, Recycled(l)) /\ Len(Recycled(l)) = y + (n - m)
    BY <1>1, <1>2, <1>3, <1>4, RecycledIs
<1>6. Recycled(l) # b
    <2>1. y + (n - m) # y
        BY <1>4
    <2> QED BY <1>3, <1>5, <2>1
<1> QED BY <1>1, <1>3, <1>5, <1>6 DEF MountFound, UnderDir, IsStrictPrefix

\* Zero says that the name is gone.
LEMMA SuccessStep ==
    ASSUME MountsKept, "realpath" \notin AtFaults, TypeOK, WalkInv, WayInv,
           ThereInv, Unlinked(tree), Named(tree, born),
           NEW p \in Procs, Step(p), pc'[p] = "zero",
           NEW c, c = Canon(tree, call[p].path, FALSE)
    PROVE  At(tree, c).kind # "none" /\ At(tree', c).kind = "none"
<1> DEFINE l == call[p]
<1>0. tree \in [Paths -> Node] /\ None.kind = "none"
    BY DEF TypeOK, Tree, None
<1>1. c = l.path
    <2>1. \A d : Canon(tree, l.path, d) = l.path
        BY UnlinkedCanon
    <2> QED BY <2>1, Zenon
<1>2. CASE RealpathFails(p)
    <2>1. pc[p] = "resolve" /\ l.path \in CallPaths
        BY <1>2 DEF RealpathFails, TypeOK, InCall
    <2>2. l.path \in Seq(Names) /\ l.path # <<>> /\ PathErr(tree, l.path) = "ok"
        BY <2>1, RecyclixAssumption DEF ThereInv, FileThere
    <2>3. Lookup(tree, Parent(l.path), TRUE) # None
        BY <2>2, ParentThere
    <2> QED BY <1>2, <2>3 DEF RealpathFails
<1>3. CASE Rename(p)
    <2>1. Moves(p, tree, tree')
        BY <1>3, RenameMoves
    <2>2. PICK co \in Paths, cn \in Paths :
              /\ pc[p] = "rename" /\ co = l.path /\ cn = Recycled(l)
              /\ tree[co].kind \notin {"none", "dir"}
              /\ tree' = IF co = cn \/ (tree[co].kind = "reg"
                                        /\ tree[co] = tree[cn])
                         THEN tree
                         ELSE [tree EXCEPT ![cn] = tree[co], ![co] = None]
        BY <2>1, Zenon DEF Moves
    <2>3. co # cn
        BY <2>2, MovedElsewhere
    <2>4. ~(tree[co].kind = "reg" /\ tree[co] = tree[cn])
        BY <2>3 DEF Named
    <2>5. tree' = [tree EXCEPT ![cn] = tree[co], ![co] = None]
        BY <2>2, <2>3, <2>4
    <2>6. tree'[co] = None
        BY <1>0, <2>5
    <2> QED BY <1>0, <1>1, <2>2, <2>6 DEF At
<1>4. CASE RealUnlink(p)
    <2>1. Deletes(p, tree, tree')
        BY <1>4, UnlinkDeletes
    <2>2. PICK q \in Paths : /\ q = l.path /\ tree[q].kind # "none"
                             /\ tree' = [tree EXCEPT ![q] = None]
        BY <2>1, Zenon DEF Deletes
    <2>3. tree'[q] = None
        BY <1>0, <2>2
    <2> QED BY <1>0, <1>1, <2>2, <2>3 DEF At
<1> QED BY <1>2, <1>3, <1>4, PlacesAfter

\* unlinkat reports success only in the step that takes the name away, be it by
\* renameat to the bin or by the real unlinkat.  One process and a user who
\* waits for it, and neither symbolic nor hard links: renameat of one name of a
\* file onto another succeeds and does nothing.  realpath of the parent does not
\* fail while the parent is there, for then the loop is left with the 0 that
\* stat has just returned.
THEOREM SuccessIsRemoval ==
    ASSUME Alone, OneMount, NoLinks, NoHardLinks, MountsKept,
           "realpath" \notin AtFaults
    PROVE  Spec => SuccessRemoves
<1> DEFINE Inv == WalkInv /\ WayInv /\ ThereInv /\ Named(tree, born)
<1>1. Init => Inv
    <2> SUFFICES ASSUME Init PROVE Inv
        OBVIOUS
    <2>1. WayInv /\ ThereInv
        BY DEF Init, WayInv, WayOk, ThereInv, FileThere, InCall, Cloning
    <2>2. Named(tree, born)
        BY DEF Init, Named, NoHardLinks
    <2> QED BY <2>1, <2>2, InitWalks
<1>2. TypeOK /\ Inv /\ [Next]_vars => Inv'
    <2> SUFFICES ASSUME TypeOK, Inv, [Next]_vars PROVE Inv'
        OBVIOUS
    <2>1. Unlinked(tree)
        BY DEF WalkInv
    <2> QED BY <2>1, NextWalks, NextWay, NextThere, NextNamed DEF NoHardLinks
<1>3. TypeOK /\ Inv /\ [Next]_vars =>
        [\A p \in Procs : Stepped(p) /\ pc'[p] = "zero" =>
            LET c == Canon(tree, call[p].path, FALSE)
            IN  At(tree, c).kind # "none" /\ At(tree', c).kind = "none"]_vars
    <2> SUFFICES ASSUME TypeOK, Inv, [Next]_vars, NEW p \in Procs,
                        Stepped(p), pc'[p] = "zero",
                        NEW c, c = Canon(tree, call[p].path, FALSE)
                 PROVE  At(tree, c).kind # "none" /\ At(tree', c).kind = "none"
        BY Zenon
    <2> QED BY SteppedIsStep, SuccessStep DEF WalkInv
<1> QED BY <1>1, <1>2, <1>3, TypeCorrect, PTL DEF Spec, SuccessRemoves

-----------------------------------------------------------------------------
(* The modes of cloned directories *)

\* stat of a path gives the same in two trees that agree on the way to it.
LEMMA LookupSame ==
    ASSUME NEW t, Unlinked(t), NEW u, Unlinked(u), NEW q \in Seq(Names),
           \A i \in 0..Len(q) : At(u, Prefix(q, i)) = At(t, Prefix(q, i))
    PROVE  Lookup(u, q, TRUE) = Lookup(t, q, TRUE)
<1>1. PICK n \in Nat : n = Len(q)
    OBVIOUS
<1>2. PICK yes : yes = TRUE /\ yes \in BOOLEAN
    OBVIOUS
<1>3. Prefix(q, n) = q
    BY <1>1, PrefixFull
<1>4. At(u, q) = At(t, q)
    BY <1>1, <1>3
<1>5. PathErr(u, q) = "ok" <=> PathErr(t, q) = "ok"
    <2>1. \A i \in 0..(n - 1) : i \in 0..n
        OBVIOUS
    <2> QED BY <1>1, <2>1, Searchable
<1>6. Lookup(u, q, yes) = IF PathErr(u, q) = "ok" THEN At(u, q) ELSE None
    BY <1>2, LookupFlat
<1>7. Lookup(t, q, yes) = IF PathErr(t, q) = "ok" THEN At(t, q) ELSE None
    BY <1>2, LookupFlat
<1>8. Lookup(u, q, yes) = Lookup(t, q, yes)
    BY <1>4, <1>5, <1>6, <1>7
<1> QED BY <1>2, <1>8

\* The mode a clone is to get.
DonorMode(t, l) == ModeOf(Lookup(t, CloneDonor(l), TRUE))

\* The way to what is cloned is not in the bin.
LEMMA DonorOutside ==
    ASSUME BinsKept, TypeOK, WalkInv, WayInv, NEW p \in Procs,
           pc[p] \in Cloning
    PROVE  /\ CloneDonor(call[p]) \in Seq(Names)
           /\ \A i \in 0..Len(CloneDonor(call[p])) :
                ~IsPrefix(Bin(call[p]).dir, Prefix(CloneDonor(call[p]), i))
<1> DEFINE l == call[p]
<1>1. /\ Placed(l) /\ MountFound(l) /\ l.fq = l.path /\ l.path \in CallPaths
    BY PlacedOnceFound DEF WalkInv, WalkOk, WayInv, WayOk, TypeOK, InCall
<1>2. PICK q \in Seq(Names), b \in Seq(Names) : q = l.fq /\ b = Bin(l).dir
    BY <1>1, FileTreeAssumption DEF Placed
<1>3. PICK d \in Seq(Names) : d = CloneDonor(l) /\ IsPrefix(d, q)
    <2>1. PICK d, e : d = Parent(q) /\ e = q
        OBVIOUS
    <2>2. d \in Seq(Names) /\ IsPrefix(d, q)
        BY <2>1, CutIs DEF Parent, Cut
    <2>3. IsPrefix(q, q)
        BY DEF IsPrefix
    <2> QED BY <1>2, <2>1, <2>2, <2>3 DEF CloneDonor
<1>4. PICK n \in Nat : n = Len(d)
    OBVIOUS
<1>5. ASSUME NEW i \in 0..n, IsPrefix(b, Prefix(d, i))
      PROVE  FALSE
    <2>1. i \in Int /\ i <= Len(d)
        BY <1>4
    <2>2. PICK c \in Seq(Names) : c = Prefix(d, i) /\ IsPrefix(c, d)
        BY <2>1, PrefixIs, PrefixBegins
    <2>3. IsPrefix(c, q)
        BY <1>3, <2>2, PrefixTransitive
    <2>4. IsPrefix(b, q)
        BY <1>5, <2>2, <2>3, PrefixTransitive
    <2>5. b # q
        <3>1. recycler # <<>> /\ pc[p] \in InCall
            BY DEF WayInv, WayOk, InCall, Cloning
        <3>2. l.bin \in DOMAIN recycler /\ recycler \in Recyclers
            BY <3>1 DEF TypeOK
        <3>3. ~IsPrefix(q, b)
            BY <1>1, <1>2, <3>2 DEF BinsKept, Bin
        <3> QED BY <2>4, <3>3
    <2> QED BY <1>1, <1>2, <2>4, <2>5 DEF MountFound, UnderDir,
                                          IsStrictPrefix
<1> QED BY <1>2, <1>3, <1>4, <1>5

\* A step of the clone leaves it as it is.
LEMMA DonorStays ==
    ASSUME BinsKept, TypeOK, WalkInv, WayInv, DeepInv, Unlinked(tree),
           Unlinked(tree'), NEW p \in Procs, Step(p), pc[p] \in Cloning
    PROVE  DonorMode(tree', call[p]) = DonorMode(tree, call[p])
<1> DEFINE l == call[p]
<1>0. tree \in [Paths -> Node]
    BY DEF TypeOK, Tree
<1>1. ASSUME NEW c, NEW n, tree' = [tree EXCEPT ![c] = n],
             IsPrefix(Bin(l).dir, c)
      PROVE  DonorMode(tree', l) = DonorMode(tree, l)
    <2>1. PICK d \in Seq(Names) : d = CloneDonor(l)
        BY DonorOutside
    <2>2. \A i \in 0..Len(d) : Prefix(d, i) # c
        BY <1>1, <2>1, DonorOutside
    <2>3. \A q : q # c => At(tree', q) = At(tree, q)
        BY <1>0, <1>1 DEF At
    <2>4. \A i \in 0..Len(d) : At(tree', Prefix(d, i)) = At(tree, Prefix(d, i))
        BY <2>2, <2>3
    <2>5. Lookup(tree', d, TRUE) = Lookup(tree, d, TRUE)
        BY <2>4, LookupSame
    <2> QED BY <2>1, <2>5, Zenon DEF DonorMode
<1>2. CASE Makes(p, tree, tree')
    <2>1. PICK n : /\ tree' = [tree EXCEPT ![Current(l)] = n]
                   /\ pc[p] \in {"mkdir", "chmoddst"}
        BY <1>2 DEF Makes
    <2> QED BY <1>1, <2>1, CurrentInBin
<1>3. CASE Clears(p, tree, tree')
    <2>1. PICK c : /\ \/ pc[p] = "rmparent" /\ c = Parent(Current(l))
                      \/ pc[p] = "rmdst" /\ c = Current(l)
                   /\ tree' = [tree EXCEPT ![c] = None]
        BY <1>3 DEF Clears
    <2> QED BY <1>1, <2>1, CurrentInBin
<1>4. ~Moves(p, tree, tree') /\ ~Deletes(p, tree, tree')
    BY DEF Moves, Deletes, Cloning
<1>5. CASE tree' = tree
    BY <1>5
<1> QED BY <1>2, <1>3, <1>4, <1>5, StepFlat

\* The outermost call has taken it from what is cloned.
ModeInv == \A p \in Procs :
                pc[p] \in Cloning /\ call[p].modes # <<>> =>
                    call[p].modes[1] = DonorMode(tree, call[p])

\* What chmod is about to give a mode is the directory that stat has found.
FoundInv == \A p \in Procs :
                pc[p] = "chmoddst" =>
                    Lookup(tree, Current(call[p]), TRUE).kind = "dir"

\* What a step that goes on with the clone does to the modes.
LEMMA CloneKeeps ==
    ASSUME TypeOK, NEW p \in Procs, Step(p), pc[p] \in Cloning,
           pc'[p] \in Cloning
    PROVE  /\ call'[p].fq = call[p].fq /\ call'[p].st = call[p].st
           /\ \/ call'[p].modes = call[p].modes
              \/ /\ call'[p].modes = Front(call[p].modes)
                 /\ Len(call[p].modes) > 1
              \/ /\ call'[p].modes =
                        Append(call[p].modes,
                               ModeOf(Lookup(tree,
                                             DonorAt(call[p],
                                                     Len(call[p].modes)),
                                             TRUE)))
                 /\ tree' = tree
<1> DEFINE l == call[p]
<1>0. call \in [Procs -> Calls] /\ l \in Calls /\ l = call[p]
    BY DEF TypeOK
<1>1. ASSUME NEW x \in Returned, Return(p, x)
      PROVE  FALSE
    BY <1>1 DEF Return, Goto, TypeOK, Returned, Cloning
<1>2. CASE call' = call
    BY <1>2
<1>3. CASE DonorStat(p)
    <2> DEFINE n == Lookup(tree, DonorAt(l, Len(l.modes)), TRUE)
               k == [l EXCEPT !.modes = Append(@, ModeOf(n))]
    <2>1. call' = [call EXCEPT ![p] = k] /\ tree' = tree
        BY <1>1, <1>3 DEF DonorStat, Returned
    <2>2. /\ k.fq = l.fq /\ k.st = l.st
          /\ k.modes = Append(l.modes, ModeOf(n))
        BY <1>0 DEF Calls
    <2> HIDE DEF k
    <2>3. call'[p] = k
        BY <1>0, <2>1
    <2> QED BY <2>1, <2>2, <2>3
<1>4. CASE CloneDone(p)
    <2> DEFINE k == [l EXCEPT !.modes = Front(@)]
    <2>1. CASE Len(l.modes) > 1
        <3>1. call' = [call EXCEPT ![p] = k]
            BY <1>4, <2>1 DEF CloneDone
        <3>2. /\ k.fq = l.fq /\ k.st = l.st
              /\ k.modes = Front(l.modes)
            BY <1>0 DEF Calls
        <3> HIDE DEF k
        <3>3. call'[p] = k
            BY <1>0, <3>1
        <3> QED BY <2>1, <3>2, <3>3
    <2>2. CASE ~(Len(l.modes) > 1)
        <3>1. PICK x \in {"rename", "real"} : pc' = [pc EXCEPT ![p] = x]
            BY <1>4, <2>2 DEF CloneDone, Goto
        <3> QED BY <3>1 DEF TypeOK, Cloning
    <2> QED BY <2>1, <2>2
<1>5. CASE Mkdir(p) \/ RmParent(p) \/ StatDst(p) \/ ChmodDst(p) \/ RmDst(p)
    BY <1>1, <1>2, <1>4, <1>5
       DEF Mkdir, RmParent, StatDst, ChmodDst, RmDst, Returned
<1>6. CASE \/ Fstatat(p) \/ BadOption(p) \/ TakeBin(p) \/ SkipBin(p)
           \/ AtDirFails(p) \/ RealpathFails(p) \/ Resolve(p) \/ WalkUp(p)
           \/ Rename(p) \/ RealUnlink(p)
    BY <1>6 DEF Fstatat, BadOption, TakeBin, SkipBin, AtDirFails,
                RealpathFails, Resolve, WalkUp, Rename, RealUnlink, Cloning
<1> QED BY <1>3, <1>5, <1>6 DEF Step

\* The first mode on record stays the first.
LEMMA FirstStays ==
    ASSUME NEW s \in Seq(BOOLEAN), s # <<>>
    PROVE  /\ \A w \in BOOLEAN : Append(s, w)[1] = s[1]
           /\ Len(s) > 1 => Front(s)[1] = s[1]
<1>1. Len(s) \in Nat /\ Len(s) # 0
    BY EmptySeq
<1>2. 1 \in 1..Len(s)
    BY <1>1
<1>3. \A w \in BOOLEAN : Append(s, w)[1] = s[1]
    BY <1>2
<1>4. Len(s) > 1 => Front(s)[1] = s[1]
    BY DEF Front
<1> QED BY <1>3, <1>4

\* Every step of the system keeps it.
LEMMA NextModes ==
    ASSUME Alone, BinsKept, TypeOK, WalkInv, WayInv, DeepInv, ModeInv,
           Unlinked(tree), Unlinked(tree'), [Next]_vars
    PROVE  ModeInv'
<1> SUFFICES ASSUME NEW p \in Procs, pc'[p] \in Cloning,
                    call'[p].modes # <<>>
             PROVE  call'[p].modes[1] = DonorMode(tree', call'[p])
    BY DEF ModeInv, DonorMode, CloneDonor
<1> DEFINE l == call[p]
           k == call'[p]
<1>0. call \in [Procs -> Calls] /\ l \in Calls
    BY DEF TypeOK
<1>1. CASE Step(p)
    <2>1. PICK s \in Seq(BOOLEAN) : s = l.modes
        BY <1>0 DEF Calls
    <2>2. pc[p] \in Cloning
        <3>1. pc[p] = "walk" => s = <<>>
            BY <2>1 DEF DeepInv, DeepOk
        <3>2. pc[p] \in Cloning \/ (pc[p] = "walk" /\ call' = call)
            BY <1>1, PlacesAfter
        <3> QED BY <2>1, <3>1, <3>2
    <2>3. DonorMode(tree', l) = DonorMode(tree, l)
        BY <1>1, <2>2, DonorStays
    <2>4. k.fq = l.fq /\ k.st = l.st
        BY <1>1, <2>2, CloneKeeps
    <2>5. DonorMode(tree', k) = DonorMode(tree', l)
        BY <2>4 DEF DonorMode, CloneDonor
    <2>6. s # <<>> => s[1] = DonorMode(tree, l)
        BY <2>1, <2>2 DEF ModeInv
    <2>7. PICK w : w = ModeOf(Lookup(tree, DonorAt(l, Len(l.modes)), TRUE))
        OBVIOUS
    <2>8. \/ k.modes = s
          \/ k.modes = Front(s) /\ Len(s) > 1
          \/ k.modes = Append(s, w)
        BY <1>1, <2>1, <2>2, <2>7, CloneKeeps
    <2>9. w \in BOOLEAN
        <3>1. PICK n : n = Lookup(tree, DonorAt(l, Len(l.modes)), TRUE)
            OBVIOUS
        <3>2. n \in Node
            BY <3>1, LookupType DEF TypeOK
        <3> QED BY <2>7, <3>1, <3>2, ModeType
    <2>10. CASE s # <<>>
        <3>1. k.modes[1] = s[1]
            BY <2>8, <2>9, <2>10, FirstStays
        <3> QED BY <2>3, <2>5, <2>6, <2>10, <3>1
    <2>11. CASE s = <<>>
        <3>1. k.modes = Append(s, w)
            <4>1. Len(s) = 0
                BY <2>11
            <4> QED BY <2>8, <2>11, <4>1
        <3>2. k.modes[1] = w
            BY <2>9, <2>11, <3>1
        <3>3. DonorAt(l, Len(l.modes)) = CloneDonor(l)
            <4>1. PICK d \in Seq(Names) : d = CloneDonor(l)
                BY <2>2, DonorOutside
            <4>2. Cut(d, 0) = d
                BY PrefixFull DEF Cut
            <4>3. Len(l.modes) = 0
                BY <2>1, <2>11
            <4> QED BY <4>1, <4>2, <4>3 DEF DonorAt
        <3>4. w = DonorMode(tree, l)
            BY <2>7, <3>3, Zenon DEF DonorMode
        <3> QED BY <2>3, <2>5, <3>2, <3>4
    <2> QED BY <2>10, <2>11
<1>2. CASE User
    <2>1. pc[p] \in Returned /\ pc' = pc
        BY <1>2, UserWaits, UserApart
    <2> QED BY <2>1 DEF Returned, Cloning
<1>3. CASE Call(p)
    BY <1>3 DEF Call, Goto, TypeOK, Cloning
<1>4. CASE UNCHANGED vars
    BY <1>4 DEF vars, ModeInv
<1> QED BY <1>1, <1>2, <1>3, <1>4 DEF Next, Alone

\* Only stat leads to chmod.
LEMMA FoundByStat ==
    ASSUME TypeOK, NEW p \in Procs, Step(p), pc'[p] = "chmoddst"
    PROVE  /\ Lookup(tree, Current(call[p]), TRUE).kind = "dir"
           /\ tree' = tree /\ call' = call
<1>1. ASSUME NEW x, Goto(p, x)
      PROVE  x = "chmoddst"
    BY <1>1 DEF Goto, TypeOK
<1>2. ASSUME NEW x, Return(p, x)
      PROVE  x = "chmoddst"
    BY <1>1, <1>2 DEF Return
<1>3. CASE StatDst(p)
    BY <1>1, <1>2, <1>3 DEF StatDst
<1>4. ~CloneDone(p)
    BY <1>1 DEF CloneDone
<1>5. CASE \/ Fstatat(p) \/ BadOption(p) \/ TakeBin(p)
           \/ AtDirFails(p) \/ RealpathFails(p) \/ Resolve(p) \/ DonorStat(p)
    BY <1>1, <1>2, <1>5 DEF Fstatat, BadOption, TakeBin,
        AtDirFails, RealpathFails, Resolve, DonorStat
<1>6. CASE SkipBin(p) \/ WalkUp(p)
    BY <1>1, <1>2, <1>6 DEF SkipBin, WalkUp
<1>7. CASE \/ Mkdir(p) \/ RmParent(p) \/ ChmodDst(p) \/ RmDst(p)
           \/ Rename(p) \/ RealUnlink(p)
    BY <1>1, <1>2, <1>4, <1>7 DEF Mkdir, RmParent, ChmodDst, RmDst,
        Rename, RealUnlink
<1> QED BY <1>3, <1>5, <1>6, <1>7 DEF Step

\* While the one call is at it nobody takes the directory away.
LEMMA NextFound ==
    ASSUME Alone, TypeOK, FoundInv, [Next]_vars
    PROVE  FoundInv'
<1> SUFFICES ASSUME NEW p \in Procs, pc'[p] = "chmoddst"
             PROVE  (Lookup(tree, Current(call[p]), TRUE).kind = "dir")'
    BY DEF FoundInv
<1>0. ASSUME Lookup(tree, Current(call[p]), TRUE).kind = "dir",
             UNCHANGED <<recycler, tree, call>>
      PROVE  (Lookup(tree, Current(call[p]), TRUE).kind = "dir")'
    BY <1>0 DEF Current, PathAt, CloneTarget, Recycled, Bin
<1>1. CASE Step(p)
    <2>1. recycler' = recycler
        BY <1>1 DEF Step, Fstatat, BadOption, TakeBin, SkipBin, AtDirFails,
                    RealpathFails, Resolve, WalkUp, DonorStat, Mkdir, RmParent,
                    StatDst, ChmodDst, RmDst, Rename, RealUnlink
    <2> QED BY <1>0, <1>1, <2>1, FoundByStat
<1>2. CASE User
    <2>1. pc[p] \in Returned /\ pc' = pc
        BY <1>2, UserWaits, UserApart
    <2> QED BY <2>1 DEF Returned
<1>3. CASE Call(p)
    BY <1>3 DEF Call, Goto, TypeOK
<1>4. CASE UNCHANGED vars
    BY <1>0, <1>4 DEF vars, FoundInv
<1> QED BY <1>1, <1>2, <1>3, <1>4 DEF Next, Alone

\* What the clone of l has when it is complete: the mode of the directory it was
\* cloned from, less what the umask takes away if mkdir has just made it.
Faithful(l) ==
    LET donor == ModeOf(Lookup(tree, CloneDonor(l), TRUE))
        clone == ModeOf(Lookup(tree', CloneTarget(l), TRUE))
    IN  IF Lookup(tree, CloneTarget(l), TRUE) = None
        THEN \E mask \in Umasks : clone = Masked(donor, mask)
        ELSE clone = donor

\* The clone that is complete has it.
LEMMA LastCloneStep ==
    ASSUME TypeOK, WalkInv, WayInv, ModeInv, FoundInv, Unlinked(tree),
           Unlinked(tree'), NEW p \in Procs, Step(p), pc[p] \in Cloning,
           pc'[p] \in {"rename", "real"}
    PROVE  Faithful(call[p])
<1> DEFINE l == call[p]
<1>0. tree \in [Paths -> Node]
    BY DEF TypeOK, Tree
<1>1. (Mkdir(p) \/ ChmodDst(p)) /\ CloneDone(p)
    BY PlacesAfter
<1>2. Makes(p, tree, tree')
    <2>1. ChmodDst(p) => Lookup(tree, Current(l), TRUE).kind = "dir"
        BY DEF FoundInv, ChmodDst
    <2> QED BY <1>1, <2>1, MkdirMakes, ChmodMakes
<1>3. PICK s \in Seq(BOOLEAN) : s = l.modes /\ s # <<>> /\ Len(s) = 1
    <2>1. PICK s \in Seq(BOOLEAN) : s = l.modes /\ s # <<>>
        BY <1>2 DEF TypeOK, Calls, Makes
    <2>2. Len(s) \in Nat /\ Len(s) # 0
        BY <2>1, EmptySeq
    <2>3. ~(Len(s) > 1)
        BY <1>1, <2>1 DEF CloneDone, Goto, TypeOK
    <2>4. Len(s) = 1
        <3>1. PICK n \in Nat : n = Len(s) /\ n # 0 /\ ~(n > 1)
            BY <2>2, <2>3
        <3>2. n = 1
            BY <3>1
        <3> QED BY <3>1, <3>2
    <2> QED BY <2>1, <2>4
<1>4. PICK c \in Paths, w \in BOOLEAN :
          /\ c = Current(l) /\ PathErr(tree, c) = "ok"
          /\ tree' = [tree EXCEPT ![c] = Dir(w)]
          /\ \/ /\ At(tree, c).kind = "none"
                /\ \E mask \in Umasks : w = Masked(s[1], mask)
             \/ At(tree, c).kind = "dir" /\ w = s[1]
    <2>1. Last(l.modes) = s[1]
        BY <1>3 DEF Last
    <2> QED BY <1>2, <2>1 DEF Makes
<1>5. c \in Seq(Names) /\ c = CloneTarget(l)
    <2>1. Placed(l)
        BY PlacedOnceFound
    <2>2. PICK a \in Nat : a = Apart(l)
        BY DEF Apart
    <2>3. PICK d \in Seq(Names) : d = CloneTarget(l)
        <3>1. PICK r \in Seq(Names) : r = Recycled(l)
            BY <2>1, RecycledIs
        <3> QED BY <2>1, <2>2, <3>1, TargetIs, CutIs
    <2>4. Cut(d, 0) = d
        BY PrefixFull DEF Cut
    <2>5. Len(l.modes) - 1 = 0
        BY <1>3
    <2> QED BY <1>4, <2>3, <2>4, <2>5 DEF Current, PathAt
<1>6. Dir(w).kind = "dir" /\ Dir(w).w = w
    BY DEF Dir
<1>7. \A q : At(tree', q) = IF q = c THEN Dir(w) ELSE At(tree, q)
    BY <1>0, <1>4 DEF At
<1>8. PathErr(tree', c) = "ok"
    <2>1. \A i \in 0..(Len(c) - 1) : At(tree, Prefix(c, i)).kind = "dir"
        BY <1>4, Searchable
    <2>2. \A i \in 0..(Len(c) - 1) : At(tree', Prefix(c, i)).kind = "dir"
        BY <1>6, <1>7, <2>1
    <2> QED BY <2>2, Searchable
<1>9. PICK yes : yes = TRUE /\ yes \in BOOLEAN
    OBVIOUS
<1>10. Lookup(tree', c, yes) = Dir(w)
    BY <1>7, <1>8, <1>9, LookupFlat
<1>11. ModeOf(Lookup(tree', c, yes)) = w
    BY <1>6, <1>10 DEF ModeOf
<1>12. s[1] = DonorMode(tree, l)
    BY <1>3, <1>4 DEF ModeInv
<1>13. DonorMode(tree, l) = ModeOf(Lookup(tree, CloneDonor(l), yes))
    BY <1>9, Zenon DEF DonorMode
<1>14. Lookup(tree, c, yes) = None <=> At(tree, c).kind = "none"
    <2>1. Lookup(tree, c, yes) = At(tree, c)
        BY <1>4, <1>9, LookupFlat
    <2>2. At(tree, c) \in Node
        BY <1>0 DEF At, Node
    <2> QED BY <2>1, <2>2, Something
<1>15. At(tree, c).kind = "none" \/ At(tree, c).kind # "none"
    OBVIOUS
<1>16. IF Lookup(tree, c, yes) = None
       THEN \E mask \in Umasks :
                ModeOf(Lookup(tree', c, yes)) = Masked(s[1], mask)
       ELSE ModeOf(Lookup(tree', c, yes)) = s[1]
    BY <1>4, <1>11, <1>14
<1> QED BY <1>5, <1>9, <1>12, <1>13, <1>16 DEF Faithful

\* When recyclix_clonepath_recursive is through, the last directory it has
\* found has the mode of the one it was cloned from, whatever mode an earlier
\* deletion had left there, and if it has made that directory, the same mode
\* less what the umask takes away.  One process and a user who waits for it,
\* and no symbolic links; nobody deletes a mount point or a directory that a
\* bin is in.
THEOREM CloneIsFaithful ==
    ASSUME Alone, OneMount, NoLinks, MountsKept, BinsKept
    PROVE  Spec => CloneHasDonorMode
<1> DEFINE Inv == WalkInv /\ WayInv /\ DeepInv /\ ModeInv /\ FoundInv
<1>1. Init => Inv
    <2> SUFFICES ASSUME Init PROVE Inv
        OBVIOUS
    <2>1. WayInv /\ DeepInv /\ ModeInv /\ FoundInv
        BY DEF Init, WayInv, WayOk, DeepInv, DeepOk, ModeInv, FoundInv, InCall,
               Cloning
    <2> QED BY <2>1, InitWalks
<1>2. TypeOK /\ Inv /\ [Next]_vars => Inv'
    <2> SUFFICES ASSUME TypeOK, Inv, [Next]_vars PROVE Inv'
        OBVIOUS
    <2>1. Unlinked(tree) /\ Unlinked(tree')
        BY UnlinkedStays DEF WalkInv
    <2> QED BY <2>1, NextWalks, NextWay, NextDeep, NextModes, NextFound
<1>3. TypeOK /\ Inv /\ [Next]_vars =>
        [\A p \in Procs :
            Stepped(p) /\ pc[p] \in Cloning /\ pc'[p] \in {"rename", "real"} =>
                LET l == call[p]
                    donor == ModeOf(Lookup(tree, CloneDonor(l), TRUE))
                    clone == ModeOf(Lookup(tree', CloneTarget(l), TRUE))
                IN  IF Lookup(tree, CloneTarget(l), TRUE) = None
                    THEN \E mask \in Umasks : clone = Masked(donor, mask)
                    ELSE clone = donor]_vars
    <2> SUFFICES ASSUME TypeOK, Inv, [Next]_vars, NEW p \in Procs,
                        Stepped(p), pc[p] \in Cloning,
                        pc'[p] \in {"rename", "real"}
                 PROVE  Faithful(call[p])
        BY Zenon DEF Faithful
    <2>1. Unlinked(tree) /\ Unlinked(tree')
        BY UnlinkedStays DEF WalkInv
    <2> QED BY <2>1, SteppedIsStep, LastCloneStep
<1> QED BY <1>1, <1>2, <1>3, TypeCorrect, PTL DEF Spec, CloneHasDonorMode

-----------------------------------------------------------------------------
(* The options of a bin *)

\* One turn of the fold of Options, which takes the last of the entries s.
OptionTurn(opts, arg, f, s) ==
    ReadOption(f[s \ {Max(s)}], opts[Max(s)], arg)
OptionTurns(opts, arg) ==
    CHOOSE f : f = [s \in SUBSET DOMAIN opts |->
                    IF s = {} THEN Defaults ELSE OptionTurn(opts, arg, f, s)]

\* Options is the fold, taken over all the options of the entry.
LEMMA OptionsIs ==
    ASSUME NEW bin, NEW arg
    PROVE  Options(bin, arg) = OptionTurns(bin.opts, arg)[DOMAIN bin.opts]
BY Zenon DEF Options, FoldLeft, MapThenFoldSet, OptionTurns, OptionTurn

\* The last of the numbers up to k that are in s.
LEMMA LastUpTo ==
    ASSUME NEW k \in Nat, NEW s \in SUBSET (1..k), s # {}
    PROVE  Max(s) \in s /\ s \ {Max(s)} \in SUBSET (1..k)
<1>1. s \in SUBSET Nat /\ \A x \in s : x <= k
    OBVIOUS
<1> QED BY <1>1, MaxIsGreatest

\* The last of the numbers up to k is k.
LEMMA LastOfAll ==
    ASSUME NEW k \in Nat, NEW s \in SUBSET (1..(k + 1)), k + 1 \in s
    PROVE  Max(s) = k + 1 /\ s \ {Max(s)} \in SUBSET (1..k)
<1>1. s \in SUBSET Nat /\ \A x \in s : x <= k + 1
    OBVIOUS
<1>2. PICK m \in s : m = Max(s) /\ \A y \in s : m >= y
    BY <1>1, MaxIsGreatest
<1>3. m = k + 1
    BY <1>1, <1>2
<1> QED BY <1>2, <1>3

\* The fold is there for any number of options: for the first number for which
\* it were not there would be that of the number before, and one more turn.
LEMMA OptionTurnsAre ==
    ASSUME NEW opts \in Seq(Option), NEW arg
    PROVE  \A s \in SUBSET DOMAIN opts :
                OptionTurns(opts, arg)[s] =
                    IF s = {} THEN Defaults
                    ELSE OptionTurn(opts, arg, OptionTurns(opts, arg), s)
<1> DEFINE P(k) == \E f : f = [s \in SUBSET (1..k) |->
                IF s = {} THEN Defaults ELSE OptionTurn(opts, arg, f, s)]
<1>1. P(0)
    <2>1. PICK f : f = [s \in SUBSET (1..0) |-> Defaults]
        OBVIOUS
    <2>2. \A s \in SUBSET (1..0) : s = {}
        OBVIOUS
    <2>3. f = [s \in SUBSET (1..0) |->
                IF s = {} THEN Defaults ELSE OptionTurn(opts, arg, f, s)]
        BY <2>1, <2>2, Zenon
    <2> QED BY <2>3
<1>2. ASSUME NEW k \in Nat, P(k)
      PROVE  P(k + 1)
    <2>1. PICK g : g = [s \in SUBSET (1..k) |->
                IF s = {} THEN Defaults ELSE OptionTurn(opts, arg, g, s)]
        BY <1>2
    <2>2. PICK f : f = [s \in SUBSET (1..(k + 1)) |->
                IF s \in SUBSET (1..k) THEN g[s]
                ELSE OptionTurn(opts, arg, g, s)]
        OBVIOUS
    <2>3. \A s \in SUBSET (1..k) : s \in SUBSET (1..(k + 1)) /\ f[s] = g[s]
        BY <2>2
    <2>4. \A s \in SUBSET (1..(k + 1)) :
            f[s] = IF s = {} THEN Defaults ELSE OptionTurn(opts, arg, f, s)
        <3> TAKE s \in SUBSET (1..(k + 1))
        <3>1. CASE s = {}
            <4>1. s \in SUBSET (1..k)
                BY <3>1
            <4>2. g[s] = Defaults
                BY <2>1, <3>1, <4>1
            <4> QED BY <2>3, <3>1, <4>1, <4>2
        <3>2. CASE s # {} /\ s \in SUBSET (1..k)
            <4>1. g[s] = OptionTurn(opts, arg, g, s)
                BY <2>1, <3>2
            <4>2. g[s \ {Max(s)}] = f[s \ {Max(s)}]
                BY <2>3, <3>2, LastUpTo
            <4> QED BY <2>3, <3>2, <4>1, <4>2 DEF OptionTurn
        <3>3. CASE s \notin SUBSET (1..k)
            <4>1. k + 1 \in s
                BY <3>3
            <4>2. g[s \ {Max(s)}] = f[s \ {Max(s)}]
                BY <2>3, <4>1, LastOfAll
            <4>3. f[s] = OptionTurn(opts, arg, g, s)
                BY <2>2, <3>3
            <4>4. s # {}
                BY <4>1
            <4> QED BY <4>2, <4>3, <4>4 DEF OptionTurn
        <3> QED BY <3>1, <3>2, <3>3
    <2>5. f = [s \in SUBSET (1..(k + 1)) |-> f[s]]
        BY <2>2
    <2>6. f = [s \in SUBSET (1..(k + 1)) |->
                IF s = {} THEN Defaults ELSE OptionTurn(opts, arg, f, s)]
        BY <2>4, <2>5, Zenon
    <2> QED BY <2>6
<1>3. PICK m \in Nat : m = Len(opts) /\ DOMAIN opts = 1..m
    OBVIOUS
<1>4. P(m)
    <2> SUFFICES ASSUME ~P(m) PROVE FALSE
        OBVIOUS
    <2> DEFINE Without == {n \in Nat : ~P(n)}
    <2> HIDE DEF P
    <2>1. m \in Without
        OBVIOUS
    <2>2. PICK k \in Without : \A n \in Without : k <= n
        BY <2>1, LeastNatural
    <2>3. k - 1 \in Nat
        BY <1>1, <2>2
    <2>4. P(k - 1)
        BY <2>2, <2>3
    <2>5. k - 1 + 1 = k
        BY <2>2
    <2> QED BY <1>2, <2>2, <2>3, <2>4, <2>5
<1>5. PICK f : f = OptionTurns(opts, arg)
    OBVIOUS
<1>6. f = [s \in SUBSET DOMAIN opts |->
                IF s = {} THEN Defaults ELSE OptionTurn(opts, arg, f, s)]
    BY <1>3, <1>4, <1>5, Zenon DEF OptionTurns
<1> QED BY <1>5, <1>6

\* What the first k options are read as.
ReadUpTo(opts, arg, k) == OptionTurns(opts, arg)[1..k]

\* Each option is read on top of those before it.
LEMMA ReadUpToIs ==
    ASSUME NEW opts \in Seq(Option), NEW arg
    PROVE  /\ ReadUpTo(opts, arg, 0) = Defaults
           /\ \A k \in Nat : k + 1 <= Len(opts) =>
                 ReadUpTo(opts, arg, k + 1) =
                    ReadOption(ReadUpTo(opts, arg, k), opts[k + 1], arg)
<1>1. PICK m \in Nat : m = Len(opts) /\ DOMAIN opts = 1..m
    OBVIOUS
<1>2. ReadUpTo(opts, arg, 0) = Defaults
    <2>1. 1..0 = {} /\ {} \in SUBSET DOMAIN opts
        OBVIOUS
    <2> QED BY <2>1, OptionTurnsAre DEF ReadUpTo
<1>3. ASSUME NEW k \in Nat, k + 1 <= m
      PROVE  ReadUpTo(opts, arg, k + 1) =
                ReadOption(ReadUpTo(opts, arg, k), opts[k + 1], arg)
    <2>1. PICK s : s = 1..(k + 1)
        OBVIOUS
    <2>2. s \in SUBSET DOMAIN opts /\ s # {} /\ k + 1 \in s
        <3>1. \A i \in 1..(k + 1) : i \in 1..m
            BY <1>3
        <3>2. k + 1 \in 1..(k + 1)
            OBVIOUS
        <3> QED BY <1>1, <2>1, <3>1, <3>2
    <2>3. Max(s) = k + 1
        BY <2>1, <2>2, LastOfAll
    <2>4. s \ {k + 1} = 1..k
        BY <2>1
    <2>5. PICK f : f = OptionTurns(opts, arg)
        OBVIOUS
    <2>6. f[s] = OptionTurn(opts, arg, f, s)
        BY <2>2, <2>5, OptionTurnsAre
    <2> QED BY <2>1, <2>3, <2>4, <2>5, <2>6, Zenon DEF OptionTurn, ReadUpTo
<1> QED BY <1>1, <1>2, <1>3

\* The last of the first k options that is of the type, 0 if there is none.
LastUntil(opts, type, k) ==
    LET at == {i \in 1..k : opts[i].type = type}
    IN  IF at = {} THEN 0 ELSE Max(at)

\* The last option of a type, found by going through them in turn.
LEMMA LastUntilIs ==
    ASSUME NEW opts, NEW type
    PROVE  /\ LastUntil(opts, type, 0) = 0
           /\ \A k \in Nat :
                 LastUntil(opts, type, k + 1) =
                    IF opts[k + 1].type = type THEN k + 1
                    ELSE LastUntil(opts, type, k)
<1>1. LastUntil(opts, type, 0) = 0
    BY DEF LastUntil
<1>2. ASSUME NEW k \in Nat
      PROVE  LastUntil(opts, type, k + 1) =
                IF opts[k + 1].type = type THEN k + 1
                ELSE LastUntil(opts, type, k)
    <2>1. PICK s : s = {i \in 1..(k + 1) : opts[i].type = type}
        OBVIOUS
    <2>2. CASE opts[k + 1].type = type
        <3>1. s \in SUBSET (1..(k + 1)) /\ k + 1 \in s
            BY <2>1, <2>2
        <3>2. Max(s) = k + 1
            BY <3>1, LastOfAll
        <3> QED BY <2>1, <2>2, <3>1, <3>2 DEF LastUntil
    <2>3. CASE opts[k + 1].type # type
        <3>1. s = {i \in 1..k : opts[i].type = type}
            BY <2>1, <2>3
        <3> QED BY <2>1, <2>3, <3>1, Zenon DEF LastUntil
    <2> QED BY <2>2, <2>3
<1> QED BY <1>1, <1>2

\* The last of each type counts, unless one has been bad.
ReadSo(opts, arg, k, o) ==
    /\ \E a, b, c, d : o = [min |-> a, max |-> b, excluded |-> c, bad |-> d]
    /\ o.bad \/ LET s == LastUntil(opts, "size", k)
                    x == LastUntil(opts, "exclude", k)
                IN  /\ o.min = IF s = 0 THEN 1 ELSE ToSize(opts[s].min)
                    /\ o.max = IF s = 0 THEN 0 ELSE ToSize(opts[s].max)
                    /\ o.excluded <=> x # 0 /\ arg \in opts[x].matches

\* It stays so when one more option is read.
LEMMA ReadOneMore ==
    ASSUME NEW opts \in Seq(Option), NEW arg, NEW k \in Nat,
           k + 1 <= Len(opts), NEW o, ReadSo(opts, arg, k, o)
    PROVE  ReadSo(opts, arg, k + 1, ReadOption(o, opts[k + 1], arg))
<1>1. PICK a, b, c, d : o = [min |-> a, max |-> b, excluded |-> c, bad |-> d]
    BY DEF ReadSo
<1>2. PICK opt : opt = opts[k + 1]
    OBVIOUS
<1>3. PICK u : u = ReadOption(o, opt, arg)
    OBVIOUS
<1>4. LastUntil(opts, "size", k + 1) =
            IF opt.type = "size" THEN k + 1 ELSE LastUntil(opts, "size", k)
    BY <1>2, LastUntilIs
<1>5. LastUntil(opts, "exclude", k + 1) =
            IF opt.type = "exclude" THEN k + 1
            ELSE LastUntil(opts, "exclude", k)
    BY <1>2, LastUntilIs
<1>6. CASE o.bad
    <2>1. u = o
        BY <1>3, <1>6 DEF ReadOption
    <2> QED BY <1>1, <1>2, <1>3, <1>6, <2>1 DEF ReadSo
<1>7. CASE ~o.bad /\ opt.type = "size"
    <2>1. PICK e : u = [o EXCEPT !.min = ToSize(opt.min),
                                 !.max = ToSize(opt.max), !.bad = e]
        BY <1>3, <1>7 DEF ReadOption
    <2>2. u = [min |-> ToSize(opt.min), max |-> ToSize(opt.max),
               excluded |-> o.excluded, bad |-> e]
        BY <1>1, <2>1
    <2>3. LastUntil(opts, "size", k + 1) = k + 1 /\ k + 1 # 0
        BY <1>4, <1>7
    <2>4. LastUntil(opts, "exclude", k + 1) = LastUntil(opts, "exclude", k)
        BY <1>5, <1>7
    <2>5. o.excluded <=> /\ LastUntil(opts, "exclude", k) # 0
                         /\ arg \in opts[LastUntil(opts, "exclude", k)].matches
        BY <1>7 DEF ReadSo
    <2>6. ReadSo(opts, arg, k + 1, u)
        BY <1>2, <2>2, <2>3, <2>4, <2>5 DEF ReadSo
    <2> QED BY <1>2, <1>3, <2>6
<1>8. CASE ~o.bad /\ opt.type = "exclude"
    <2>1. u = [o EXCEPT !.excluded = (arg \in opt.matches)]
        BY <1>3, <1>8 DEF ReadOption
    <2>2. PICK e : e = (arg \in opt.matches)
        OBVIOUS
    <2>8. e <=> arg \in opt.matches
        BY <2>2
    <2>3. u = [min |-> o.min, max |-> o.max, excluded |-> e, bad |-> o.bad]
        BY <1>1, <2>1, <2>2
    <2>4. LastUntil(opts, "size", k + 1) = LastUntil(opts, "size", k)
        BY <1>4, <1>8
    <2>5. LastUntil(opts, "exclude", k + 1) = k + 1 /\ k + 1 # 0
        BY <1>5, <1>8
    <2>6. LET s == LastUntil(opts, "size", k)
          IN  /\ o.min = IF s = 0 THEN 1 ELSE ToSize(opts[s].min)
              /\ o.max = IF s = 0 THEN 0 ELSE ToSize(opts[s].max)
        BY <1>8 DEF ReadSo
    <2>7. ReadSo(opts, arg, k + 1, u)
        BY <1>2, <2>3, <2>4, <2>5, <2>6, <2>8 DEF ReadSo
    <2> QED BY <1>2, <1>3, <2>7
<1>9. CASE ~o.bad /\ opt.type \notin {"size", "exclude"}
    <2>1. u = [o EXCEPT !.bad = TRUE]
        BY <1>3, <1>9 DEF ReadOption
    <2>2. u = [min |-> a, max |-> b, excluded |-> c, bad |-> TRUE]
        BY <1>1, <2>1
    <2>3. ReadSo(opts, arg, k + 1, u)
        BY <2>2 DEF ReadSo
    <2> QED BY <1>2, <1>3, <2>3
<1> QED BY <1>6, <1>7, <1>8, <1>9

\* What the options of a bin are read as: there is no least number of them of
\* which it would not be so.
LEMMA OptionsRead ==
    ASSUME NEW bin, NEW arg, bin.opts \in Seq(Option)
    PROVE  ReadSo(bin.opts, arg, Len(bin.opts), Options(bin, arg))
<1> DEFINE opts == bin.opts
           P(k) == ReadSo(opts, arg, k, ReadUpTo(opts, arg, k))
<1>1. PICK m \in Nat : m = Len(opts) /\ DOMAIN opts = 1..m
    OBVIOUS
<1>2. Options(bin, arg) = ReadUpTo(opts, arg, m)
    BY <1>1, OptionsIs DEF ReadUpTo
<1>3. P(0)
    <2>1. PICK o : o = Defaults
        OBVIOUS
    <2>2. /\ o = [min |-> 1, max |-> 0, excluded |-> FALSE, bad |-> FALSE]
          /\ o.min = 1 /\ o.max = 0 /\ ~o.excluded
        BY <2>1 DEF Defaults
    <2>3. ReadSo(opts, arg, 0, o)
        BY <2>2, LastUntilIs DEF ReadSo
    <2> QED BY <2>1, <2>3, ReadUpToIs
<1>4. ASSUME NEW k \in Nat, k + 1 <= m, P(k)
      PROVE  P(k + 1)
    <2>1. PICK o : o = ReadUpTo(opts, arg, k) /\ ReadSo(opts, arg, k, o)
        BY <1>4
    <2>2. ReadUpTo(opts, arg, k + 1) = ReadOption(o, opts[k + 1], arg)
        BY <1>1, <1>4, <2>1, ReadUpToIs
    <2>3. ReadSo(opts, arg, k + 1, ReadOption(o, opts[k + 1], arg))
        BY <1>1, <1>4, <2>1, ReadOneMore
    <2> QED BY <2>2, <2>3
<1>5. P(m)
    <2> SUFFICES ASSUME ~P(m) PROVE FALSE
        OBVIOUS
    <2> DEFINE Without == {n \in 0..m : ~P(n)}
    <2> HIDE DEF P
    <2>1. m \in Without /\ Without \in SUBSET Nat
        OBVIOUS
    <2>2. PICK k \in Without : \A n \in Without : k <= n
        BY <2>1, LeastNatural
    <2>3. k # 0 /\ k \in Nat /\ k <= m
        BY <1>3, <2>2
    <2>4. PICK j \in Nat : k = j + 1 /\ j = k - 1
        BY <2>3
    <2>5. j \in 0..m /\ ~(k <= j)
        BY <2>3, <2>4
    <2>6. P(j)
        BY <2>2, <2>5
    <2> QED BY <1>4, <2>2, <2>3, <2>4, <2>6
<1> QED BY <1>1, <1>2, <1>5

\* No number in the options of a bin is too large for an int.
NumbersFit ==
    \A r \in Recyclers : \A i \in DOMAIN r : \A j \in DOMAIN r[i].opts :
        LET opt == r[i].opts[j]
        IN  opt.type = "size" => /\ Atoi(opt.min.num) = opt.min.num
                                 /\ Atoi(opt.max.num) = opt.max.num

\* A limit as it is read is an integer when it is read as written.
LEMMA LimitIs ==
    ASSUME NEW s \in Literal, Atoi(s.num) = s.num
    PROVE  ToSize(s) = Written(s) /\ Written(s) \in Int
<1>1. s.num \in Nat
    BY DEF Literal
<1>2. Multiplier(s.unit) \in Int
    BY RecyclersAssumption DEF Multiplier
<1> QED BY <1>1, <1>2 DEF ToSize, Written

\* What Options reads, one option after the other as the code does, accepts a
\* file exactly when the options are documented to admit it: the last of each
\* type counts.  For any number of options, none of them bad, whose numbers fit
\* in an int, which atoi makes of them.
THEOREM OptionsAdmit ==
    ASSUME NumbersFit, NEW r \in Recyclers, NEW i \in DOMAIN r, NEW arg,
           ~Options(r[i], arg).bad, NEW size \in Nat
    PROVE  Admits(r[i], size, arg) <=>
                /\ ~OutOfLimits(Options(r[i], arg), size)
                /\ ~Options(r[i], arg).excluded
<1>1. PICK bin : bin = r[i]
    OBVIOUS
<1>2. bin \in BinEntry
    <2>1. r \in Seq(BinEntry)
        BY RecyclixAssumption
    <2> QED BY <1>1, <2>1, ElementOfSeq
<1>3. PICK opts \in Seq(Option) : opts = bin.opts
    BY <1>2 DEF BinEntry
<1>4. PICK o : o = Options(bin, arg)
    OBVIOUS
<1>5. PICK m \in Nat : m = Len(opts) /\ DOMAIN opts = 1..m
    OBVIOUS
<1>6. PICK s, x : s = LastOf(opts, "size") /\ x = LastOf(opts, "exclude")
    OBVIOUS
<1>7. s = LastUntil(opts, "size", m) /\ x = LastUntil(opts, "exclude", m)
    BY <1>5, <1>6 DEF LastUntil, LastOf
<1>8. /\ o.min = IF s = 0 THEN 1 ELSE ToSize(opts[s].min)
      /\ o.max = IF s = 0 THEN 0 ELSE ToSize(opts[s].max)
      /\ o.excluded <=> x # 0 /\ arg \in opts[x].matches
    BY <1>1, <1>3, <1>4, <1>5, <1>7, OptionsRead DEF ReadSo
<1>9. ~o.excluded <=> x = 0 \/ arg \notin opts[x].matches
    BY <1>8
<1>10. CASE s = 0
    <2>1. ~OutOfLimits(o, size) <=> size >= 1
        BY <1>8, <1>10 DEF OutOfLimits
    <2> QED BY <1>1, <1>3, <1>4, <1>6, <1>9, <1>10, <2>1 DEF Admits
<1>11. CASE s # 0
    <2>1. s \in DOMAIN opts /\ opts[s].type = "size"
        <3>1. PICK at : at = {j \in 1..m : opts[j].type = "size"}
            OBVIOUS
        <3>2. at # {} /\ s = Max(at)
            BY <1>7, <1>11, <3>1 DEF LastUntil
        <3>3. s \in at
            BY <3>1, <3>2, LastUpTo
        <3> QED BY <1>5, <3>1, <3>3
    <2>2. opts[s] \in Option
        BY <2>1
    <2>3. opts[s].min \in Literal /\ opts[s].max \in Literal
        BY <2>1, <2>2 DEF Option
    <2>4. /\ Atoi(opts[s].min.num) = opts[s].min.num
          /\ Atoi(opts[s].max.num) = opts[s].max.num
        BY <1>1, <1>3, <2>1 DEF NumbersFit
    <2>5. PICK a \in Int, b \in Int : /\ a = Written(opts[s].min)
                                      /\ b = Written(opts[s].max)
        BY <2>3, <2>4, LimitIs
    <2>6. o.min = a /\ o.max = b
        BY <1>8, <1>11, <2>3, <2>4, <2>5, LimitIs
    <2>7. ~OutOfLimits(o, size) <=> size >= a /\ (b = 0 \/ size <= b)
        BY <2>5, <2>6 DEF OutOfLimits
    <2> QED BY <1>1, <1>3, <1>4, <1>6, <1>9, <1>11, <2>5, <2>7 DEF Admits
<1> QED BY <1>10, <1>11

-----------------------------------------------------------------------------
(* The promise of RecycleBin *)

\* RecycleBin is instantiated with its own copy of the operators of Recyclers
\* and FileTree, which are the same.
LEMMA SameAdmits ==
    ASSUME NEW bin, NEW size, NEW arg
    PROVE  Promise!Admits(bin, size, arg) <=> Admits(bin, size, arg)
BY Zenon DEF Promise!Admits, Admits, Promise!LastOf, LastOf, Promise!Max, Max,
       Promise!Written, Written, Promise!Multiplier, Multiplier

\* So is the place a file has in a bin.
LEMMA SamePlace ==
    ASSUME NEW bin, NEW q, NEW d
    PROVE  /\ Promise!BinPlace(bin, q) = BinPlace(bin, q)
           /\ Promise!UnderDir(d, q) <=> UnderDir(d, q)
           /\ Promise!IsPrefix(d, q) <=> IsPrefix(d, q)
BY Zenon DEF Promise!BinPlace, BinPlace, Promise!MountLen, MountLen,
       Promise!Max, Max, Promise!IsMount, IsMount, Promise!Parent, Parent,
       Promise!Prefix, Prefix, Promise!UnderDir, UnderDir,
       Promise!IsStrictPrefix, IsStrictPrefix, Promise!IsPrefix, IsPrefix

\* What the variables standing and names of RecycleBin stand for.
StandingIn(t) ==
    {i \in DOMAIN recycler : /\ recycler[i].set /\ recycler[i].abs
                             /\ Lookup(t, recycler[i].dir, TRUE) # None}
NamesIn(t) == [f \in Files |-> {q \in Paths : t[q] = Reg(f)}]

\* The same names, that of f at c gone to d, and those with d at c gone.
NamesMoved(n, f, c, d) ==
    [g \in Files |-> IF g = f THEN (n[g] \ {c}) \cup {d} ELSE n[g] \ {d}]
TreeMoved(t, c, d) == [t EXCEPT ![d] = t[c], ![c] = None]

\* A file is known by its node.
LEMMA RegIs ==
    /\ \A f, g : Reg(f) = Reg(g) => f = g
    /\ \A f : Reg(f).kind = "reg" /\ Reg(f).file = f
BY DEF Reg

\* Without links what is neither nothing nor a directory is a file.
LEMMA FileIs ==
    ASSUME NEW t \in Tree, Unlinked(t), NEW q \in Paths,
           t[q].kind \notin {"none", "dir"}
    PROVE  \E f \in Files : t[q] = Reg(f)
<1>1. t[q] \in Node /\ t[q].kind # "lnk"
    BY DEF Tree, Unlinked
<1> QED BY <1>1 DEF Node, None, Dir, Link

\* A node that is no file comes in the place of one that is none.
LEMMA NamesStay ==
    ASSUME NEW t \in Tree, NEW c, NEW n, n.kind # "reg",
           c \in Paths => t[c].kind # "reg"
    PROVE  NamesIn([t EXCEPT ![c] = n]) = NamesIn(t)
<1> DEFINE u == [t EXCEPT ![c] = n]
<1>1. \A q \in Paths : u[q] = IF q = c THEN n ELSE t[q]
    BY DEF Tree
<1> HIDE DEF u
<1>2. \A q \in Paths : \A f : u[q] = Reg(f) <=> t[q] = Reg(f)
    BY <1>1, RegIs
<1>3. \A f \in Files : {q \in Paths : u[q] = Reg(f)}
                            = {q \in Paths : t[q] = Reg(f)}
    BY <1>2
<1>4. NamesIn(u) = NamesIn(t)
    BY <1>3 DEF NamesIn
<1> QED BY <1>4 DEF u

\* A name of a file goes.
LEMMA NamesGo ==
    ASSUME NEW t \in Tree, NEW c \in Paths, NEW f \in Files, t[c] = Reg(f),
           NEW n, n.kind # "reg"
    PROVE  /\ c \in NamesIn(t)[f]
           /\ NamesIn([t EXCEPT ![c] = n])
                = [NamesIn(t) EXCEPT ![f] = NamesIn(t)[f] \ {c}]
<1> DEFINE u == [t EXCEPT ![c] = n]
<1>1. \A q \in Paths : u[q] = IF q = c THEN n ELSE t[q]
    BY DEF Tree
<1> HIDE DEF u
<1>2. \A g \in Files : {q \in Paths : u[q] = Reg(g)}
            = IF g = f THEN {q \in Paths : t[q] = Reg(f)} \ {c}
              ELSE {q \in Paths : t[q] = Reg(g)}
    BY <1>1, RegIs
<1>3. NamesIn(u) = [NamesIn(t) EXCEPT ![f] = NamesIn(t)[f] \ {c}]
    BY <1>2 DEF NamesIn
<1> QED BY <1>3 DEF u, NamesIn

\* A file gets a name, maybe that of another one.
LEMMA NamesCome ==
    ASSUME NEW t \in Tree, NEW c \in Paths, NEW f \in Files
    PROVE  NamesIn([t EXCEPT ![c] = Reg(f)])
                = [g \in Files |-> IF g = f THEN NamesIn(t)[g] \cup {c}
                                   ELSE NamesIn(t)[g] \ {c}]
<1> DEFINE u == [t EXCEPT ![c] = Reg(f)]
<1>1. \A q \in Paths : u[q] = IF q = c THEN Reg(f) ELSE t[q]
    BY DEF Tree
<1> HIDE DEF u
<1>2. \A g \in Files : {q \in Paths : u[q] = Reg(g)}
            = IF g = f THEN {q \in Paths : t[q] = Reg(g)} \cup {c}
              ELSE {q \in Paths : t[q] = Reg(g)} \ {c}
    BY <1>1, RegIs
<1>3. NamesIn(u) = [g \in Files |-> IF g = f THEN NamesIn(t)[g] \cup {c}
                                    ELSE NamesIn(t)[g] \ {c}]
    BY <1>2 DEF NamesIn
<1> QED BY <1>3 DEF u

\* A file gets a name for another one.
LEMMA NamesMove ==
    ASSUME NEW t \in Tree, NEW c \in Paths, NEW d \in Paths, c # d,
           NEW f \in Files, t[c] = Reg(f)
    PROVE  /\ c \in NamesIn(t)[f]
           /\ NamesIn(TreeMoved(t, c, d)) = NamesMoved(NamesIn(t), f, c, d)
<1> DEFINE u == TreeMoved(t, c, d)
<1>1. \A q \in Paths : u[q] = IF q = c THEN None
                              ELSE IF q = d THEN Reg(f) ELSE t[q]
    BY DEF Tree, TreeMoved
<1>2. None.kind # "reg"
    BY DEF None
<1> HIDE DEF u
<1>3. \A g \in Files : {q \in Paths : u[q] = Reg(g)}
            = IF g = f THEN ({q \in Paths : t[q] = Reg(g)} \ {c}) \cup {d}
              ELSE {q \in Paths : t[q] = Reg(g)} \ {d}
    BY <1>1, <1>2, RegIs
<1>4. NamesIn(u) = NamesMoved(NamesIn(t), f, c, d)
    BY <1>3 DEF NamesIn, NamesMoved
<1> QED BY <1>4 DEF u, NamesIn

\* The directories of the bins are paths.
LEMMA BinPath ==
    ASSUME TypeOK, NEW i \in DOMAIN recycler
    PROVE  recycler[i] \in BinEntry /\ recycler[i].dir \in Paths
<1>1. recycler \in Seq(BinEntry)
    BY RecyclixAssumption DEF TypeOK
<1>2. recycler[i] \in BinEntry
    BY <1>1, ElementOfSeq
<1> QED BY <1>2 DEF BinEntry

\* What stat finds at a path without links.
LEMMA FoundIs ==
    ASSUME NEW t, Unlinked(t), NEW q
    PROVE  Lookup(t, q, TRUE) # None <=>
                PathErr(t, q) = "ok" /\ At(t, q) # None
<1>1. PICK yes : yes = TRUE /\ yes \in BOOLEAN
    OBVIOUS
<1>2. Lookup(t, q, yes) = IF PathErr(t, q) = "ok" THEN At(t, q) ELSE None
    BY <1>1, LookupFlat
<1> QED BY <1>1, <1>2

\* A bin is found as long as the directories above it stay and it stays itself.
LEMMA FoundStays ==
    ASSUME NEW t, Unlinked(t), NEW u, Unlinked(u), NEW b \in Paths,
           \A q \in Paths : \/ u[q] = t[q] \/ ~IsPrefix(q, b)
                            \/ q = b /\ t[q] # None /\ u[q] # None
    PROVE  Lookup(u, b, TRUE) # None <=> Lookup(t, b, TRUE) # None
<1>1. PICK n \in Nat : n = Len(b) /\ b \in Seq(Names)
    BY FileTreeAssumption
<1>2. ASSUME NEW k \in 0..(n - 1)
      PROVE  At(u, Prefix(b, k)) = At(t, Prefix(b, k))
    <2>1. k \in Int /\ k <= n /\ k \in Nat /\ k # n
        OBVIOUS
    <2>2. PICK c \in Seq(Names) : c = Prefix(b, k) /\ Len(c) = k
        <3>1. /\ Prefix(b, k) \in Seq(Names)
              /\ Len(Prefix(b, k)) = IF 1 <= k THEN k ELSE 0
            BY <1>1, <2>1, PrefixIs
        <3> QED BY <2>1, <3>1
    <2>3. IsPrefix(c, b)
        BY <1>1, <2>1, <2>2, PrefixBegins
    <2>4. c # b
        BY <1>1, <2>1, <2>2
    <2> QED BY <2>2, <2>3, <2>4 DEF At
<1>3. PathErr(u, b) = "ok" <=> PathErr(t, b) = "ok"
    BY <1>1, <1>2, Searchable
<1>4. At(u, b) # None <=> At(t, b) # None
    <2>1. IsPrefix(b, b)
        BY <1>1 DEF IsPrefix
    <2> QED BY <2>1 DEF At
<1> QED BY <1>3, <1>4, FoundIs

\* So the bins that stand are the same.
LEMMA StandingStays ==
    ASSUME TypeOK, NEW t, Unlinked(t), NEW u, Unlinked(u),
           \A i \in DOMAIN recycler : \A q \in Paths :
                \/ u[q] = t[q] \/ ~IsPrefix(q, recycler[i].dir)
                \/ q = recycler[i].dir /\ t[q] # None /\ u[q] # None
    PROVE  StandingIn(u) = StandingIn(t)
<1>1. ASSUME NEW i \in DOMAIN recycler
      PROVE  Lookup(u, recycler[i].dir, TRUE) # None
                <=> Lookup(t, recycler[i].dir, TRUE) # None
    <2>1. PICK b \in Paths : b = recycler[i].dir
        BY BinPath
    <2>2. \A q \in Paths : \/ u[q] = t[q] \/ ~IsPrefix(q, b)
                           \/ q = b /\ t[q] # None /\ u[q] # None
        BY <2>1
    <2> QED BY <2>1, <2>2, FoundStays
<1> QED BY <1>1 DEF StandingIn

\* The directories of the bins are named absolutely; no other directory above
\* what is deleted has the inode number of a bin, as one on another file system
\* may; and no file is where a bin is to be, nor does the user put one there or
\* in place of a directory above it.
BinsAbsolute ==
    \A r \in Recyclers : \A i \in DOMAIN r : r[i].set => r[i].abs
BinsNumbered ==
    \A r \in Recyclers : \A i \in DOMAIN r : \A q \in CallPaths, c \in Paths :
        IsStrictPrefix(c, q) /\ Ino[c] = Ino[r[i].dir] => c = r[i].dir
BinsClear ==
    \A r \in Recyclers : \A i \in DOMAIN r :
        /\ InitTree[r[i].dir].kind \in {"none", "dir"}
        /\ "create" \in UserOps =>
                \A q \in UserPaths : ~IsPrefix(q, r[i].dir)
        /\ "link" \in UserOps =>
                \A q \in LinkPaths : ~IsPrefix(q, r[i].dir)

\* No file is in the place of a bin.
BinsInv == \A i \in DOMAIN recycler :
                tree[recycler[i].dir].kind \in {"none", "dir"}

\* What is in a bin is on the way to none.
LEMMA InBinIsOffWay ==
    ASSUME BinsKept, TypeOK, NEW j \in DOMAIN recycler, NEW c \in Seq(Names),
           UnderDir(recycler[j].dir, c), NEW i \in DOMAIN recycler
    PROVE  ~IsPrefix(c, recycler[i].dir)
<1> SUFFICES ASSUME IsPrefix(c, recycler[i].dir) PROVE FALSE
    OBVIOUS
<1>1. PICK a \in Seq(Names), b \in Seq(Names) :
          a = recycler[j].dir /\ b = recycler[i].dir
    BY BinPath, FileTreeAssumption
<1>2. IsPrefix(a, c) /\ a # c /\ IsPrefix(c, b)
    BY <1>1 DEF UnderDir, IsStrictPrefix
<1>3. IsPrefix(a, b)
    BY <1>2, PrefixTransitive
<1>4. a # b
    <2> SUFFICES ASSUME a = b PROVE FALSE
        OBVIOUS
    <2>1. PICK k \in Nat, n \in Nat : k = Len(a) /\ n = Len(c)
        OBVIOUS
    <2>2. k <= n /\ n <= k
        BY <1>2, <2>1 DEF IsPrefix
    <2>3. c = Prefix(c, n) /\ a = Prefix(a, n)
        BY <2>1, <2>2, PrefixFull
    <2>4. Prefix(a, n) = Prefix(c, n)
        BY <1>2, <2>1, <2>2 DEF IsPrefix, Prefix
    <2> QED BY <1>2, <2>3, <2>4
<1>5. UnderDir(a, b)
    BY <1>3, <1>4 DEF UnderDir, IsStrictPrefix
<1> QED BY <1>1, <1>5 DEF BinsKept, TypeOK

\* What is renamed gets a place below the bin.
LEMMA PlaceBelow ==
    ASSUME MountsKept, TypeOK, WalkInv, WayInv, NEW p \in Procs,
           pc[p] = "rename"
    PROVE  /\ Recycled(call[p]) \in Seq(Names)
           /\ UnderDir(Bin(call[p]).dir, Recycled(call[p]))
<1> DEFINE l == call[p]
<1>1. /\ Placed(l) /\ MountFound(l) /\ l.fq = l.path /\ l.path \in Paths
      /\ l.path \in CallPaths
    BY PlacedOnceFound DEF WalkInv, WalkOk, WayInv, WayOk, TypeOK, InCall
<1>2. PICK q \in Seq(Names), n \in Nat : q = l.path /\ n = Len(q)
    BY <1>1, FileTreeAssumption
<1>3. PICK b \in Seq(Names), y \in Nat : b = Bin(l).dir /\ y = Len(b)
    BY <1>1, FileTreeAssumption DEF Placed
<1>4. PICK m \in 0..n : m = l.mp /\ m # n
    <2>1. ~IsMount(q)
        BY <1>1, <1>2 DEF MountsKept
    <2>2. PICK m \in 0..n : m = MountLen(q) /\ IsMount(Prefix(q, m))
        BY <1>2, MountLenIs
    <2>3. m # n
        BY <1>2, <2>1, <2>2, PrefixFull
    <2> QED BY <1>1, <1>2, <2>2, <2>3 DEF MountFound
<1>5. /\ Recycled(l) \in Seq(Names) /\ IsPrefix(b, Recycled(l))
      /\ Len(Recycled(l)) = y + (n - m)
    BY <1>1, <1>2, <1>3, <1>4, RecycledIs
<1>6. Recycled(l) # b
    <2>1. y + (n - m) # y
        BY <1>4
    <2> QED BY <1>3, <1>5, <2>1
<1> QED BY <1>3, <1>5, <1>6 DEF UnderDir, IsStrictPrefix

\* The entry a call has come to is one.
LEMMA EntryAtHand ==
    ASSUME TypeOK, WayInv, NEW p \in Procs, pc[p] \in InCall \ {"real"}
    PROVE  recycler # <<>> /\ call[p].bin \in DOMAIN recycler
<1>1. recycler # <<>>
    BY DEF WayInv, WayOk
<1> QED BY <1>1 DEF TypeOK

\* What a clone changes or clears away is the bin it is in, or is below it.
LEMMA ClearedInBin ==
    ASSUME TypeOK, WalkInv, WayInv, DeepInv, BinsInv, NEW p \in Procs,
           Clears(p, tree, tree')
    PROVE  \E c \in Paths :
                /\ UnderDir(Bin(call[p]).dir, c)
                /\ IsPrefix(c, Recycled(call[p]))
                /\ tree[c].kind \notin {"none", "dir"}
                /\ tree' = [tree EXCEPT ![c] = None]
                /\ pc[p] \in Cloning
<1> DEFINE l == call[p]
<1>1. PICK c \in Paths :
          /\ \/ pc[p] = "rmparent" /\ c = Parent(Current(l))
             \/ pc[p] = "rmdst" /\ c = Current(l)
          /\ tree[c].kind \notin {"none", "dir"}
          /\ tree' = [tree EXCEPT ![c] = None]
    BY DEF Clears
<1>2. pc[p] \in Cloning
    BY <1>1 DEF Cloning
<1>3. Placed(l) /\ IsPrefix(Bin(l).dir, c)
    BY <1>1, <1>2, CurrentInBin, PlacedOnceFound
<1>4. c # Bin(l).dir
    <2>1. l.bin \in DOMAIN recycler
        BY <1>2, EntryAtHand DEF InCall, Cloning
    <2> QED BY <1>1, <2>1 DEF BinsInv, Bin
<1>5. PICK n \in Nat : n = Len(l.modes) - 1
    <2>1. PICK s \in Seq(BOOLEAN) : s = l.modes /\ s # <<>>
        BY <1>1 DEF TypeOK, Calls
    <2>2. Len(s) \in Nat /\ Len(s) # 0
        BY <2>1, EmptySeq
    <2> QED BY <2>1, <2>2
<1>6. IsPrefix(c, Recycled(l))
    BY <1>1, <1>3, <1>5, PlaceOnWay DEF Current
<1> QED BY <1>1, <1>2, <1>3, <1>4, <1>6 DEF UnderDir, IsStrictPrefix

\* What a call does to the bins: those that stand go on to stand.
LEMMA StepStanding ==
    ASSUME BinsKept, MountsKept, TypeOK, WalkInv, WayInv, DeepInv, BinsInv,
           Unlinked(tree), Unlinked(tree'), NEW p \in Procs, Step(p),
           pc[p] \in Cloning => call[p].bin \in StandingIn(tree)
    PROVE  StandingIn(tree') = StandingIn(tree)
<1> DEFINE l == call[p]
           Same == \A i \in DOMAIN recycler : \A q \in Paths :
                        \/ tree'[q] = tree[q] \/ ~IsPrefix(q, recycler[i].dir)
                        \/ /\ q = recycler[i].dir
                           /\ tree[q] # None /\ tree'[q] # None
<1>0. tree \in [Paths -> Node] /\ recycler \in Recyclers
    BY DEF TypeOK, Tree
<1>1. CASE Makes(p, tree, tree')
    <2>1. PICK c \in Paths, w \in BOOLEAN :
              /\ c = Current(l) /\ pc[p] \in {"mkdir", "chmoddst"}
              /\ tree' = [tree EXCEPT ![c] = Dir(w)]
        BY <1>1 DEF Makes
    <2>2. pc[p] \in Cloning
        BY <2>1 DEF Cloning
    <2>3. IsPrefix(Bin(l).dir, c)
        BY <2>1, CurrentInBin
    <2>4. PICK b \in Paths : b = Bin(l).dir /\ b = recycler[l.bin].dir
        BY <2>2, EntryAtHand, BinAtHand DEF InCall, Cloning, Bin
    <2>5. l.bin \in DOMAIN recycler /\ Lookup(tree, b, TRUE) # None
        BY <2>2, <2>4 DEF StandingIn
    <2>6. tree[b] # None
        BY <2>4, <2>5, FoundIs DEF At
    <2>7. ASSUME NEW i \in DOMAIN recycler, IsPrefix(c, recycler[i].dir)
          PROVE  c = recycler[i].dir /\ tree[c] # None
        <3>1. c \in Seq(Names)
            BY FileTreeAssumption
        <3>2. ~UnderDir(b, c)
            BY <2>4, <2>5, <2>7, <3>1, InBinIsOffWay
        <3>3. c = b
            BY <2>3, <2>4, <3>2 DEF UnderDir, IsStrictPrefix
        <3>4. ~UnderDir(b, recycler[i].dir)
            BY <1>0, <2>4, <2>5 DEF BinsKept
        <3> QED BY <2>6, <2>7, <3>3, <3>4 DEF UnderDir, IsStrictPrefix
    <2>8. tree'[c] = Dir(w) /\ Dir(w) # None
          /\ \A q \in Paths : q # c => tree'[q] = tree[q]
        BY <1>0, <2>1 DEF Dir, None
    <2>9. Same
        BY <2>7, <2>8
    <2> QED BY <2>9, StandingStays
<1>2. ASSUME \A q \in Paths : \/ tree'[q] = tree[q]
                              \/ \A i \in DOMAIN recycler :
                                        ~IsPrefix(q, recycler[i].dir)
      PROVE  StandingIn(tree') = StandingIn(tree)
    <2>1. Same
        BY <1>2
    <2> QED BY <2>1, StandingStays
<1>3. ASSUME NEW c \in Paths, UnderDir(Bin(l).dir, c),
             pc[p] \in InCall \ {"real"}, NEW i \in DOMAIN recycler
      PROVE  ~IsPrefix(c, recycler[i].dir)
    <2>1. l.bin \in DOMAIN recycler /\ c \in Seq(Names)
        BY <1>3, EntryAtHand, FileTreeAssumption
    <2> QED BY <1>3, <2>1, InBinIsOffWay DEF Bin
<1>4. ASSUME pc[p] \in InCall, NEW i \in DOMAIN recycler
      PROVE  ~IsPrefix(l.path, recycler[i].dir)
    <2>1. l.path \in CallPaths
        BY <1>4 DEF TypeOK
    <2> QED BY <1>0, <2>1 DEF BinsKept
<1>5. CASE Clears(p, tree, tree')
    <2>1. PICK c \in Paths :
                /\ UnderDir(Bin(call[p]).dir, c) /\ pc[p] \in Cloning
                /\ tree' = [tree EXCEPT ![c] = None]
        BY <1>5, ClearedInBin
    <2>2. \A q \in Paths : tree'[q] = tree[q] \/ q = c
        BY <1>0, <2>1
    <2>3. pc[p] \in InCall \ {"real"}
        BY <2>1 DEF InCall, Cloning
    <2> QED BY <1>2, <1>3, <2>1, <2>2, <2>3
<1>6. CASE Moves(p, tree, tree')
    <2>1. PICK co \in Paths, cn \in Paths :
              /\ pc[p] = "rename" /\ co = l.path /\ cn = Recycled(l)
              /\ \/ tree' = tree
                 \/ tree' = [tree EXCEPT ![cn] = tree[co], ![co] = None]
        BY <1>6 DEF Moves
    <2>2. \A q \in Paths : tree'[q] = tree[q] \/ q = co \/ q = cn
        BY <1>0, <2>1
    <2>3. pc[p] \in InCall \ {"real"}
        BY <2>1 DEF InCall
    <2>4. UnderDir(Bin(l).dir, cn)
        BY <2>1, PlaceBelow
    <2> QED BY <1>2, <1>3, <1>4, <2>1, <2>2, <2>3, <2>4
<1>7. CASE Deletes(p, tree, tree')
    <2>1. PICK c \in Paths : /\ c = l.path /\ pc[p] = "real"
                             /\ tree' = [tree EXCEPT ![c] = None]
        BY <1>7, Zenon DEF Deletes
    <2>2. \A q \in Paths : tree'[q] = tree[q] \/ q = c
        BY <1>0, <2>1
    <2>3. pc[p] \in InCall
        BY <2>1 DEF InCall
    <2> QED BY <1>2, <1>4, <2>1, <2>2, <2>3
<1>8. CASE tree' = tree
    BY <1>8
<1> QED BY <1>1, <1>5, <1>6, <1>7, <1>8, StepFlat

\* No file comes to be in the place of a bin.
LEMMA NextBins ==
    ASSUME BinsKept, MountsKept, BinsClear, NoLinks, TypeOK, WalkInv, WayInv,
           DeepInv, BinsInv, [Next]_vars
    PROVE  BinsInv'
<1>1. recycler' = recycler /\ recycler \in Recyclers /\ Unlinked(tree)
    BY RecyclerStays DEF TypeOK, WalkInv
<1> SUFFICES ASSUME NEW i \in DOMAIN recycler
             PROVE  tree'[recycler[i].dir].kind \in {"none", "dir"}
    BY <1>1 DEF BinsInv
<1>2. PICK b \in Paths : b = recycler[i].dir
    BY BinPath
<1>3. tree \in [Paths -> Node] /\ tree[b].kind \in {"none", "dir"}
    BY <1>2 DEF TypeOK, Tree, BinsInv
<1>4. None.kind = "none" /\ \A w : Dir(w).kind = "dir"
    BY DEF None, Dir
<1>5. b \in Seq(Names) /\ IsPrefix(b, b)
    BY <1>2, FileTreeAssumption DEF IsPrefix
<1>6. ASSUME NEW c, NEW n, tree' = [tree EXCEPT ![c] = n],
             n.kind \in {"none", "dir"} \/ c # b
      PROVE  tree'[b].kind \in {"none", "dir"}
    BY <1>3, <1>6
<1>7. ASSUME NEW p \in Procs, Step(p)
      PROVE  tree'[b].kind \in {"none", "dir"}
    <2> DEFINE l == call[p]
    <2>1. CASE Makes(p, tree, tree')
        <3>1. PICK c, w : tree' = [tree EXCEPT ![c] = Dir(w)]
            BY <2>1 DEF Makes
        <3> QED BY <1>4, <1>6, <3>1
    <2>2. CASE Clears(p, tree, tree')
        <3>1. PICK c : tree' = [tree EXCEPT ![c] = None]
            BY <2>2 DEF Clears
        <3> QED BY <1>4, <1>6, <3>1
    <2>3. CASE Moves(p, tree, tree')
        <3>1. PICK co \in Paths, cn \in Paths :
                  /\ pc[p] = "rename" /\ cn = Recycled(l)
                  /\ \/ tree' = tree
                     \/ tree' = [tree EXCEPT ![cn] = tree[co], ![co] = None]
            BY <2>3 DEF Moves
        <3>2. cn # b
            <4>1. l.bin \in DOMAIN recycler
                BY <3>1, EntryAtHand DEF InCall
            <4>2. cn \in Seq(Names) /\ UnderDir(recycler[l.bin].dir, cn)
                BY <3>1, PlaceBelow DEF Bin
            <4>3. ~IsPrefix(cn, b)
                BY <1>2, <4>1, <4>2, InBinIsOffWay
            <4> QED BY <1>5, <4>3
        <3>3. tree'[b] = tree[b] \/ tree'[b] = None
            BY <1>3, <3>1, <3>2
        <3> QED BY <1>3, <1>4, <3>3
    <2>4. CASE Deletes(p, tree, tree')
        <3>1. PICK c : tree' = [tree EXCEPT ![c] = None]
            BY <2>4 DEF Deletes
        <3> QED BY <1>4, <1>6, <3>1
    <2>5. CASE tree' = tree
        BY <1>3, <2>5
    <2> QED BY <1>1, <1>7, <2>1, <2>2, <2>3, <2>4, <2>5, StepFlat
<1>8. CASE User
    <2>1. CASE Create
        <3>1. PICK f, q : /\ tree' = [tree EXCEPT ![q] = Reg(f)]
                         /\ q \in UserPaths /\ "create" \in UserOps
            BY <2>1 DEF Create, UserPut, UserMay
        <3>2. q # b
            BY <1>1, <1>2, <1>5, <3>1 DEF BinsClear
        <3> QED BY <1>2, <1>6, <3>1, <3>2
    <2>2. CASE HardLink
        <3>1. PICK q, n : /\ tree' = [tree EXCEPT ![q] = n]
                         /\ q \in LinkPaths /\ "link" \in UserOps
            BY <2>2 DEF HardLink, UserPut, UserMay
        <3>2. q # b
            BY <1>1, <1>2, <1>5, <3>1 DEF BinsClear
        <3> QED BY <1>2, <1>6, <3>1, <3>2
    <2>3. CASE MakeDir \/ Chmod
        <3>1. PICK q, w : tree' = [tree EXCEPT ![q] = Dir(w)]
            BY <2>3 DEF MakeDir, Chmod, UserPut
        <3> QED BY <1>2, <1>4, <1>6, <3>1
    <2>4. CASE Empty
        <3>1. PICK q : tree' = [tree EXCEPT ![q] = None]
            BY <2>4 DEF Empty, UserPut
        <3> QED BY <1>2, <1>4, <1>6, <3>1
    <2>5. ~Symlink
        BY DEF Symlink, UserMay, NoLinks
    <2> QED BY <1>8, <2>1, <2>2, <2>3, <2>4, <2>5 DEF User
<1>9. CASE (\E p \in Procs : Call(p)) \/ UNCHANGED vars
    BY <1>2, <1>3, <1>9 DEF Call, vars
<1> QED BY <1>2, <1>7, <1>8, <1>9 DEF Next

\* All files there are have been born.
BornInv == \A q \in Paths, f \in Files : tree[q] = Reg(f) => f \in born

\* It stays so: only the user makes files, and they are new.
LEMMA NextBorn ==
    ASSUME TypeOK, Unlinked(tree), BornInv, [Next]_vars
    PROVE  BornInv'
<1>0. tree \in [Paths -> Node]
    BY DEF TypeOK, Tree
<1>1. /\ \A f : None # Reg(f) /\ \A w : Dir(w) # Reg(f)
      /\ \A f, to : Link(to) # Reg(f)
    BY DEF None, Dir, Reg, Link
<1>2. ASSUME NEW c, NEW n, tree' = [tree EXCEPT ![c] = n],
             born \subseteq born',
             \A f \in Files : n = Reg(f) => f \in born'
      PROVE  BornInv'
    BY <1>0, <1>2 DEF BornInv
<1>3. ASSUME NEW p \in Procs, Step(p)
      PROVE  BornInv'
    <2>0. born' = born
        BY <1>3 DEF Step, Fstatat, BadOption, TakeBin, SkipBin, AtDirFails,
            RealpathFails, Resolve, WalkUp, DonorStat, Mkdir, RmParent,
            StatDst, ChmodDst, RmDst, Rename, RealUnlink
    <2>1. CASE Makes(p, tree, tree')
        <3>1. PICK c, w : tree' = [tree EXCEPT ![c] = Dir(w)]
            BY <2>1 DEF Makes
        <3> QED BY <1>1, <1>2, <2>0, <3>1
    <2>2. CASE Clears(p, tree, tree') \/ Deletes(p, tree, tree')
        <3>1. PICK c : tree' = [tree EXCEPT ![c] = None]
            BY <2>2 DEF Clears, Deletes
        <3> QED BY <1>1, <1>2, <2>0, <3>1
    <2>3. CASE Moves(p, tree, tree')
        <3>1. PICK co \in Paths, cn \in Paths :
                  \/ tree' = tree
                  \/ tree' = [tree EXCEPT ![cn] = tree[co], ![co] = None]
            BY <2>3 DEF Moves
        <3>2. \A q \in Paths : tree'[q] \in {tree[q], tree[co], None}
            BY <1>0, <3>1
        <3> QED BY <1>1, <2>0, <3>2 DEF BornInv
    <2>4. CASE tree' = tree
        BY <2>0, <2>4 DEF BornInv
    <2> QED BY <1>3, <2>1, <2>2, <2>3, <2>4, StepFlat
<1>4. CASE User
    <2>1. CASE Create
        <3>1. PICK f, q : /\ tree' = [tree EXCEPT ![q] = Reg(f)]
                         /\ f \in Files /\ born' = born \cup {f}
            BY <2>1 DEF Create, UserPut
        <3>2. \A g \in Files : Reg(f) = Reg(g) => g \in born'
            BY <3>1, RegIs
        <3> QED BY <1>2, <3>1, <3>2
    <2>2. CASE HardLink
        <3>1. PICK q, old : /\ tree' = [tree EXCEPT ![q] = tree[old]]
                           /\ old \in Paths /\ born' = born
            BY <2>2 DEF HardLink, UserPut
        <3> QED BY <1>2, <3>1 DEF BornInv
    <2>3. CASE MakeDir \/ Chmod
        <3>1. PICK q, w : tree' = [tree EXCEPT ![q] = Dir(w)] /\ born' = born
            BY <2>3 DEF MakeDir, Chmod, UserPut
        <3> QED BY <1>1, <1>2, <3>1
    <2>4. CASE Symlink
        <3>1. PICK q, to : tree' = [tree EXCEPT ![q] = Link(to)] /\ born' = born
            BY <2>4 DEF Symlink, UserPut
        <3> QED BY <1>1, <1>2, <3>1
    <2>5. CASE Empty
        <3>1. PICK q : tree' = [tree EXCEPT ![q] = None] /\ born' = born
            BY <2>5 DEF Empty, UserPut
        <3> QED BY <1>1, <1>2, <3>1
    <2> QED BY <1>4, <2>1, <2>2, <2>3, <2>4, <2>5 DEF User
<1>5. CASE (\E p \in Procs : Call(p)) \/ UNCHANGED vars
    BY <1>5 DEF Call, vars, BornInv
<1> QED BY <1>3, <1>4, <1>5 DEF Next

-----------------------------------------------------------------------------
(* The bin that is chosen *)

\* Where a call goes on with the entry it has taken.
Going == {"resolve", "walk", "rename"} \cup Cloning

\* The entry i wants the file of the call l; those before the one at hand do
\* not.
Wants(t, i, l) ==
    /\ i \in StandingIn(t) /\ Dev[recycler[i].dir] = Dev[l.path]
    /\ Admits(recycler[i], Size[l.st.file], Arg(l))
Passed(t, l) == \A i \in DOMAIN recycler : i < l.bin => ~Wants(t, i, l)

\* A call knows what it deletes, and has taken the first entry that wants it;
\* what it really removes no entry wants, or it lies in the bin that does.
ChosenOk(t, l, x) ==
    /\ x \in InCall => l.mode \in CallModes
    /\ x = "fstatat" => l.bin = 1
    /\ recycler # <<>> /\ x \in InCall \ {"fstatat"} =>
            l.path \in Paths /\ t[l.path] = l.st
    /\ x \in Going => l.bin \in StandingIn(t)
    /\ recycler # <<>> /\ l.st.kind = "reg" =>
            /\ x \in {"choose"} \cup Going => Passed(t, l)
            /\ x \in Going => Wants(t, l.bin, l)
            /\ x = "real" =>
                    \/ \A i \in DOMAIN recycler : ~Wants(t, i, l)
                    \/ /\ Passed(t, l) /\ Wants(t, l.bin, l)
                       /\ UnderDir(Bin(l).dir, l.path)
ChosenInv == \A p \in Procs : ChosenOk(tree, call[p], pc[p])

\* The one process moves on.
LEMMA ProcessChosen ==
    ASSUME Alone, TypeOK, recycler' = recycler, NEW p \in Procs, NEW l, NEW x,
           pc' = [pc EXCEPT ![p] = x], call' = [call EXCEPT ![p] = l],
           ChosenOk(tree', l, x)
    PROVE  ChosenInv'
<1> SUFFICES ASSUME NEW q \in Procs
             PROVE  ChosenOk(tree, call[q], pc[q])'
    BY DEF ChosenInv
<1>1. q = p
    BY DEF Alone
<1>2. call'[q] = l /\ pc'[q] = x
    BY <1>1 DEF TypeOK
<1>3. ChosenOk(tree', call'[q], pc'[q])
    BY <1>2
<1> QED BY <1>3 DEF ChosenOk, Passed, Wants, StandingIn, Bin

\* A call that has returned has nothing to know.
LEMMA ReturnChosen ==
    ASSUME Alone, TypeOK, recycler' = recycler, NEW p \in Procs,
           NEW x \in Returned, Return(p, x)
    PROVE  ChosenInv'
<1>1. ChosenOk(tree', Blank, x)
    BY DEF ChosenOk, Returned, InCall, Going, Cloning
<1> QED BY <1>1, ProcessChosen DEF Return, Goto

\* What matters of the variables of a call for its choice.
Alike(k, l) == /\ k.path = l.path /\ k.mode = l.mode
               /\ k.st = l.st /\ k.bin = l.bin

\* Which entries want a file depends on the bins, the file and its name.
LEMMA WantsAlike ==
    ASSUME NEW t, NEW u, StandingIn(u) = StandingIn(t),
           NEW k, NEW l, k.path = l.path, k.mode = l.mode, k.st = l.st, NEW i
    PROVE  Wants(u, i, k) <=> Wants(t, i, l)
BY DEF Wants, Arg

\* A call that goes on with its entry, while the bins and the file stay.
LEMMA StaysChosen ==
    ASSUME NEW t, NEW l, NEW x \in Going, ChosenOk(t, l, x), recycler # <<>>,
           NEW u, StandingIn(u) = StandingIn(t), u[l.path] = t[l.path],
           NEW k, Alike(k, l), NEW y \in Going \cup {"real"},
           y = "real" => l.st.kind # "reg"
    PROVE  ChosenOk(u, k, y)
<1>1. x \in InCall \ {"fstatat"} /\ y \in InCall \ {"fstatat"}
    BY DEF Going, InCall, Cloning
<1>2. \A i : Wants(u, i, k) <=> Wants(t, i, l)
    BY WantsAlike DEF Alike
<1>3. Passed(u, k) <=> Passed(t, l)
    BY <1>2 DEF Passed, Alike
<1>4. "real" \notin Going
    BY DEF Going, Cloning
<1> QED BY <1>1, <1>2, <1>3, <1>4 DEF ChosenOk, Alike

\* stat sees the file.
LEMMA FstatatChosen ==
    ASSUME Alone, TypeOK, Unlinked(tree), ChosenInv, recycler' = recycler,
           NEW p \in Procs, Fstatat(p)
    PROVE  ChosenInv'
<1> DEFINE l == call[p]
           n == Lookup(tree, l.path, FALSE)
           k == [l EXCEPT !.st = n, !.dev = DevOf(tree, l.path, FALSE)]
<1>1. l \in Calls /\ pc[p] = "fstatat" /\ ChosenOk(tree, l, "fstatat")
      /\ tree' = tree
    BY DEF TypeOK, ChosenInv, Fstatat
<1>2. CASE Return(p, "failed")
    BY <1>2, ReturnChosen DEF Returned
<1>3. CASE n # None /\ call' = [call EXCEPT ![p] = k] /\ Goto(p, "choose")
    <2>1. k.path = l.path /\ k.mode = l.mode /\ k.bin = l.bin /\ k.st = n
        BY <1>1 DEF Calls
    <2>2. PICK no : no = FALSE /\ no \in BOOLEAN
        OBVIOUS
    <2>3. Lookup(tree, l.path, no) = IF PathErr(tree, l.path) = "ok"
                                     THEN At(tree, l.path) ELSE None
        BY <2>2, LookupFlat
    <2>4. n = At(tree, l.path)
        BY <1>3, <2>2, <2>3
    <2>5. l.path \in Paths /\ tree[l.path] = n
        BY <1>3, <2>4 DEF At
    <2>6. l.bin = 1 /\ l.mode \in CallModes
        BY <1>1 DEF ChosenOk, InCall
    <2>7. \A i \in DOMAIN recycler : ~(i < 1)
        <3>1. recycler \in Seq(BinEntry)
            BY RecyclixAssumption DEF TypeOK
        <3> QED BY <3>1
    <2> HIDE DEF k
    <2>8. Passed(tree, k)
        BY <2>1, <2>6, <2>7 DEF Passed
    <2>9. ChosenOk(tree', k, "choose")
        BY <1>1, <2>1, <2>5, <2>6, <2>8 DEF ChosenOk, Going, Cloning
    <2> QED BY <1>3, <2>9, ProcessChosen DEF Goto
<1>4. \/ Return(p, "failed")
      \/ n # None /\ call' = [call EXCEPT ![p] = k] /\ Goto(p, "choose")
    BY DEF Fstatat
<1> QED BY <1>2, <1>3, <1>4

\* What the entry at hand is found to be: the code accepts a file when the
\* entry wants it.
LEMMA AcceptsIs ==
    ASSUME NumbersFit, BinsAbsolute, TypeOK, WalkInv, Unlinked(tree),
           NEW p \in Procs, pc[p] = "choose", recycler # <<>>,
           Bin(call[p]).set, ~Options(Bin(call[p]), Arg(call[p])).bad
    PROVE  /\ Accepts(call[p]) =>
                /\ call[p].bin \in StandingIn(tree)
                /\ call[p].st.kind = "reg" =>
                        Wants(tree, call[p].bin, call[p])
           /\ call[p].st.kind = "reg" /\ Wants(tree, call[p].bin, call[p])
                => Accepts(call[p])
<1> DEFINE l == call[p]
<1>0. l.st \in Node
    BY DEF TypeOK, Calls
<1>1. l.bin \in DOMAIN recycler /\ recycler \in Recyclers
    BY DEF TypeOK, InCall
<1>2. PICK i \in DOMAIN recycler : i = l.bin
    BY <1>1
<1>3. PICK r \in Recyclers : r = recycler
    BY <1>1
<1>4. Bin(l) = r[i] /\ r[i].abs
    BY <1>2, <1>3 DEF Bin, BinsAbsolute
<1>5. Dev[l.path] = l.dev
    <2>1. FileSeen(tree, l)
        BY DEF WalkInv, WalkOk
    <2>2. PICK c : c = Canon(tree, l.path, FALSE) /\ Dev[c] = l.dev
        BY <2>1 DEF FileSeen
    <2>3. \A d : Canon(tree, l.path, d) = l.path
        BY UnlinkedCanon
    <2> QED BY <2>2, <2>3, Zenon
<1>6. PICK d : d = r[i].dir
    OBVIOUS
<1>7. DevOf(tree, d, TRUE) = Dev[d]
    <2>1. \A e : Canon(tree, d, e) = d
        BY UnlinkedCanon
    <2> QED BY <2>1, Zenon DEF DevOf
<1>8. i \in StandingIn(tree) <=> Lookup(tree, d, TRUE) # None
    BY <1>2, <1>3, <1>4, <1>6 DEF StandingIn
<1>9. ASSUME l.st.kind = "reg"
      PROVE  Admits(r[i], Size[l.st.file], Arg(l)) <=>
                /\ ~OutOfLimits(Options(r[i], Arg(l)), Size[l.st.file])
                /\ ~Options(r[i], Arg(l)).excluded
    <2>1. l.st.file \in Files
        BY <1>0, <1>9 DEF Node, None, Dir, Reg, Link
    <2>2. Size[l.st.file] \in Nat
        BY <2>1, RecyclersAssumption
    <2> QED BY <1>2, <1>3, <1>4, <2>2, OptionsAdmit
<1>10. Accepts(l) <=>
          /\ i \in StandingIn(tree) /\ Dev[d] = Dev[l.path]
          /\ ~(l.st.kind = "reg"
               /\ OutOfLimits(Options(r[i], Arg(l)), Size[l.st.file]))
          /\ ~Options(r[i], Arg(l)).excluded
    BY <1>4, <1>5, <1>6, <1>7, <1>8 DEF Accepts
<1>11. Wants(tree, i, l) <=>
          /\ i \in StandingIn(tree) /\ Dev[d] = Dev[l.path]
          /\ Admits(r[i], Size[l.st.file], Arg(l))
    BY <1>3, <1>6 DEF Wants
<1> HIDE DEF l
<1>12. /\ Accepts(l) =>
            /\ i \in StandingIn(tree)
            /\ l.st.kind = "reg" => Wants(tree, i, l)
       /\ l.st.kind = "reg" /\ Wants(tree, i, l) => Accepts(l)
    BY <1>9, <1>10, <1>11
<1> QED BY <1>2, <1>12 DEF l

\* What holds between a state and the next one in this section.
Onward ==
    /\ Alone /\ TypeOK /\ WalkInv /\ WayInv /\ DeepInv /\ BinsInv /\ ChosenInv
    /\ Unlinked(tree) /\ Unlinked(tree') /\ recycler' = recycler

\* The entry at hand is taken if it wants the file.
LEMMA TakeBinChosen ==
    ASSUME Onward, NumbersFit, BinsAbsolute, NEW p \in Procs, TakeBin(p)
    PROVE  ChosenInv'
<1> DEFINE l == call[p]
           k == [l EXCEPT !.ino = InoOf(tree, Bin(l).dir, TRUE)]
<1>1. /\ l \in Calls /\ pc[p] = "choose" /\ ChosenOk(tree, l, "choose")
      /\ tree' = tree /\ Alone /\ TypeOK /\ recycler' = recycler
    BY DEF Onward, TypeOK, ChosenInv, TakeBin
<1>2. recycler # <<>>
    BY <1>1 DEF Onward, WayInv, WayOk, InCall
<1>3. Bin(l).set /\ ~Options(Bin(l), Arg(l)).bad /\ Accepts(l)
    BY DEF TakeBin
<1>4. l.bin \in StandingIn(tree)
      /\ (l.st.kind = "reg" => Wants(tree, l.bin, l))
    BY <1>1, <1>2, <1>3, AcceptsIs DEF Onward
<1>5. k.path = l.path /\ k.mode = l.mode /\ k.st = l.st /\ k.bin = l.bin
    BY <1>1 DEF Calls
<1>6. \A i : Wants(tree, i, k) <=> Wants(tree, i, l)
    BY <1>5, WantsAlike
<1>7. Passed(tree, k) <=> Passed(tree, l)
    BY <1>5, <1>6 DEF Passed
<1> HIDE DEF k
<1>8. ChosenOk(tree', k, "resolve")
    BY <1>1, <1>2, <1>4, <1>5, <1>6, <1>7 DEF ChosenOk, Going, InCall, Cloning
<1>9. /\ call' = [call EXCEPT ![p] = k]
      /\ pc' = [pc EXCEPT ![p] = "resolve"]
    BY DEF TakeBin, Goto, k
<1> QED BY <1>1, <1>8, <1>9, ProcessChosen

\* It is passed if it does not.
LEMMA SkipBinChosen ==
    ASSUME Onward, NumbersFit, BinsAbsolute, NEW p \in Procs, SkipBin(p)
    PROVE  ChosenInv'
<1> DEFINE l == call[p]
           k == [l EXCEPT !.bin = l.bin + 1]
<1>1. /\ l \in Calls /\ pc[p] = "choose" /\ ChosenOk(tree, l, "choose")
      /\ tree' = tree /\ Alone /\ TypeOK /\ recycler' = recycler
    BY DEF Onward, TypeOK, ChosenInv, SkipBin
<1>2. /\ recycler # <<>> /\ recycler \in Seq(BinEntry)
      /\ l.bin \in DOMAIN recycler
    BY <1>1, RecyclixAssumption DEF Onward, WayInv, WayOk, InCall, TypeOK
<1>3. Bin(l).set => ~Options(Bin(l), Arg(l)).bad /\ ~Accepts(l)
    BY DEF SkipBin
<1>4. l.st.kind = "reg" => ~Wants(tree, l.bin, l)
    <2> SUFFICES ASSUME l.st.kind = "reg", Wants(tree, l.bin, l)
                 PROVE  FALSE
        OBVIOUS
    <2>1. Bin(l).set
        BY DEF Wants, StandingIn, Bin
    <2> QED BY <1>1, <1>2, <1>3, <2>1, AcceptsIs DEF Onward
<1>5. l.st.kind = "reg" => Passed(tree, l)
    BY <1>1, <1>2 DEF ChosenOk
<1>6. PICK n \in Nat, b \in Nat : /\ n = Len(recycler) /\ b = l.bin
                                  /\ DOMAIN recycler = 1..n /\ b \in 1..n
    <2>1. PICK n \in Nat : n = Len(recycler) /\ DOMAIN recycler = 1..n
        BY <1>2
    <2>2. l.bin \in 1..n /\ l.bin \in Nat
        BY <1>2, <2>1
    <2> QED BY <2>1, <2>2
<1>7. l.path \in Paths /\ tree[l.path] = l.st /\ l.mode \in CallModes
    BY <1>1, <1>2 DEF ChosenOk, InCall
<1>8. CASE Goto(p, "real") /\ call' = call /\ b = n
    <2>1. l.st.kind = "reg" => \A i \in DOMAIN recycler : ~Wants(tree, i, l)
        <3> SUFFICES ASSUME l.st.kind = "reg", NEW i \in 1..n
                     PROVE  ~Wants(tree, i, l)
            BY <1>6
        <3>1. i < b \/ i = b
            BY <1>8
        <3> QED BY <1>4, <1>5, <1>6, <3>1 DEF Passed
    <2>2. ChosenOk(tree', l, "real")
        BY <1>1, <1>7, <2>1 DEF ChosenOk, Going, Cloning
    <2>3. call' = [call EXCEPT ![p] = l]
        BY <1>1, <1>8 DEF TypeOK
    <2> QED BY <1>1, <1>8, <2>2, <2>3, ProcessChosen DEF Goto
<1>9. CASE call' = [call EXCEPT ![p] = k] /\ pc' = pc
    <2>1. k.path = l.path /\ k.mode = l.mode /\ k.st = l.st /\ k.bin = b + 1
        BY <1>1, <1>6 DEF Calls
    <2>2. \A i : Wants(tree, i, k) <=> Wants(tree, i, l)
        BY <2>1, WantsAlike
    <2> HIDE DEF k
    <2>3. l.st.kind = "reg" => Passed(tree, k)
        <3> SUFFICES ASSUME l.st.kind = "reg", NEW i \in 1..n, i < b + 1
                     PROVE  ~Wants(tree, i, l)
            BY <1>6, <2>1, <2>2 DEF Passed
        <3>1. i < b \/ i = b
            OBVIOUS
        <3> QED BY <1>4, <1>5, <1>6, <3>1 DEF Passed
    <2>4. ChosenOk(tree', k, "choose")
        BY <1>1, <1>7, <2>1, <2>3 DEF ChosenOk, Going, Cloning
    <2>5. pc' = [pc EXCEPT ![p] = "choose"]
        BY <1>1, <1>9 DEF TypeOK
    <2> QED BY <1>1, <1>9, <2>4, <2>5, ProcessChosen
<1>10. \/ Goto(p, "real") /\ call' = call /\ l.bin = Len(recycler)
       \/ call' = [call EXCEPT ![p] = k] /\ pc' = pc
    BY DEF SkipBin
<1> QED BY <1>6, <1>8, <1>9, <1>10

\* A call that goes on with its entry leaves the bins and the file alone.
LEMMA OnwardChosen ==
    ASSUME Onward, BinsKept, MountsKept, NEW p \in Procs, Step(p),
           pc[p] \in Going \ {"rename"},
           NEW y \in Going \cup {"real"}, NEW k, Alike(k, call[p]),
           pc' = [pc EXCEPT ![p] = y], call' = [call EXCEPT ![p] = k],
           y = "real" => call[p].st.kind # "reg"
    PROVE  ChosenInv'
<1> DEFINE l == call[p]
<1>1. /\ ChosenOk(tree, l, pc[p]) /\ Alone /\ TypeOK /\ recycler' = recycler
      /\ tree \in [Paths -> Node] /\ pc[p] \in InCall \ {"real", "fstatat"}
    BY DEF Onward, ChosenInv, TypeOK, Tree, Going, InCall, Cloning
<1>2. recycler # <<>> /\ l.path \in Paths /\ l.bin \in StandingIn(tree)
    BY <1>1, EntryAtHand DEF Onward, ChosenOk
<1>3. pc'[p] = y /\ y # "zero"
    BY <1>1 DEF TypeOK, Going, Cloning
<1>4. StandingIn(tree') = StandingIn(tree)
    BY <1>2, StepStanding DEF Onward
<1>5. tree'[l.path] = tree[l.path]
    <2>1. CASE tree' = tree
        BY <2>1
    <2>2. CASE Moves(p, tree, tree') \/ Deletes(p, tree, tree')
        BY <1>3, <2>2 DEF Moves, Deletes
    <2>3. CASE Makes(p, tree, tree') \/ Clears(p, tree, tree')
        <3>1. PICK c, n : /\ tree' = [tree EXCEPT ![c] = n] /\ pc[p] \in Cloning
                          /\ IsPrefix(Bin(l).dir, c)
            <4>1. CASE Makes(p, tree, tree')
                <5>1. PICK w : /\ tree' = [tree EXCEPT ![Current(l)] = Dir(w)]
                               /\ pc[p] \in {"mkdir", "chmoddst"}
                    BY <4>1 DEF Makes
                <5> QED BY <5>1, CurrentInBin DEF Onward, Cloning
            <4>2. CASE Clears(p, tree, tree')
                BY <4>2, ClearedInBin DEF Onward, UnderDir, IsStrictPrefix
            <4> QED BY <2>3, <4>1, <4>2
        <3>2. ~UnderDir(Bin(l).dir, l.path)
            BY <3>1 DEF Onward, WalkInv, WalkOk, MountFound, WayInv, WayOk
        <3>3. Bin(l).dir # l.path
            <4>1. l.path \in CallPaths /\ recycler \in Recyclers
                  /\ l.bin \in DOMAIN recycler
                BY <1>1, <1>2 DEF TypeOK, StandingIn
            <4>2. ~IsPrefix(l.path, Bin(l).dir)
                BY <4>1 DEF BinsKept, Bin
            <4>3. l.path \in Seq(Names)
                BY <1>2, FileTreeAssumption
            <4>4. IsPrefix(l.path, l.path)
                BY <4>3 DEF IsPrefix
            <4> QED BY <4>2, <4>4
        <3>4. c # l.path
            BY <3>1, <3>2, <3>3 DEF UnderDir, IsStrictPrefix
        <3> QED BY <1>1, <1>2, <3>1, <3>4
    <2> QED BY <2>1, <2>2, <2>3, StepFlat DEF Onward
<1>6. ChosenOk(tree', k, y)
    BY <1>1, <1>2, <1>4, <1>5, StaysChosen
<1> QED BY <1>1, <1>6, ProcessChosen

\* The walk finds the bin only where it is, above the file.
LEMMA WalkUpChosen ==
    ASSUME Onward, BinsKept, MountsKept, BinsNumbered, NEW p \in Procs,
           WalkUp(p)
    PROVE  ChosenInv'
<1> DEFINE l == call[p]
           up == Prefix(l.fq, l.mp - 1)
           k == [l EXCEPT !.mp = l.mp - 1]
<1>1. /\ l \in Calls /\ pc[p] = "walk" /\ ChosenOk(tree, l, "walk")
      /\ tree' = tree /\ Alone /\ TypeOK /\ recycler' = recycler /\ Step(p)
      /\ tree \in Tree
    BY DEF Onward, TypeOK, ChosenInv, WalkUp, Step
<1>2. pc[p] \in Going \ {"rename"} /\ pc[p] \in InCall \ {"real"}
    BY <1>1 DEF Going, InCall
<1>3. recycler # <<>> /\ l.bin \in DOMAIN recycler /\ recycler \in Recyclers
    BY <1>1, <1>2, EntryAtHand DEF Onward, TypeOK
<1>4. CASE Return(p, "failed")
    BY <1>1, <1>4, ReturnChosen DEF Returned
<1>5. CASE /\ Lookup(tree, up, TRUE) # None /\ InoOf(tree, up, TRUE) = l.ino
           /\ Goto(p, "real") /\ call' = call
    <2>1. BinSeen(tree, l) /\ Walked(tree, l) /\ l.fq = l.path
          /\ l.path \in CallPaths
        BY <1>1, <1>2 DEF Onward, WalkInv, WalkOk, WayInv, WayOk, TypeOK
    <2>2. PICK q \in Seq(Names), n \in Nat : /\ q = l.path /\ n = Len(q)
                                            /\ n # 0
        <3>1. l.path \in Seq(Names) /\ l.path # <<>>
            BY <2>1, RecyclixAssumption
        <3> QED BY <3>1, EmptySeq
    <2>3. PICK m \in Int : m = l.mp - 1 /\ m < n
        <3>1. l.mp \in Nat /\ l.mp <= n
            BY <1>1, <2>1, <2>2 DEF Walked, Calls
        <3> QED BY <3>1
    <2>4. PICK c \in Seq(Names) : /\ c = Prefix(q, m) /\ c = up
                                  /\ Len(c) = IF 1 <= m THEN m ELSE 0
        BY <2>1, <2>2, <2>3, PrefixIs
    <2>5. IsStrictPrefix(c, q)
        <3>1. IsPrefix(c, q)
            BY <2>2, <2>3, <2>4, PrefixBegins
        <3>2. Len(c) # n
            BY <2>2, <2>3, <2>4
        <3> QED BY <2>2, <3>1, <3>2 DEF IsStrictPrefix
    <2>6. \A r, d : Canon(tree, r, d) = r
        BY UnlinkedCanon DEF Onward
    <2>7. c \in Paths
        <3>1. Canon(tree, c, TRUE) \in Paths
            BY <1>1, <1>5, <2>4, LookupType
        <3> QED BY <2>6, <3>1
    <2>8. Ino[c] = l.ino
        BY <1>5, <2>4, <2>6 DEF InoOf
    <2>9. Ino[Bin(l).dir] = l.ino
        <3>1. PICK b : b = Bin(l).dir
            OBVIOUS
        <3>2. PICK e : e = Canon(tree, b, TRUE) /\ Ino[e] = l.ino
            BY <2>1, <3>1 DEF BinSeen
        <3>3. e = b
            BY <2>6, <3>2
        <3> QED BY <3>1, <3>2, <3>3
    <2>10. c = Bin(l).dir
        BY <1>3, <2>1, <2>2, <2>5, <2>7, <2>8, <2>9 DEF BinsNumbered, Bin
    <2>11. UnderDir(Bin(l).dir, l.path)
        BY <2>2, <2>5, <2>10 DEF UnderDir
    <2>12. ChosenOk(tree', l, "real")
        BY <1>1, <1>3, <2>11 DEF ChosenOk, Going, InCall, Cloning
    <2>13. call' = [call EXCEPT ![p] = l]
        BY <1>1, <1>5 DEF TypeOK
    <2> QED BY <1>1, <1>5, <2>12, <2>13, ProcessChosen DEF Goto
<1>6. CASE Goto(p, "donor") /\ call' = call
    <2>1. call' = [call EXCEPT ![p] = l] /\ Alike(l, l)
        BY <1>1, <1>6 DEF TypeOK, Alike
    <2>2. "donor" \in Going \cup {"real"}
        BY DEF Going, Cloning
    <2> QED BY <1>1, <1>2, <1>6, <2>1, <2>2, OnwardChosen DEF Goto
<1>7. CASE call' = [call EXCEPT ![p] = k] /\ pc' = pc
    <2>1. Alike(k, l)
        BY <1>1 DEF Calls, Alike
    <2>2. "walk" \in Going \cup {"real"} /\ pc' = [pc EXCEPT ![p] = "walk"]
        BY <1>1, <1>7 DEF TypeOK, Going
    <2> HIDE DEF k
    <2> QED BY <1>1, <1>2, <1>7, <2>1, <2>2, OnwardChosen
<1>8. \/ Return(p, "failed")
      \/ /\ Lookup(tree, up, TRUE) # None /\ InoOf(tree, up, TRUE) = l.ino
         /\ Goto(p, "real") /\ call' = call
      \/ Goto(p, "donor") /\ call' = call
      \/ call' = [call EXCEPT ![p] = k] /\ pc' = pc
    BY DEF WalkUp
<1> QED BY <1>4, <1>5, <1>6, <1>7, <1>8

\* The real path is that of the same file.
LEMMA ResolveChosen ==
    ASSUME Onward, BinsKept, MountsKept, NEW p \in Procs, Resolve(p)
    PROVE  ChosenInv'
<1> DEFINE l == call[p]
           fq == Append(Canon(tree, Parent(l.path), TRUE), Last(l.path))
           k == [l EXCEPT !.fq = fq, !.mp = Len(fq)]
<1>1. /\ l \in Calls /\ pc[p] = "resolve" /\ pc[p] \in Going \ {"rename"}
      /\ Step(p) /\ "walk" \in Going \cup {"real"}
    BY DEF Onward, TypeOK, Resolve, Step, Going
<1>2. call' = [call EXCEPT ![p] = k] /\ pc' = [pc EXCEPT ![p] = "walk"]
    BY DEF Resolve, Goto
<1>3. Alike(k, l)
    BY <1>1 DEF Calls, Alike
<1> HIDE DEF k
<1> QED BY <1>1, <1>2, <1>3, OnwardChosen

\* A clone is made for the same file, and only that of a directory ends in its
\* removal.
LEMMA CloningChosen ==
    ASSUME Onward, BinsKept, MountsKept, NEW p \in Procs,
           \/ DonorStat(p) \/ Mkdir(p) \/ RmParent(p)
           \/ StatDst(p) \/ ChmodDst(p) \/ RmDst(p)
    PROVE  ChosenInv'
<1> DEFINE l == call[p]
<1>1. /\ l \in Calls /\ pc[p] \in Cloning /\ pc[p] \in Going \ {"rename"}
      /\ Step(p) /\ Alone /\ TypeOK /\ recycler' = recycler
    BY DEF Onward, TypeOK, Step, DonorStat, Mkdir, RmParent, StatDst,
           ChmodDst, RmDst, Going, Cloning
<1>2. CASE Return(p, "failed")
    BY <1>1, <1>2, ReturnChosen DEF Returned
<1>3. ASSUME NEW x \in Cloning, Goto(p, x), call' = call
      PROVE  ChosenInv'
    <2>1. call' = [call EXCEPT ![p] = l] /\ Alike(l, l)
        BY <1>1, <1>3 DEF TypeOK, Alike
    <2>2. x \in Going \cup {"real"} /\ x # "real"
        BY <1>3 DEF Going, Cloning
    <2> QED BY <1>1, <1>3, <2>1, <2>2, OnwardChosen DEF Goto
<1>4. ASSUME NEW s, NEW x \in Going \cup {"real"}, Goto(p, x),
             call' = [call EXCEPT ![p] = [l EXCEPT !.modes = s]],
             x = "real" => l.st.kind # "reg"
      PROVE  ChosenInv'
    <2>1. PICK k : k = [l EXCEPT !.modes = s]
        OBVIOUS
    <2>2. Alike(k, l)
        BY <1>1, <2>1 DEF Calls, Alike
    <2> QED BY <1>1, <1>4, <2>1, <2>2, OnwardChosen DEF Goto
<1>5. CASE CloneDone(p)
    <2>1. CASE Len(l.modes) > 1
        <3>1. /\ Goto(p, "mkdir")
              /\ call' = [call EXCEPT ![p] = [l EXCEPT !.modes = Front(@)]]
            BY <1>5, <2>1 DEF CloneDone
        <3>2. "mkdir" \in Going \cup {"real"}
            BY DEF Going, Cloning
        <3> QED BY <1>4, <3>1, <3>2
    <2>2. CASE ~(Len(l.modes) > 1)
        <3>1. PICK x : x = IF l.st.kind = "dir" THEN "real" ELSE "rename"
            OBVIOUS
        <3>2. /\ Goto(p, x)
              /\ call' = [call EXCEPT ![p] = [l EXCEPT !.modes = <<>>]]
            BY <1>5, <2>2, <3>1 DEF CloneDone
        <3>3. x \in Going \cup {"real"} /\ (x = "real" => l.st.kind # "reg")
            BY <3>1 DEF Going
        <3> QED BY <1>4, <3>2, <3>3
    <2> QED BY <2>1, <2>2
<1>6. CASE DonorStat(p)
    <2>1. \/ Return(p, "failed")
          \/ /\ Goto(p, "mkdir")
             /\ \E n : call' = [call EXCEPT ![p] =
                                    [l EXCEPT !.modes = Append(@, n)]]
        BY <1>6 DEF DonorStat
    <2>2. "mkdir" \in Going \cup {"real"}
        BY DEF Going, Cloning
    <2> QED BY <1>2, <1>4, <2>1, <2>2
<1>7. CASE Mkdir(p)
    BY <1>2, <1>3, <1>5, <1>7 DEF Mkdir, Cloning
<1>8. CASE RmParent(p)
    BY <1>2, <1>3, <1>8 DEF RmParent, Cloning
<1>9. CASE StatDst(p) \/ ChmodDst(p)
    BY <1>2, <1>3, <1>5, <1>9 DEF StatDst, ChmodDst, Cloning
<1>10. CASE RmDst(p)
    BY <1>2, <1>3, <1>10 DEF RmDst, Cloning
<1> QED BY <1>6, <1>7, <1>8, <1>9, <1>10

\* Every step keeps the choice.
LEMMA NextChosen ==
    ASSUME Onward, BinsKept, MountsKept, BinsNumbered, BinsAbsolute, NumbersFit,
           [Next]_vars
    PROVE  ChosenInv'
<1>1. Alone /\ TypeOK /\ recycler' = recycler /\ Unlinked(tree) /\ ChosenInv
    BY DEF Onward
<1>2. ASSUME NEW p \in Procs, NEW x \in Returned, Return(p, x)
      PROVE  ChosenInv'
    BY <1>1, <1>2, ReturnChosen
<1>3. ASSUME NEW p \in Procs, Step(p)
      PROVE  ChosenInv'
    <2>1. CASE BadOption(p) \/ AtDirFails(p) \/ RealpathFails(p) \/ Rename(p)
               \/ RealUnlink(p)
        BY <1>2, <2>1 DEF BadOption, AtDirFails, RealpathFails, Rename,
                          RealUnlink, Returned
    <2>2. CASE \/ DonorStat(p) \/ Mkdir(p) \/ RmParent(p)
               \/ StatDst(p) \/ ChmodDst(p) \/ RmDst(p)
        BY <2>2, CloningChosen
    <2> QED BY <1>1, <1>3, <2>1, <2>2, FstatatChosen, TakeBinChosen,
               SkipBinChosen, ResolveChosen, WalkUpChosen DEF Step
<1>4. ASSUME NEW p \in Procs, Call(p)
      PROVE  ChosenInv'
    <2>1. PICK q \in CallPaths, m \in CallModes, d \in BOOLEAN :
              call' = [call EXCEPT ![p] =
                        [Blank EXCEPT !.path = q, !.mode = m, !.rmdir = d]]
        BY <1>4 DEF Call
    <2>2. PICK l : l = [Blank EXCEPT !.path = q, !.mode = m, !.rmdir = d]
        OBVIOUS
    <2>3. l.mode = m /\ l.bin = 1
        BY <2>2 DEF Blank
    <2>4. PICK x : /\ x = IF recycler = <<>> THEN "real" ELSE "fstatat"
                   /\ pc' = [pc EXCEPT ![p] = x]
        BY <1>4 DEF Call, Goto
    <2>5. ChosenOk(tree', l, x)
        BY <2>3, <2>4 DEF ChosenOk, Going, Cloning
    <2> QED BY <1>1, <2>1, <2>2, <2>4, <2>5, ProcessChosen
<1>5. CASE User
    <2> SUFFICES ASSUME NEW p \in Procs
                 PROVE  ChosenOk(tree, call[p], pc[p])'
        BY DEF ChosenInv
    <2>1. pc[p] \in Returned /\ pc' = pc
        BY <1>1, <1>5, UserWaits, UserApart
    <2>2. pc'[p] \notin InCall \cup Going
        BY <2>1 DEF Returned, InCall, Going, Cloning
    <2> QED BY <2>2 DEF ChosenOk, InCall, Going
<1>6. CASE UNCHANGED vars
    <2> SUFFICES ASSUME NEW p \in Procs
                 PROVE  ChosenOk(tree, call[p], pc[p])'
        BY DEF ChosenInv
    <2>1. ChosenOk(tree, call[p], pc[p])
        BY <1>1 DEF ChosenInv
    <2>2. ChosenOk(tree', call'[p], pc'[p])
        BY <1>6, <2>1 DEF vars
    <2> QED BY <1>1, <2>2 DEF ChosenOk, Passed, Wants, StandingIn, Bin
<1> QED BY <1>3, <1>4, <1>5, <1>6 DEF Next

-----------------------------------------------------------------------------
(* Every step keeps the promise *)

\* The entries that want a file for RecycleBin are those that want it here.
LEMMA WantingIs ==
    ASSUME TypeOK, NEW f \in Files, NEW l, l.st = Reg(f)
    PROVE  Promise!Wanting(f, l.path, l.mode)
                = {i \in DOMAIN recycler : Wants(tree, i, l)}
<1>1. l.st.file = f
    BY RegIs
<1>2. Promise!Wanting(f, l.path, l.mode) =
        {i \in StandingIn(tree) :
            /\ Dev[recycler[i].dir] = Dev[l.path]
            /\ Promise!Admits(recycler[i], Size[f], <<l.path, l.mode>>)}
    BY Zenon DEF Promise!Wanting, StandingIn
<1>3. \A i : Promise!Admits(recycler[i], Size[f], <<l.path, l.mode>>)
                <=> Admits(recycler[i], Size[f], <<l.path, l.mode>>)
    BY SameAdmits
<1>4. StandingIn(tree) \subseteq DOMAIN recycler
    BY DEF StandingIn
<1> QED BY <1>1, <1>2, <1>3, <1>4 DEF Wants, Arg

\* The first of them, when one wants it and those before do not.
LEMMA FirstWanting ==
    ASSUME TypeOK, NEW l, Passed(tree, l), Wants(tree, l.bin, l),
           NEW w, w = {i \in DOMAIN recycler : Wants(tree, i, l)}
    PROVE  w # {} /\ Promise!Min(w) = l.bin
<1>1. recycler \in Seq(BinEntry)
    BY RecyclixAssumption DEF TypeOK
<1>2. PICK n \in Nat : DOMAIN recycler = 1..n
    BY <1>1
<1>3. w \in SUBSET Nat
    BY <1>2
<1>4. l.bin \in DOMAIN recycler
    BY DEF Wants, StandingIn
<1>5. l.bin \in w
    BY <1>4
<1>6. Min(w) \in w /\ \A i \in w : Min(w) <= i
    BY <1>3, <1>5, MinIsLeast
<1>7. PICK m \in Nat, b \in Nat : m = Min(w) /\ b = l.bin
    BY <1>3, <1>5, <1>6
<1>8. m <= b /\ ~(m < b)
    BY <1>5, <1>6, <1>7 DEF Passed
<1>9. m = b
    BY <1>8
<1>10. Promise!Min(w) = Min(w)
    BY Zenon DEF Promise!Min, Min
<1> QED BY <1>5, <1>7, <1>9, <1>10

\* Where a file goes that is moved, and that one does that is not.
LEMMA Destined ==
    ASSUME TypeOK, NEW f \in Files, NEW l, l.st = Reg(f),
           Passed(tree, l), Wants(tree, l.bin, l)
    PROVE  Promise!Destination(f, l.path, l.mode) =
                IF UnderDir(Bin(l).dir, l.path) THEN <<>>
                ELSE BinPlace(Bin(l), l.path)
<1>1. PICK w : w = {i \in DOMAIN recycler : Wants(tree, i, l)}
    OBVIOUS
<1>2. w # {} /\ Promise!Min(w) = l.bin
    BY <1>1, FirstWanting
<1>3. Promise!Wanting(f, l.path, l.mode) = w
    BY <1>1, WantingIs
<1>4. Promise!Destination(f, l.path, l.mode) =
        IF Promise!UnderDir(recycler[l.bin].dir, l.path) THEN <<>>
        ELSE Promise!BinPlace(recycler[l.bin], l.path)
    BY <1>2, <1>3 DEF Promise!Destination
<1> QED BY <1>4, SamePlace DEF Bin

\* A file that no entry wants is to be deleted for good.
LEMMA NotDestined ==
    ASSUME TypeOK, NEW f \in Files, NEW l, l.st = Reg(f),
           \A i \in DOMAIN recycler : ~Wants(tree, i, l)
    PROVE  Promise!Destination(f, l.path, l.mode) = <<>>
<1>1. Promise!Wanting(f, l.path, l.mode) = {}
    BY WantingIs
<1> QED BY <1>1 DEF Promise!Destination

\* The steps of RecycleBin, in terms of the tree: the bins that stand may
\* change while no file does.
LEMMA DirChanges ==
    ASSUME UNCHANGED <<recycler, born>>, NamesIn(tree') = NamesIn(tree)
    PROVE  Promise!Next
<1>1. StandingIn(tree') \in SUBSET DOMAIN recycler
    BY DEF StandingIn
<1>2. Promise!BinDirChanges
    BY <1>1, Zenon DEF Promise!BinDirChanges, NamesIn, StandingIn
<1> QED BY <1>2 DEF Promise!Next

\* A name of a file goes to its destination.
LEMMA Recycles ==
    ASSUME UNCHANGED <<recycler, born>>, StandingIn(tree') = StandingIn(tree),
           NEW f \in Files, NEW q \in NamesIn(tree)[f], NEW m \in CallModes,
           NEW d, d = Promise!Destination(f, q, m), d # <<>>,
           NamesIn(tree') = NamesMoved(NamesIn(tree), f, q, d)
    PROVE  Promise!Next
<1>1. Promise!Recycle(f, q)
    BY Zenon DEF Promise!Recycle, NamesIn, StandingIn, NamesMoved
<1> QED BY <1>1, Zenon DEF Promise!Next, NamesIn

\* A name goes that has no destination.
LEMMA DeletesForGood ==
    ASSUME UNCHANGED <<recycler, born>>, StandingIn(tree') = StandingIn(tree),
           NEW f \in Files, NEW q \in NamesIn(tree)[f], NEW m \in CallModes,
           Promise!Destination(f, q, m) = <<>>,
           NamesIn(tree') = [NamesIn(tree) EXCEPT ![f] = NamesIn(tree)[f] \ {q}]
    PROVE  Promise!Next
<1>1. Promise!Delete(f, q)
    BY Zenon DEF Promise!Delete, NamesIn, StandingIn
<1> QED BY <1>1, Zenon DEF Promise!Next, NamesIn

\* A name in a bin goes that is in the way of what is recycled.
LEMMA MakesRoom ==
    ASSUME UNCHANGED <<recycler, born>>, StandingIn(tree') = StandingIn(tree),
           NEW f \in Files, NEW q \in NamesIn(tree)[f],
           NEW i \in StandingIn(tree), UnderDir(recycler[i].dir, q),
           NEW p \in Paths, Dev[recycler[i].dir] = Dev[p],
           ~UnderDir(recycler[i].dir, p), IsPrefix(q, BinPlace(recycler[i], p)),
           NamesIn(tree') = [NamesIn(tree) EXCEPT ![f] = NamesIn(tree)[f] \ {q}]
    PROVE  Promise!Next
<1>1. /\ Promise!UnderDir(recycler[i].dir, q)
      /\ ~Promise!UnderDir(recycler[i].dir, p)
      /\ Promise!IsPrefix(q, Promise!BinPlace(recycler[i], p))
    BY SamePlace
<1>2. Promise!InSomeBin(q)
    BY <1>1 DEF Promise!InSomeBin, StandingIn
<1>3. Promise!MakeRoom(f, q)
    BY <1>1, <1>2, Zenon DEF Promise!MakeRoom, NamesIn, StandingIn
<1> QED BY <1>3, Zenon DEF Promise!Next, NamesIn

\* The user takes a name out of a bin.
LEMMA Empties ==
    ASSUME UNCHANGED <<recycler, born>>, StandingIn(tree') = StandingIn(tree),
           NEW f \in Files, NEW q \in NamesIn(tree)[f], InBin(q),
           NamesIn(tree') = [NamesIn(tree) EXCEPT ![f] = NamesIn(tree)[f] \ {q}]
    PROVE  Promise!Next
<1>1. Promise!InSomeBin(q)
    BY SamePlace DEF Promise!InSomeBin, InBin
<1>2. Promise!Empty(f, q)
    BY <1>1, Zenon DEF Promise!Empty, NamesIn, StandingIn
<1> QED BY <1>2, Zenon DEF Promise!Next, NamesIn

\* The user gives a file a name.
LEMMA Binds ==
    ASSUME recycler' = recycler, StandingIn(tree') = StandingIn(tree),
           NEW f \in Files, f \notin born \/ NamesIn(tree)[f] # {},
           born' = born \cup {f}, NEW q \in Paths,
           NamesIn(tree') = [g \in Files |->
                IF g = f THEN NamesIn(tree)[g] \cup {q}
                ELSE NamesIn(tree)[g] \ {q}]
    PROVE  Promise!Next
<1>1. Promise!Bind(f, q)
    BY Zenon DEF Promise!Bind, NamesIn, StandingIn
<1> QED BY <1>1, Zenon DEF Promise!Next

\* A system call that changes anything does what RecycleBin lets it do.
LEMMA StepPromise ==
    ASSUME Onward, BinsKept, MountsKept, BinsInv', NEW p \in Procs, Step(p),
           UNCHANGED <<recycler, born>>
    PROVE  Promise!Next
<1> DEFINE l == call[p]
<1>1. /\ tree \in Tree /\ TypeOK /\ Unlinked(tree) /\ ChosenOk(tree, l, pc[p])
      /\ None.kind = "none" /\ \A w : Dir(w).kind = "dir"
    BY DEF Onward, TypeOK, ChosenInv, None, Dir
<1>2. pc[p] \in Going => l.bin \in StandingIn(tree)
    BY <1>1 DEF ChosenOk
<1>3. StandingIn(tree') = StandingIn(tree)
    BY <1>2, StepStanding DEF Onward, Going
<1>4. CASE tree' = tree
    BY <1>4, DirChanges
<1>5. CASE Makes(p, tree, tree')
    <2>1. PICK c, w : /\ tree' = [tree EXCEPT ![c] = Dir(w)]
                      /\ At(tree, c).kind \in {"none", "dir"}
        BY <1>5 DEF Makes
    <2>2. c \in Paths => tree[c].kind # "reg"
        BY <2>1 DEF At
    <2>3. NamesIn(tree') = NamesIn(tree)
        BY <1>1, <2>1, <2>2, NamesStay
    <2> QED BY <2>3, DirChanges
<1>6. CASE Clears(p, tree, tree')
    <2>1. PICK c \in Paths : /\ UnderDir(Bin(l).dir, c)
                             /\ IsPrefix(c, Recycled(l))
                             /\ tree[c].kind \notin {"none", "dir"}
                             /\ tree' = [tree EXCEPT ![c] = None]
                             /\ pc[p] \in Cloning
        BY <1>6, ClearedInBin DEF Onward
    <2>2. PICK f \in Files : tree[c] = Reg(f)
        BY <1>1, <2>1, FileIs
    <2>3. /\ c \in NamesIn(tree)[f]
          /\ NamesIn(tree') =
                [NamesIn(tree) EXCEPT ![f] = NamesIn(tree)[f] \ {c}]
        BY <1>1, <2>1, <2>2, NamesGo
    <2>4. PICK i \in StandingIn(tree) : i = l.bin
        BY <1>2, <2>1 DEF Going
    <2>5. /\ l.fq = l.path /\ l.path \in Paths /\ MountFound(l)
          /\ Dev[l.path] = Dev[Bin(l).dir]
        BY <2>1 DEF Onward, WayInv, WayOk, WalkInv, WalkOk
    <2>6. Recycled(l) = BinPlace(recycler[i], l.path)
        BY <2>4, <2>5 DEF Recycled, BinPlace, MountFound, Bin
    <2>7. ~UnderDir(recycler[i].dir, l.path)
        BY <2>4, <2>5 DEF MountFound, Bin
    <2>8. /\ UnderDir(recycler[i].dir, c) /\ Dev[recycler[i].dir] = Dev[l.path]
          /\ IsPrefix(c, BinPlace(recycler[i], l.path))
        BY <2>1, <2>4, <2>5, <2>6 DEF Bin
    <2> QED BY <1>3, <2>2, <2>3, <2>5, <2>7, <2>8, MakesRoom
<1>7. CASE Moves(p, tree, tree')
    <2>1. PICK co \in Paths, cn \in Paths :
              /\ pc[p] = "rename" /\ co = l.path /\ cn = Recycled(l)
              /\ tree[co].kind \notin {"none", "dir"}
              /\ \/ tree' = tree
                 \/ tree' = [tree EXCEPT ![cn] = tree[co], ![co] = None]
        BY <1>7 DEF Moves
    <2>2. PICK f \in Files : tree[co] = Reg(f)
        BY <1>1, <2>1, FileIs
    <2>3. pc[p] \in Going /\ pc[p] \in InCall \ {"fstatat", "real"}
        BY <2>1 DEF Going, InCall
    <2>4. recycler # <<>>
        BY <2>3, EntryAtHand DEF Onward
    <2>5. l.st = Reg(f) /\ l.mode \in CallModes
        BY <1>1, <2>1, <2>2, <2>3, <2>4 DEF ChosenOk
    <2>6. Passed(tree, l) /\ Wants(tree, l.bin, l)
        BY <1>1, <2>3, <2>4, <2>5, RegIs DEF ChosenOk
    <2>7. l.fq = l.path /\ MountFound(l)
        BY <2>1 DEF Onward, WayInv, WayOk, WalkInv, WalkOk
    <2>8. Recycled(l) = BinPlace(Bin(l), l.path)
        BY <2>7 DEF Recycled, BinPlace, MountFound
    <2>9. cn = Promise!Destination(f, co, l.mode)
        BY <1>1, <2>1, <2>5, <2>6, <2>7, <2>8, Destined DEF MountFound
    <2>10. co # cn
        BY <2>1, MovedElsewhere DEF Onward
    <2>11. cn # <<>>
        <3>1. cn \in Seq(Names) /\ UnderDir(Bin(l).dir, cn)
            BY <2>1, PlaceBelow DEF Onward
        <3>2. PICK b \in Seq(Names) : b = Bin(l).dir
            BY <2>3, <2>4, BinAtHand, FileTreeAssumption DEF Onward
        <3> SUFFICES ASSUME cn = <<>> PROVE FALSE
            OBVIOUS
        <3>3. Len(b) <= Len(cn) /\ b # cn
            BY <3>1, <3>2 DEF UnderDir, IsStrictPrefix, IsPrefix
        <3>4. Len(b) = 0
            BY <3>2, <3>3
        <3> QED BY <3>2, <3>3, <3>4, EmptySeq
    <2>12. CASE tree' = tree
        BY <2>12, DirChanges
    <2>13. CASE tree' = [tree EXCEPT ![cn] = tree[co], ![co] = None]
        <3>1. /\ co \in NamesIn(tree)[f]
              /\ NamesIn(TreeMoved(tree, co, cn))
                    = NamesMoved(NamesIn(tree), f, co, cn)
            BY <1>1, <2>2, <2>10, NamesMove
        <3>2. tree' = TreeMoved(tree, co, cn)
            BY <2>13 DEF TreeMoved
        <3>3. PICK m \in CallModes : m = l.mode
            BY <2>5
        <3>4. cn = Promise!Destination(f, co, m)
            BY <2>9, <3>3
        <3>5. NamesIn(tree') = NamesMoved(NamesIn(tree), f, co, cn)
            BY <3>1, <3>2
        <3> QED BY <1>3, <2>11, <3>1, <3>4, <3>5, Recycles
    <2> QED BY <2>1, <2>12, <2>13
<1>8. CASE Deletes(p, tree, tree')
    <2>1. PICK c \in Paths : /\ pc[p] = "real" /\ c = l.path
                             /\ tree[c].kind # "none"
                             /\ tree' = [tree EXCEPT ![c] = None]
        BY <1>8, Zenon DEF Deletes
    <2>2. CASE tree[c].kind = "dir"
        <3>1. NamesIn(tree') = NamesIn(tree)
            BY <1>1, <2>1, <2>2, NamesStay
        <3> QED BY <3>1, DirChanges
    <2>3. CASE tree[c].kind # "dir"
        <3>1. PICK f \in Files : tree[c] = Reg(f)
            BY <1>1, <2>1, <2>3, FileIs
        <3>2. /\ c \in NamesIn(tree)[f]
              /\ NamesIn(tree') =
                    [NamesIn(tree) EXCEPT ![f] = NamesIn(tree)[f] \ {c}]
            <4>1. None.kind # "reg"
                BY <1>1
            <4>2. PICK u : u = [tree EXCEPT ![c] = None]
                OBVIOUS
            <4>3. /\ c \in NamesIn(tree)[f]
                  /\ NamesIn(u) =
                        [NamesIn(tree) EXCEPT ![f] = NamesIn(tree)[f] \ {c}]
                BY <1>1, <3>1, <4>1, <4>2, NamesGo
            <4>4. tree' = u
                BY <2>1, <4>2
            <4> QED BY <4>3, <4>4
        <3>3. l.mode \in CallModes
            BY <1>1, <2>1 DEF ChosenOk, InCall
        <3>4. Promise!Destination(f, c, l.mode) = <<>>
            <4>1. PICK k : k = [path |-> c, mode |-> l.mode, st |-> Reg(f)]
                OBVIOUS
            <4>2. k.path = c /\ k.mode = l.mode /\ k.st = Reg(f)
                BY <4>1
            <4>3. CASE recycler = <<>>
                <5>1. \A i \in DOMAIN recycler : ~Wants(tree, i, k)
                    BY <4>3
                <5>2. Promise!Destination(f, k.path, k.mode) = <<>>
                    BY <1>1, <4>2, <5>1, NotDestined
                <5> QED BY <4>2, <5>2
            <4>4. CASE recycler # <<>>
                <5>1. l.st = Reg(f) /\ l.st.kind = "reg"
                    BY <1>1, <2>1, <3>1, <4>4, RegIs DEF ChosenOk, InCall
                <5>2. \/ \A i \in DOMAIN recycler : ~Wants(tree, i, l)
                      \/ /\ Passed(tree, l) /\ Wants(tree, l.bin, l)
                         /\ UnderDir(Bin(l).dir, l.path)
                    BY <1>1, <2>1, <4>4, <5>1 DEF ChosenOk
                <5> QED BY <1>1, <2>1, <5>1, <5>2, Destined, NotDestined
            <4> QED BY <4>3, <4>4
        <3> QED BY <1>3, <3>1, <3>2, <3>3, <3>4, DeletesForGood
    <2> QED BY <2>2, <2>3
<1> QED BY <1>1, <1>4, <1>5, <1>6, <1>7, <1>8, StepFlat

\* So does the user.
LEMMA UserPromise ==
    ASSUME BinsKept, BinsClear, NoLinks, TypeOK, BornInv, Unlinked(tree),
           Unlinked(tree'), User
    PROVE  Promise!Next
<1>1. /\ tree \in Tree /\ recycler' = recycler /\ recycler \in Recyclers
      /\ None.kind = "none" /\ \A w : Dir(w).kind = "dir"
    BY UserApart DEF TypeOK, None, Dir
<1>2. ASSUME NEW c, NEW n, tree' = [tree EXCEPT ![c] = n],
             \A i \in DOMAIN recycler : ~IsPrefix(c, recycler[i].dir)
      PROVE  StandingIn(tree') = StandingIn(tree)
    <2>1. \A q \in Paths : tree'[q] = tree[q] \/ q = c
        BY <1>1, <1>2 DEF Tree
    <2>2. \A i \in DOMAIN recycler : \A q \in Paths :
                \/ tree'[q] = tree[q] \/ ~IsPrefix(q, recycler[i].dir)
                \/ q = recycler[i].dir /\ tree[q] # None /\ tree'[q] # None
        BY <1>2, <2>1
    <2> QED BY <2>2, StandingStays
<1>3. CASE Create
    <2>1. PICK f, c : /\ f \in Files \ born /\ c \in UserPaths
                      /\ tree' = [tree EXCEPT ![c] = Reg(f)]
                      /\ born' = born \cup {f} /\ "create" \in UserOps
        BY <1>3 DEF Create, UserPut, UserMay
    <2>2. c \in Paths
        BY <2>1, RecyclixAssumption
    <2>3. StandingIn(tree') = StandingIn(tree)
        BY <1>1, <1>2, <2>1 DEF BinsClear
    <2>4. NamesIn(tree') = [g \in Files |->
                IF g = f THEN NamesIn(tree)[g] \cup {c}
                ELSE NamesIn(tree)[g] \ {c}]
        BY <1>1, <2>1, <2>2, NamesCome
    <2> QED BY <1>1, <2>1, <2>2, <2>3, <2>4, Binds
<1>4. CASE HardLink
    <2>1. PICK c, old : /\ c \in LinkPaths /\ old \in Paths
                        /\ tree[old].kind = "reg" /\ born' = born
                        /\ tree' = [tree EXCEPT ![c] = tree[old]]
                        /\ "link" \in UserOps
        BY <1>4 DEF HardLink, UserPut, UserMay
    <2>2. c \in Paths
        BY <2>1, RecyclixAssumption
    <2>3. PICK f \in Files : tree[old] = Reg(f)
        BY <1>1, <2>1, FileIs
    <2>4. f \in born /\ born' = born \cup {f} /\ NamesIn(tree)[f] # {}
        BY <2>1, <2>3 DEF BornInv, NamesIn
    <2>5. StandingIn(tree') = StandingIn(tree)
        BY <1>1, <1>2, <2>1 DEF BinsClear
    <2>6. NamesIn(tree') = [g \in Files |->
                IF g = f THEN NamesIn(tree)[g] \cup {c}
                ELSE NamesIn(tree)[g] \ {c}]
        <3>1. tree' = [tree EXCEPT ![c] = Reg(f)]
            BY <2>1, <2>3
        <3> QED BY <1>1, <2>2, <3>1, NamesCome
    <2> QED BY <1>1, <2>2, <2>4, <2>5, <2>6, Binds
<1>5. CASE MakeDir \/ Chmod
    <2>1. PICK c, w : /\ tree' = [tree EXCEPT ![c] = Dir(w)] /\ born' = born
                      /\ Free(c) \/ tree[c].kind = "dir"
        BY <1>5 DEF MakeDir, Chmod, UserPut
    <2>2. c \in Paths => tree[c].kind # "reg"
        BY <2>1 DEF Free, At
    <2>3. NamesIn(tree') = NamesIn(tree)
        BY <1>1, <2>1, <2>2, NamesStay
    <2> QED BY <1>1, <2>1, <2>3, DirChanges
<1>6. CASE Empty
    <2>1. PICK c \in Paths : /\ InBin(c) /\ tree[c].kind # "none"
                             /\ tree' = [tree EXCEPT ![c] = None]
                             /\ born' = born
        BY <1>6 DEF Empty, UserPut
    <2>2. CASE tree[c].kind = "dir"
        <3>1. NamesIn(tree') = NamesIn(tree)
            BY <1>1, <2>1, <2>2, NamesStay
        <3> QED BY <1>1, <2>1, <3>1, DirChanges
    <2>3. CASE tree[c].kind # "dir"
        <3>1. PICK f \in Files : tree[c] = Reg(f)
            BY <1>1, <2>1, <2>3, FileIs
        <3>2. /\ c \in NamesIn(tree)[f]
              /\ NamesIn(tree') =
                    [NamesIn(tree) EXCEPT ![f] = NamesIn(tree)[f] \ {c}]
            BY <1>1, <2>1, <3>1, NamesGo
        <3>3. \A i \in DOMAIN recycler : ~IsPrefix(c, recycler[i].dir)
            BY <2>1, InBinIsOffWay, FileTreeAssumption DEF InBin
        <3>4. StandingIn(tree') = StandingIn(tree)
            BY <1>2, <2>1, <3>3
        <3> QED BY <1>1, <2>1, <3>1, <3>2, <3>4, Empties
    <2> QED BY <2>2, <2>3
<1>7. ~Symlink
    BY DEF Symlink, UserMay, NoLinks
<1> QED BY <1>3, <1>4, <1>5, <1>6, <1>7 DEF User

\* What the refinement rests on.
KeepInv == /\ TypeOK /\ WalkInv /\ WayInv /\ DeepInv
           /\ BinsInv /\ BornInv /\ ChosenInv

\* It holds at first, where what the user sees is what RecycleBin begins with.
LEMMA InitKeeps ==
    ASSUME BinsClear, Init
    PROVE  KeepInv /\ Promise!Init
<1>1. /\ recycler \in Recyclers /\ tree = InitTree /\ tree \in Tree
      /\ \A p \in Procs : pc[p] = "idle"
      /\ born = {f \in Files : \E q \in Paths : tree[q] = Reg(f)}
    BY InitType DEF Init, TypeOK
<1>2. WayInv /\ DeepInv
    BY DEF Init, WayInv, WayOk, DeepInv, DeepOk, InCall, Cloning
<1>3. BinsInv
    BY <1>1 DEF BinsInv, BinsClear
<1>4. BornInv
    BY <1>1 DEF BornInv
<1>5. ChosenInv
    <2> SUFFICES ASSUME NEW p \in Procs
                 PROVE  ChosenOk(tree, call[p], "idle")
        BY <1>1 DEF ChosenInv
    <2> QED BY DEF ChosenOk, InCall, Going, Cloning
<1>6. Promise!Init
    <2>1. NamesIn(tree) \in [Files -> SUBSET Paths]
        BY DEF NamesIn
    <2>2. StandingIn(tree) \subseteq DOMAIN recycler
        BY DEF StandingIn
    <2>3. born = {f \in Files : NamesIn(tree)[f] # {}}
        BY <1>1 DEF NamesIn
    <2> QED BY <1>1, <2>1, <2>2, <2>3, Zenon
            DEF Promise!Init, NamesIn, StandingIn
<1> QED BY <1>2, <1>3, <1>4, <1>5, <1>6, InitType, InitWalks DEF KeepInv

\* What every step begins and ends with.
LEMMA KeepsOnward ==
    ASSUME Alone, NoLinks, KeepInv, [Next]_vars
    PROVE  Onward
<1>1. /\ TypeOK /\ WalkInv /\ WayInv /\ DeepInv /\ BinsInv /\ ChosenInv
      /\ Unlinked(tree)
    BY DEF KeepInv, WalkInv
<1> QED BY <1>1, UnlinkedStays, RecyclerStays DEF Onward

\* It is kept.
LEMMA NextKeeps ==
    ASSUME Alone, OneMount, NoLinks, MountsKept, BinsKept, NumbersFit,
           BinsAbsolute, BinsNumbered, BinsClear, KeepInv, [Next]_vars
    PROVE  KeepInv'
<1>1. Onward
    BY KeepsOnward
<1>2. /\ TypeOK /\ WalkInv /\ WayInv /\ DeepInv /\ BinsInv /\ BornInv
      /\ Unlinked(tree)
    BY <1>1 DEF KeepInv, Onward
<1>3. TypeOK' /\ WalkInv' /\ WayInv' /\ DeepInv'
    BY <1>2, NextType, NextWalks, NextWay, NextDeep
<1>4. BinsInv' /\ BornInv' /\ ChosenInv'
    BY <1>1, <1>2, NextBins, NextBorn, NextChosen
<1> QED BY <1>3, <1>4 DEF KeepInv

\* A step of the system is one of RecycleBin.
LEMMA NextPromise ==
    ASSUME Alone, NoLinks, MountsKept, BinsKept, BinsClear, KeepInv, KeepInv',
           [Next]_vars
    PROVE  [Promise!Next]_(Promise!abstractVars)
<1>1. /\ Onward /\ TypeOK /\ BornInv /\ BinsInv' /\ Unlinked(tree)
      /\ Unlinked(tree') /\ recycler' = recycler
    BY KeepsOnward DEF KeepInv, Onward
<1>2. ASSUME NEW p \in Procs, Step(p)
      PROVE  Promise!Next
    <2>1. UNCHANGED <<recycler, born>>
        BY <1>2 DEF Step, Fstatat, BadOption, TakeBin, SkipBin, AtDirFails,
            RealpathFails, Resolve, WalkUp, DonorStat, Mkdir, RmParent, StatDst,
            ChmodDst, RmDst, Rename, RealUnlink
    <2> QED BY <1>1, <1>2, <2>1, StepPromise
<1>3. CASE User
    BY <1>1, <1>3, UserPromise
<1>4. CASE UNCHANGED <<recycler, tree, born>>
    BY <1>4, DirChanges
<1>5. ASSUME NEW p \in Procs, Call(p)
      PROVE  UNCHANGED <<recycler, tree, born>>
    BY <1>5 DEF Call
<1> QED BY <1>2, <1>3, <1>4, <1>5 DEF Next, vars

\* The library implements RecycleBin: whenever a name of a file is deleted it
\* moves to the file's place in the first bin that wants the file, or it is
\* deleted because none does or because it was in that bin already, and a file
\* in a bin is lost only to make room for another one.  One process and a user
\* who waits for it, and no symbolic links; nobody deletes a mount point or a
\* directory that a bin is in, or puts a file there; the bins are named by
\* absolute paths, their limits fit in an int, and no other directory above
\* what is deleted has the inode number of a bin.
THEOREM PromiseIsKept ==
    ASSUME Alone, OneMount, NoLinks, MountsKept, BinsKept, NumbersFit,
           BinsAbsolute, BinsNumbered, BinsClear
    PROVE  Spec => KeepsPromise
<1>1. Init => KeepInv /\ Promise!Init
    BY InitKeeps
<1>2. KeepInv /\ [Next]_vars => KeepInv'
    BY NextKeeps
<1>3. KeepInv /\ KeepInv' /\ [Next]_vars
            => [Promise!Next]_(Promise!abstractVars)
    BY NextPromise
<1> QED BY <1>1, <1>2, <1>3, PTL DEF Spec, KeepsPromise, Promise!Spec
=============================================================================
