----------------------------- MODULE RecycleBin -----------------------------
(***************************************************************************)
(* What recyclix.so promises its user, without system calls: every name of *)
(* a file that is deleted either moves to the file's place in the first    *)
(* bin that wants it, or is deleted because no bin wants it or because it  *)
(* was in the bin already (README.md, "recyclix.so").  A file in a bin is  *)
(* lost only to make room for another one.                                 *)
(***************************************************************************)
EXTENDS Recyclers

CONSTANTS Recyclers, \* the values of RECYCLER
          CallModes  \* how a caller may name a file

VARIABLES recycler,  \* the value of RECYCLER
          standing,  \* the entries of recycler whose directory exists
          names,     \* the names of each file
          born       \* the files that exist or have existed

abstractVars == <<recycler, standing, names, born>>

\* The entries that want the file f when it is deleted as q.
Wanting(f, q, mode) ==
    {i \in standing : /\ Dev[recycler[i].dir] = Dev[q]
                      /\ Admits(recycler[i], Size[f], <<q, mode>>)}

\* The place f goes to, <<>> if it is to be deleted for good.
Destination(f, q, mode) ==
    IF Wanting(f, q, mode) = {} THEN <<>>
    ELSE LET bin == recycler[Min(Wanting(f, q, mode))]
         IN  IF UnderDir(bin.dir, q) THEN <<>> ELSE BinPlace(bin, q)

InSomeBin(q) == \E i \in DOMAIN recycler : UnderDir(recycler[i].dir, q)

Init == /\ recycler \in Recyclers
        /\ standing \subseteq DOMAIN recycler
        /\ names \in [Files -> SUBSET Paths]
        /\ born = {f \in Files : names[f] # {}}

Recycle(f, q) ==
    \E m \in CallModes :
        LET d == Destination(f, q, m)
        IN  /\ d # <<>>
            /\ names' = [g \in Files |-> IF g = f
                                         THEN (names[g] \ {q}) \cup {d}
                                         ELSE names[g] \ {d}]
            /\ UNCHANGED <<recycler, standing, born>>

Delete(f, q) ==
    \E m \in CallModes :
        /\ Destination(f, q, m) = <<>>
        /\ names' = [names EXCEPT ![f] = @ \ {q}]
        /\ UNCHANGED <<recycler, standing, born>>

\* A file in a bin goes because something deleted elsewhere needs its place
\* or has it for a parent directory.
MakeRoom(f, q) ==
    /\ names' = [names EXCEPT ![f] = @ \ {q}]
    /\ InSomeBin(q)
    /\ \E p \in Paths, i \in standing :
            /\ Dev[recycler[i].dir] = Dev[p]
            /\ ~UnderDir(recycler[i].dir, p)
            /\ LET b == BinPlace(recycler[i], p)
               IN  IsPrefix(q, b)
    /\ UNCHANGED <<recycler, standing, born>>

\* The user creates a file, or gives another name to one that exists.
Bind(f, q) ==
    /\ f \notin born \/ names[f] # {}
    /\ born' = born \cup {f}
    /\ names' = [g \in Files |-> IF g = f THEN names[g] \cup {q}
                                 ELSE names[g] \ {q}]
    /\ UNCHANGED <<recycler, standing>>

\* The user empties the bin, or part of it.
Empty(f, q) ==
    /\ names' = [names EXCEPT ![f] = @ \ {q}]
    /\ InSomeBin(q)
    /\ UNCHANGED <<recycler, standing, born>>

\* A directory named in RECYCLER appears or goes.
BinDirChanges ==
    /\ standing' \in SUBSET DOMAIN recycler
    /\ UNCHANGED <<recycler, names, born>>

Next == \/ BinDirChanges
        \/ \E f \in Files :
                \/ \E q \in names[f] : \/ Recycle(f, q)
                                       \/ Delete(f, q)
                                       \/ MakeRoom(f, q)
                                       \/ Empty(f, q)
                \/ \E q \in Paths : Bind(f, q)

Spec == Init /\ [][Next]_abstractVars
=============================================================================
