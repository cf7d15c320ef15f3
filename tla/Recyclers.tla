----------------------------- MODULE Recyclers -----------------------------
(***************************************************************************)
(* The RECYCLER environment variable: the bins it names, their options as  *)
(* src/src/recyclix.c reads them, and what those options are documented    *)
(* to mean (README.md, "recyclix.so").                                     *)
(*                                                                         *)
(* A recycler is a sequence of entries                                     *)
(*   [set, dir, abs, opts]                                                 *)
(* set is FALSE for an empty entry and for "~/..." without HOME; abs is    *)
(* FALSE for a directory relative to the caller's working directory, dir   *)
(* is then where it resolves to.  An option is a size limit, an exclude    *)
(* pattern, represented by the arguments it matches, or unrecognized.      *)
(***************************************************************************)
EXTENDS FileTree, Integers, SequencesExt

CONSTANTS Size,      \* st_size of each file
          IntWidth,  \* width in bits of the int that atoi returns
          Kilo       \* 1024

ASSUME RecyclersAssumption ==
    /\ Size \in [Files -> Nat]
    /\ IntWidth \in Nat \ {0}
    /\ Kilo \in Nat \ {0}

Modes == {"abs", "cwd", "fd"}        \* how the argument names a file

Literal == [num : Nat, unit : {"", "B", "k", "M", "G"}]
Option == [type : {"size"}, min : Literal, max : Literal]
            \cup [type : {"exclude"}, matches : SUBSET (Seq(Names) \X Modes)]
            \cup [type : {"bad"}]
BinEntry == [set : BOOLEAN, dir : Paths, abs : BOOLEAN, opts : Seq(Option)]

-----------------------------------------------------------------------------
(* How the code reads the options of a bin *)

\* The number as an int: what does not fit comes back wrapped.
Atoi(n) ==
    LET m == n % 2^IntWidth
    IN  IF m >= 2^(IntWidth - 1) THEN m - 2^IntWidth ELSE m

Multiplier(unit) ==
    CASE unit = "k" -> Kilo
      [] unit = "M" -> Kilo * Kilo
      [] unit = "G" -> Kilo * Kilo * Kilo
      [] OTHER      -> 1

ToSize(s) == Atoi(s.num) * Multiplier(s.unit)

Defaults == [min |-> 1, max |-> 0, excluded |-> FALSE, bad |-> FALSE]

\* Slip: once excluded, always excluded.
ReadOptionSticky(o, opt, arg) ==
    CASE o.bad -> o
      [] ~o.bad /\ opt.type = "size" ->
            LET min == ToSize(opt.min)
                max == ToSize(opt.max)
            IN  [o EXCEPT !.min = min, !.max = max,
                          !.bad = (max # 0 /\ min > max)]
      [] ~o.bad /\ opt.type = "exclude" ->
            [o EXCEPT !.excluded = @ \/ arg \in opt.matches]
      [] OTHER -> [o EXCEPT !.bad = TRUE]

\* One turn of the option loop; the first bad option ends it.
ReadOption(o, opt, arg) ==
    CASE o.bad -> o
      [] ~o.bad /\ opt.type = "size" ->
            LET min == ToSize(opt.min)
                max == ToSize(opt.max)       \* an absent maximum reads as 0
            IN  [o EXCEPT !.min = min, !.max = max,
                          !.bad = (max # 0 /\ min > max)]
      [] ~o.bad /\ opt.type = "exclude" ->
            [o EXCEPT !.excluded = (arg \in opt.matches)]
      [] OTHER -> [o EXCEPT !.bad = TRUE]

Options(bin, arg) ==
    FoldLeft(LAMBDA o, opt : ReadOption(o, opt, arg), Defaults, bin.opts)

OutOfLimits(o, size) == size < o.min \/ (o.max # 0 /\ size > o.max)

-----------------------------------------------------------------------------
(* What the options promise, independently of how they are read *)

Written(s) == s.num * Multiplier(s.unit)

LastOf(opts, type) ==
    LET at == {i \in DOMAIN opts : opts[i].type = type}
    IN  IF at = {} THEN 0 ELSE Max(at)

\* The bin wants a file of this size named by arg.
Admits(bin, size, arg) ==
    LET s == LastOf(bin.opts, "size")
        x == LastOf(bin.opts, "exclude")
    IN  /\ IF s = 0 THEN size >= 1
           ELSE LET max == Written(bin.opts[s].max)
                IN  /\ size >= Written(bin.opts[s].min)
                    /\ max = 0 \/ size <= max
        /\ x = 0 \/ arg \notin bin.opts[x].matches

MountLen(q) == Max({i \in 0..Len(q) : IsMount(Prefix(q, i))})

\* Where a bin keeps what was named q: the path below the mount point of q.
BinPlace(bin, q) == bin.dir \o SubSeq(q, MountLen(q) + 1, Len(q))

UnderDir(dir, q) == IsStrictPrefix(dir, q)
=============================================================================
