--------------------------- MODULE MCRecyclixBins ---------------------------
(***************************************************************************)
(* The root file system with the bin /B, the file systems /h with the bins *)
(* /h/R and /h/Q and /m with the bin /m/R, and maybe a link /h/l, under    *)
(* many values of RECYCLER.  Kilo is scaled to 4, so that 1k is 4.         *)
(***************************************************************************)
EXTENDS Recyclix

F == <<"f">>
H == <<"h">>
M == <<"m">>
HL == <<"h", "l">>
RootBin == <<"B">>
HBin == <<"h", "R">>
HBin2 == <<"h", "Q">>
MBin == <<"m", "R">>

MCNames == {"h", "m", "f", "l", "B", "R", "Q"}
MCPaths == {<<>>, F, H, M, HL, RootBin, HBin, HBin2, MBin,
            H \o F, M \o F, RootBin \o F, HBin \o F, HBin2 \o F, MBin \o F,
            HBin \o <<"Q">>, HBin \o <<"Q", "f">>, HBin \o <<"l">>}
MCFiles == {"empty", "edge"}
MCSize == [f \in MCFiles |-> IF f = "empty" THEN 0 ELSE 4]
MCDev == [q \in MCPaths |-> IF q = <<>> \/ q[1] \in {"f", "B"} THEN 0
                            ELSE IF q[1] = "h" THEN 1 ELSE 2]
MCIno == [q \in MCPaths |-> CASE q \in {<<>>, H, M} -> 2
                              [] q \in {HBin, MBin} -> 7
                              [] q = HBin2 -> 8
                              [] q = RootBin -> 9
                              [] OTHER -> 10]
MCTree == [q \in MCPaths |->
            IF q \in {<<>>, H, M, RootBin, HBin, HBin2, MBin} THEN Dir(TRUE)
            ELSE None]
MCUser == {F, H \o F, M \o F}
MCLinkPaths == {HL}
MCLinkTargets == {M}
MCCalls == MCUser \cup {HL, HL \o F, HBin \o F, HBin2 \o F, MBin \o F, M}

Entry(dir, opts) == [set |-> TRUE, dir |-> dir, abs |-> TRUE, opts |-> opts]
Unset == [set |-> FALSE, dir |-> <<>>, abs |-> TRUE, opts |-> <<>>]
Relative(dir) == [set |-> TRUE, dir |-> dir, abs |-> FALSE, opts |-> <<>>]

N(num, unit) == [num |-> num, unit |-> unit]
Limit(min, max) == [type |-> "size", min |-> min, max |-> max]
Exclude(qs) == [type |-> "exclude", matches |-> qs \X {"abs", "cwd", "fd"}]
Bad == [type |-> "bad"]

FromKilo == Limit(N(1, "k"), N(0, ""))
UpToKilo == Limit(N(1, "B"), N(1, "k"))
UpTo3 == Limit(N(0, "B"), N(3, "B"))
AnySize == Limit(N(0, ""), N(0, ""))
Insane == Limit(N(1, "M"), N(2, "k"))
\* The pattern f$ matches every name that ends in f.
EndsInF == Exclude({q \in MCCalls : q[Len(q)] = "f"})
EndsInL == Exclude({HL})

MCRecyclers ==
    { <<>>,
      <<Unset>>,
      <<Entry(HBin, <<AnySize>>), Entry(HBin2, <<>>), Entry(RootBin, <<>>)>>,
      <<Entry(HBin, <<UpTo3, FromKilo>>), Entry(MBin, <<UpTo3>>)>>,
      <<Unset, Entry(MBin, <<UpToKilo, EndsInL>>), Entry(HBin, <<EndsInF>>),
        Entry(HBin2, <<>>)>>,
      <<Entry(MBin, <<EndsInF, EndsInL>>), Entry(HBin, <<EndsInL>>)>>,
      <<Entry(HBin2, <<UpTo3>>), Entry(HBin, <<AnySize, Bad>>)>>,
      <<Entry(MBin, <<Insane>>), Entry(HBin, <<>>)>>,
      <<Entry(<<"h", "R", "Q">>, <<>>), Entry(RootBin, <<>>),
        Relative(HBin), Relative(MBin)>> }
=============================================================================
