--------------------------- MODULE MCRecyclixConc ---------------------------
(***************************************************************************)
(* Two processes delete the files of the directories /h/d and /h/d/e at    *)
(* the same time, one of them possibly from under the bin /h/R.  A file d  *)
(* recycled earlier is in the way of both clones, and the user may put     *)
(* another one there while they go on.                                     *)
(***************************************************************************)
EXTENDS Recyclix

H == <<"h">>
R == <<"h", "R">>
D == <<"d">>
DG == <<"d", "g">>
DE == <<"d", "e">>
DeepF == <<"d", "e", "f">>
MCNames == {"h", "R", "d", "e", "f", "g"}
MCPaths == {<<>>, H, R, R \o D, R \o DG, R \o DE, R \o DeepF,
            H \o D, H \o DG, H \o DE, H \o DeepF}
MCFiles == {"a", "b", "c", "x"}
MCSize == [f \in MCFiles |-> 1]
MCDev == [q \in MCPaths |-> IF q = <<>> THEN 0 ELSE 1]
MCIno == [q \in MCPaths |-> CASE q = <<>> -> 2 [] q = H -> 3
                              [] q = R -> 4 [] OTHER -> 5]
MCTree == [q \in MCPaths |->
            CASE q \in {<<>>, H, R, H \o D, H \o DE} -> Dir(TRUE)
              [] q = H \o DeepF -> Reg("a")
              [] q = H \o DG -> Reg("b")
              [] q = R \o D -> Reg("c")
              [] OTHER -> None]
MCUser == {R \o D}
MCCalls == {H \o DeepF, H \o DG, R \o D}
MCRecyclers == {<<[set |-> TRUE, dir |-> R, abs |-> TRUE, opts |-> <<>>]>>}
=============================================================================
