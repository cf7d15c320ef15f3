----------------------------- MODULE MCRecyclix -----------------------------
(* One user's file system /h with the bin /h/R, called by one process. *)
EXTENDS Recyclix

MCNames == {"h", "R", "d", "f", "x"}
H == <<"h">>
R == <<"h", "R">>
MCPaths == {<<>>, H, R, R \o <<"d">>, R \o <<"d", "f">>, R \o <<"f">>,
            H \o <<"d">>, H \o <<"d", "f">>, H \o <<"f">>,
            H \o <<"x">>, H \o <<"x", "f">>}
MCFiles == {"a", "b", "c"}
MCSize == [f \in MCFiles |-> 4]
MCDev == [q \in MCPaths |-> IF q = <<>> THEN 0 ELSE 1]
MCIno == [q \in MCPaths |-> CASE q = <<>> -> 2 [] q = H -> 3
                              [] q = R -> 4 [] OTHER -> 5]
\* The directory /h/x with a file nobody deletes.
MCTree == [q \in MCPaths |->
            CASE q \in {<<>>, H, R, H \o <<"x">>} -> Dir(TRUE)
              [] q = H \o <<"x", "f">> -> Reg("c")
              [] OTHER -> None]
MCLinkTargets == {H \o <<"x">>}
MCUser == {H \o <<"d">>, H \o <<"d", "f">>, H \o <<"f">>}
MCCalls == MCUser \cup {R \o <<"d">>, R \o <<"d", "f">>, R \o <<"f">>}
MCRecyclers == {<<[set |-> TRUE, dir |-> R, abs |-> TRUE, opts |-> <<>>]>>}
=============================================================================
