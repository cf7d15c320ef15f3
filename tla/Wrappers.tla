------------------------------ MODULE Wrappers ------------------------------
(***************************************************************************)
(* A program and its small wrappers: those of sockets, of paths and of     *)
(* processes.  They share no state but the process they are loaded in, so  *)
(* that a program that uses one of the three families of calls at a time   *)
(* shows all that they can do.                                             *)
(***************************************************************************)
EXTENDS SocketCalls, FileCalls, ProcessCalls

CONSTANTS NoNet, NoProg, NoWorld \* environments of a program that makes no call

Init ==
    /\ SocketsInit /\ FilesInit /\ ProcessesInit
    /\ \/ prog = NoProg /\ world = NoWorld
       \/ net = NoNet /\ world = NoWorld
       \/ net = NoNet /\ prog = NoProg

Next ==
    \/ SocketsNext /\ UNCHANGED fileVars /\ UNCHANGED processVars
    \/ FilesNext /\ UNCHANGED socketVars /\ UNCHANGED processVars
    \/ ProcessesNext /\ UNCHANGED socketVars /\ UNCHANGED fileVars

vars == <<socketVars, fileVars, processVars>>

Spec == Init /\ [][Next]_vars

\* Each of the three has its types.
TypeOK == SocketsTypeOK /\ FilesTypeOK /\ ProcessesTypeOK
=============================================================================
