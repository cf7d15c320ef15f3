---------------------------- MODULE ProcessCalls ----------------------------
(***************************************************************************)
(* The libraries that have to do with starting programs: xopenhook.so runs *)
(* a command around two calls of Xlib and keeps it from running itself     *)
(* again by means of the environment; ld_env_restore.so takes itself out   *)
(* of the environment when a program starts; dontcallshell.so replaces the *)
(* shell that a program executes.  Processes inherit their environment,    *)
(* the threads of a process share it, and every getenv, setenv, unsetenv   *)
(* and system of the hook is an action.                                    *)
(***************************************************************************)
EXTENDS Integers

CONSTANTS MaxProcs, \* processes that there may be
          Lanes,    \* threads of the first program
          MainLane, \* thread of a command
          MaxOpens, \* hooked calls of a process
          Worlds    \* environments of the first program

Pids == 1..MaxProcs
Root == 1
Nobody == 0
Phases == {"post-XOpenDisplay", "pre-XvListImageFormats",
           "post-XvListImageFormats"}
Hooking == {"unsetenable", "setphase", "system", "wait", "unsetphase",
            "setenable"}
Libs == {"xopenhook", "restore", "dontcallshell"}
NotSet == {"not set"}
Listed == {"/bin/sh", "sh"}

\* enable: XOPENHOOK_ENABLE; command: XOPENHOOK_COMMAND, the program that it
\* executes; preload, old: LD_PRELOAD and LD_PRELOAD_OLD; lanes: threads;
\* execs: what a command executes in its turn, and whether with "-c".
World == [lanes : SUBSET Lanes, enable : {"unset", "0", "1"},
          command : {"unset", "prog", "/bin/sh"},
          execs : SUBSET ((Listed \cup {"/usr/bin/sh"}) \X BOOLEAN),
          preload : SUBSET Libs, old : (SUBSET Libs) \cup {NotSet}]

ASSUME ProcessCallsAssumption ==
    /\ MaxProcs \in Nat \ {0} /\ MaxOpens \in Nat
    /\ MainLane \in Lanes /\ Worlds \subseteq World

VARIABLES world, \* the environment of the first program, at its start
          penv,  \* the environment of each process
          born,  \* what it was when the process began
          libs,  \* the libraries loaded in each process
          image, \* the program of each process, and what has started it
          lane,  \* what each thread does
          opens  \* hooked calls of each process so far

processVars == <<world, penv, born, libs, image, lane, opens>>

Calm == [next |-> "idle", phase |-> "unset", saved |-> "unset",
         alone |-> TRUE, kid |-> Nobody]
NoImage == [prog |-> "none", c |-> FALSE, state |-> "none", by |-> "none",
            parent |-> Nobody, phase |-> "unset", alone |-> TRUE]
EnvOf(w) == [enable |-> w.enable, phase |-> "unset", preload |-> w.preload,
             old |-> w.old]

ProcessesInit ==
    /\ world \in Worlds
    /\ penv = [p \in Pids |-> EnvOf(world)]
    /\ born = penv
    /\ libs = [p \in Pids |-> IF p = Root THEN world.preload ELSE {}]
    /\ image = [p \in Pids |-> IF p = Root
                    THEN [NoImage EXCEPT !.prog = "prog", !.state = "starting"]
                    ELSE NoImage]
    /\ lane = [p \in Pids |-> [l \in Lanes |-> Calm]]
    /\ opens = [p \in Pids |-> 0]

-----------------------------------------------------------------------------
(* ld_env_restore *)

\* Slip: the old value is left where it was.
RestoredTwice(e) ==
    [e EXCEPT !.preload = IF e.old = NotSet THEN {} ELSE e.old]

\* The old value comes back; without one there is none.
Restored(e) ==
    IF e.old = NotSet THEN [e EXCEPT !.preload = {}]
    ELSE [e EXCEPT !.preload = e.old, !.old = NotSet]

\* A program starts.  What is loaded in it stays loaded.
Start(p) ==
    /\ image[p].state = "starting"
    /\ image' = [image EXCEPT ![p].state = "running"]
    /\ penv' = IF "restore" \in libs[p]
               THEN [penv EXCEPT ![p] = Restored(@)] ELSE penv
    /\ UNCHANGED <<world, born, libs, lane, opens>>

-----------------------------------------------------------------------------
(* dontcallshell *)

IsProg(p) == image[p].state = "running" /\ image[p].prog = "prog"

\* Slip: a name without a directory is not looked at.
ReplacedPath(prog, c) ==
    IF c /\ prog = "/bin/sh" THEN "notashell" ELSE prog

\* A shell that is to run a command, known by one of these names (or by bash's)
\* and by no other.  Replacing again what execl has passed to execve changes
\* nothing.
Replaced(prog, c) == IF c /\ prog \in Listed THEN "notashell" ELSE prog

\* One of the exec functions.  The program is loaded with what the environment
\* asks for by now.
Executes(p, prog, c) ==
    /\ image' = [image EXCEPT ![p] =
          [@ EXCEPT !.prog = IF "dontcallshell" \in libs[p]
                             THEN Replaced(prog, c) ELSE prog,
                    !.c = c, !.state = "starting", !.by = "exec"]]
    /\ libs' = [libs EXCEPT ![p] = penv[p].preload]
    /\ UNCHANGED <<world, penv, born, lane, opens>>

\* The shell of system runs its command.
ShellRuns(p) ==
    /\ image[p].state = "running" /\ image[p].by = "system"
    /\ Executes(p, world.command, world.command # "prog")

\* A command executes a shell in its turn.  With too many arguments, execl
\* fails and there is no step.
Exec(p) ==
    /\ p # Root /\ IsProg(p) /\ lane[p][MainLane].next = "idle"
    /\ \E e \in world.execs : Executes(p, e[1], e[2])

-----------------------------------------------------------------------------
(* xopenhook *)

Step(p, l, next) == lane' = [lane EXCEPT ![p][l].next = next]
LanesOf(p) == IF p = Root THEN world.lanes ELSE {MainLane}

Calls(p, l, phase) ==
    /\ IsProg(p) /\ "xopenhook" \in libs[p] /\ l \in LanesOf(p)
    /\ lane[p][l].next = "idle" /\ opens[p] < MaxOpens
    /\ opens' = [opens EXCEPT ![p] = @ + 1]
    /\ lane' = [lane EXCEPT ![p][l] =
          [@ EXCEPT !.next = "getenable", !.phase = phase]]
    /\ UNCHANGED <<world, penv, born, libs, image>>

\* After a display was opened.
XOpenDisplay(p, l) == Calls(p, l, "post-XOpenDisplay")
XvListImageFormats(p, l) == Calls(p, l, "pre-XvListImageFormats")

\* The real call is between two hooks.
XvRealCall(p, l) ==
    /\ lane[p][l].next = "out" /\ lane[p][l].phase = "pre-XvListImageFormats"
    /\ lane' = [lane EXCEPT ![p][l] =
          [@ EXCEPT !.next = "getenable", !.phase = "post-XvListImageFormats"]]
    /\ UNCHANGED <<world, penv, born, libs, image, opens>>

CallReturns(p, l) ==
    /\ lane[p][l].next = "out" /\ lane[p][l].phase # "pre-XvListImageFormats"
    /\ lane' = [lane EXCEPT ![p][l] = Calm]
    /\ UNCHANGED <<world, penv, born, libs, image, opens>>

\* A thread that enters the hook and those that it finds there are not alone.
Inside(p) == {k \in Lanes : lane[p][k].next \in Hooking}
Entered(p, l) ==
    [k \in Lanes |->
        IF k = l THEN [lane[p][k] EXCEPT !.next = "unsetenable", !.saved = "1",
                                         !.alone = (Inside(p) = {})]
        ELSE IF k \in Inside(p) THEN [lane[p][k] EXCEPT !.alone = FALSE]
        ELSE lane[p][k]]

GetEnable(p, l) ==
    /\ lane[p][l].next = "getenable"
    /\ IF penv[p].enable = "1" THEN lane' = [lane EXCEPT ![p] = Entered(p, l)]
       ELSE Step(p, l, "out")
    /\ UNCHANGED <<world, penv, born, libs, image, opens>>

\* Slip: the hook does not take itself out of the environment.
UnsetEnableNot(p, l) ==
    /\ lane[p][l].next = "unsetenable" /\ Step(p, l, "setphase")
    /\ UNCHANGED <<world, penv, born, libs, image, opens>>

UnsetEnable(p, l) ==
    /\ lane[p][l].next = "unsetenable" /\ Step(p, l, "setphase")
    /\ penv' = [penv EXCEPT ![p].enable = "unset"]
    /\ UNCHANGED <<world, born, libs, image, opens>>

SetPhase(p, l) ==
    /\ lane[p][l].next = "setphase" /\ Step(p, l, "system")
    /\ penv' = [penv EXCEPT ![p].phase = lane[p][l].phase]
    /\ UNCHANGED <<world, born, libs, image, opens>>

\* The shell gets a copy of the environment.  It is started inside libc, where
\* dontcallshell.so is not asked.
System(p, l) ==
    /\ lane[p][l].next = "system" /\ world.command # "unset"
    /\ \E q \in Pids :
          /\ image[q].state = "none"
          /\ \A r \in 1..(q - 1) : image[r].state # "none"
          /\ image' = [image EXCEPT ![q] =
                [prog |-> "sh", c |-> TRUE, state |-> "starting",
                 by |-> "system", parent |-> p, phase |-> lane[p][l].phase,
                 alone |-> lane[p][l].alone]]
          /\ penv' = [penv EXCEPT ![q] = penv[p]]
          /\ born' = [born EXCEPT ![q] = penv[p]]
          /\ libs' = [libs EXCEPT ![q] = penv[p].preload]
          /\ lane' = [lane EXCEPT ![p][l] =
                [@ EXCEPT !.next = "wait", !.kid = q]]
    /\ UNCHANGED <<world, opens>>

\* There is no command, or no process for it.
SystemFails(p, l) ==
    /\ lane[p][l].next = "system"
    /\ world.command = "unset" \/ \A q \in Pids : image[q].state # "none"
    /\ Step(p, l, "unsetphase")
    /\ UNCHANGED <<world, penv, born, libs, image, opens>>

SystemReturns(p, l) ==
    /\ lane[p][l].next = "wait" /\ image[lane[p][l].kid].state = "ended"
    /\ Step(p, l, "unsetphase")
    /\ UNCHANGED <<world, penv, born, libs, image, opens>>

UnsetPhase(p, l) ==
    /\ lane[p][l].next = "unsetphase" /\ Step(p, l, "setenable")
    /\ penv' = [penv EXCEPT ![p].phase = "unset"]
    /\ UNCHANGED <<world, born, libs, image, opens>>

\* Slip: it is not put back.
SetEnableNot(p, l) ==
    /\ lane[p][l].next = "setenable" /\ Step(p, l, "out")
    /\ UNCHANGED <<world, penv, born, libs, image, opens>>

SetEnable(p, l) ==
    /\ lane[p][l].next = "setenable" /\ Step(p, l, "out")
    /\ penv' = [penv EXCEPT ![p].enable = lane[p][l].saved]
    /\ UNCHANGED <<world, born, libs, image, opens>>

-----------------------------------------------------------------------------

\* A command ends.
Ends(p) ==
    /\ p # Root /\ image[p].state = "running"
    /\ \A l \in Lanes : lane[p][l].next = "idle"
    /\ image' = [image EXCEPT ![p].state = "ended"]
    /\ UNCHANGED <<world, penv, born, libs, lane, opens>>

Hook(p, l) ==
    \/ XvRealCall(p, l) \/ CallReturns(p, l) \/ GetEnable(p, l)
    \/ UnsetEnable(p, l) \/ SetPhase(p, l)
    \/ System(p, l) \/ SystemFails(p, l) \/ SystemReturns(p, l)
    \/ UnsetPhase(p, l) \/ SetEnable(p, l)

ProcessesNext ==
    \/ \E p \in Pids, l \in Lanes :
          XOpenDisplay(p, l) \/ XvListImageFormats(p, l) \/ Hook(p, l)
    \/ \E p \in Pids : Start(p) \/ ShellRuns(p) \/ Exec(p) \/ Ends(p)

-----------------------------------------------------------------------------
(* Properties *)

ProcessesTypeOK ==
    /\ world \in Worlds
    /\ \A p \in Pids :
          /\ penv[p].enable \in {"unset", "0", "1"}
          /\ penv[p].phase \in Phases \cup {"unset"}
          /\ penv[p].preload \subseteq Libs
          /\ libs[p] \subseteq Libs
          /\ image[p].prog \in
                Listed \cup {"none", "prog", "/usr/bin/sh", "notashell"}
          /\ opens[p] \in 0..MaxOpens
          /\ \A l \in Lanes :
                /\ lane[p][l].next \in Hooking \cup {"idle", "getenable", "out"}
                /\ lane[p][l].next = "wait" => image[lane[p][l].kid].parent = p

\* A command is told the phase of the call it is run for and does not run the
\* command in its turn, unless another thread was in the hook at the time.
CommandIsTold ==
    \A q \in Pids \ {Root} :
        /\ image[q].state # "none" /\ image[q].alone =>
              /\ penv[q].enable = "unset" /\ penv[q].phase = image[q].phase
              /\ \A r \in Pids : image[r].parent # q

\* When no thread is in the hook, XOPENHOOK_ENABLE is what it was when the
\* process began, and nothing is left of XOPENHOOK_PHASE but what it began
\* with.
EnvironmentIsBack ==
    \A p \in Pids :
        (\A l \in Lanes : lane[p][l].next \notin Hooking) =>
            /\ penv[p].enable = born[p].enable
            /\ penv[p].phase \in {"unset", born[p].phase}

\* The libraries that were there before ld_env_restore.so.
LeftOver == IF world.old = NotSet THEN {} ELSE world.old

\* A shell that the first program has run and that has executed nothing yet.
FirstShell(p) == image[p].by = "system" /\ image[p].parent = Root

\* Every process that the program has brought about, however many shells and
\* commands are in between, is loaded with the libraries that were there before
\* ld_env_restore.so; but if that is among them itself, it restores once more,
\* finds no old value, and the first shell is the last to be loaded with any.
\* Without ld_env_restore.so all are loaded with the libraries of the program,
\* and then none executes a shell under dontcallshell.so.
LibrariesInherited ==
    \A p \in Pids \ {Root} : image[p].state # "none" =>
        IF "restore" \in world.preload
        THEN libs[p] = IF "restore" \in LeftOver /\ ~ FirstShell(p) THEN {}
                       ELSE LeftOver
        ELSE /\ libs[p] = world.preload
             /\ ("dontcallshell" \in world.preload /\ image[p].by = "exec") =>
                    ~ (image[p].prog \in Listed /\ image[p].c)
=============================================================================
