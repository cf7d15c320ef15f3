--------------------------- MODULE WrappersProofs ---------------------------
(***************************************************************************)
(* Proofs about the libraries of processes, for any number of processes    *)
(* and threads: the hook of xopenhook.so leaves the environment as it was, *)
(* a command that it runs is told its phase and does not hook again, and   *)
(* the libraries that commands inherit are those that ld_env_restore.so    *)
(* leaves.  About the libraries of paths, for any file system, mounts and  *)
(* threads, and whatever other processes do: xdev.so lets no call through  *)
(* to a network file system, and the log of saveunlinkedinode.so tells     *)
(* what was removed.  Last, the types of all the wrappers.                 *)
(***************************************************************************)
EXTENDS SocketCallsProofs, LeastProofs

-----------------------------------------------------------------------------
(* The libraries of processes *)

Programs == {"none", "prog", "/bin/sh", "sh", "/usr/bin/sh", "notashell",
             "unset"}
Told == Phases \cup {"unset"}
Preloads == (SUBSET Libs) \cup {NotSet}
EnvRecord == [enable : {"unset", "0", "1"}, phase : Told,
              preload : Preloads, old : Preloads]
Stations == Hooking \cup {"idle", "getenable", "out"}
LaneRecord == [next : Stations, phase : Told, saved : {"unset", "1"},
               alone : BOOLEAN, kid : Pids \cup {Nobody}]
ImageRecord == [prog : Programs, c : BOOLEAN,
                state : {"none", "starting", "running", "ended"},
                by : {"none", "exec", "system"}, parent : Pids \cup {Nobody},
                phase : Told, alone : BOOLEAN]

ProcessTypes ==
    /\ world \in World
    /\ penv \in [Pids -> EnvRecord]
    /\ born \in [Pids -> EnvRecord]
    /\ lane \in [Pids -> [Lanes -> LaneRecord]]
    /\ image \in [Pids -> ImageRecord]

-----------------------------------------------------------------------------
(* What a step does to one thread, one environment, one process *)

OthersStay(p, l) ==
    /\ \A q \in Pids : q # p => lane'[q] = lane[q]
    /\ \A k \in Lanes : k # l => lane'[p][k] = lane[p][k]

\* A thread moves, the others stay.
LEMMA LaneMoves ==
    ASSUME ProcessTypes, NEW p \in Pids, NEW l \in Lanes, NEW r \in LaneRecord,
           lane' = [lane EXCEPT ![p][l] = r]
    PROVE  /\ lane' \in [Pids -> [Lanes -> LaneRecord]]
           /\ lane'[p][l] = r
           /\ OthersStay(p, l)
<1>1. [lane[p] EXCEPT ![l] = r] \in [Lanes -> LaneRecord]
    BY DEF ProcessTypes
<1> QED BY <1>1 DEF ProcessTypes, OthersStay

\* A thread goes on with what it knows.
LEMMA StepMoves ==
    ASSUME ProcessTypes, NEW p \in Pids, NEW l \in Lanes, NEW x \in Stations,
           Step(p, l, x)
    PROVE  /\ lane' \in [Pids -> [Lanes -> LaneRecord]]
           /\ lane'[p][l] = [lane[p][l] EXCEPT !.next = x]
           /\ OthersStay(p, l)
<1>1. lane[p][l] \in LaneRecord
    BY DEF ProcessTypes
<1>2. [lane[p][l] EXCEPT !.next = x] \in LaneRecord
    BY <1>1, Zenon DEF LaneRecord
<1>3. lane' = [lane EXCEPT ![p][l] = [lane[p][l] EXCEPT !.next = x]]
    BY DEF Step
<1> QED BY <1>2, <1>3, LaneMoves

\* An environment changes, the others stay.
LEMMA EnvMoves ==
    ASSUME ProcessTypes, NEW p \in Pids, NEW e \in EnvRecord,
           penv' = [penv EXCEPT ![p] = e]
    PROVE  /\ penv' \in [Pids -> EnvRecord]
           /\ penv'[p] = e
           /\ \A q \in Pids : q # p => penv'[q] = penv[q]
BY DEF ProcessTypes

\* setenv and unsetenv of the two variables of the hook.
LEMMA SetMoves ==
    ASSUME ProcessTypes, NEW p \in Pids, NEW v \in {"unset", "0", "1"},
           NEW w \in Told
    PROVE  /\ [penv[p] EXCEPT !.enable = v] \in EnvRecord
           /\ [penv[p] EXCEPT !.phase = w] \in EnvRecord
<1>1. penv[p] \in EnvRecord
    BY DEF ProcessTypes
<1> QED BY <1>1, Zenon DEF EnvRecord

\* A process changes, the others stay.
LEMMA ImageMoves ==
    ASSUME ProcessTypes, NEW p \in Pids, NEW i \in ImageRecord,
           image' = [image EXCEPT ![p] = i]
    PROVE  /\ image' \in [Pids -> ImageRecord]
           /\ image'[p] = i
           /\ \A q \in Pids : q # p => image'[q] = image[q]
BY DEF ProcessTypes

\* What a process is brought about for.
ImageStays(i, j) ==
    /\ j.parent = i.parent /\ j.phase = i.phase /\ j.alone = i.alone
    /\ (j.state = "none") = (i.state = "none")

\* A program starts or ends, or executes another, which is the process's image
\* from then on: what it was brought about for stays.
LEMMA ImageSteps ==
    ASSUME ProcessTypes, NEW p \in Pids,
           \/ Start(p) \/ Ends(p) \/ ShellRuns(p) \/ Exec(p)
    PROVE  /\ image' \in [Pids -> ImageRecord]
           /\ \A q \in Pids : ImageStays(image[q], image'[q])
           /\ UNCHANGED <<world, born, lane>>
<1>1. image[p] \in ImageRecord
    BY DEF ProcessTypes
<1>2. ASSUME NEW x \in {"running", "ended"}, image[p].state # "none",
             image' = [image EXCEPT ![p].state = x]
      PROVE  /\ image' \in [Pids -> ImageRecord]
             /\ \A q \in Pids : ImageStays(image[q], image'[q])
    <2> DEFINE i == [image[p] EXCEPT !.state = x]
    <2>1. i \in ImageRecord
        BY <1>1, Zenon DEF ImageRecord
    <2>2. ImageStays(image[p], i)
        BY <1>1, <1>2 DEF ImageRecord, ImageStays
    <2>3. image' = [image EXCEPT ![p] = i]
        BY <1>2
    <2> HIDE DEF i
    <2> QED BY <2>1, <2>2, <2>3, ImageMoves DEF ImageStays
<1>3. ASSUME NEW file \in Programs, NEW c \in BOOLEAN,
             image[p].state # "none", Executes(p, file, c)
      PROVE  /\ image' \in [Pids -> ImageRecord]
             /\ \A q \in Pids : ImageStays(image[q], image'[q])
    <2> DEFINE g == IF "dontcallshell" \in libs[p]
                    THEN Replaced(file, c) ELSE file
               i == [image[p] EXCEPT !.prog = g, !.c = c, !.state = "starting",
                                     !.by = "exec"]
    <2>1. g \in Programs
        BY DEF Replaced, Programs
    <2>2. image' = [image EXCEPT ![p] = i]
        BY <1>3 DEF Executes
    <2> HIDE DEF g
    <2>3. i \in ImageRecord
        BY <1>1, <2>1, Zenon DEF ImageRecord
    <2>4. ImageStays(image[p], i)
        BY <1>1, <1>3 DEF ImageRecord, ImageStays
    <2> HIDE DEF i
    <2> QED BY <2>2, <2>3, <2>4, ImageMoves DEF ImageStays
<1>4. CASE Start(p)
    BY <1>4, <1>2 DEF Start
<1>5. CASE Ends(p)
    BY <1>5, <1>2 DEF Ends
<1>6. CASE ShellRuns(p)
    <2>1. world.command \in Programs
        BY DEF ProcessTypes, World, Programs
    <2> QED BY <1>6, <1>3, <2>1 DEF ShellRuns, Executes
<1>7. CASE Exec(p)
    <2>1. PICK e \in world.execs : Executes(p, e[1], e[2])
        BY <1>7 DEF Exec
    <2>2. e[1] \in Programs /\ e[2] \in BOOLEAN
        BY DEF ProcessTypes, World, Listed, Programs
    <2> QED BY <1>7, <1>3, <2>1, <2>2 DEF Exec, IsProg, Executes
<1> QED BY <1>4, <1>5, <1>6, <1>7

Runs(r) == r.next \in Hooking

\* A call of the program begins, goes on or returns outside the hook, or
\* system comes back to it.
LEMMA LaneSteps ==
    ASSUME ProcessTypes, NEW p \in Pids, NEW l \in Lanes, NEW phase \in Phases,
           \/ Calls(p, l, phase) \/ XvRealCall(p, l) \/ CallReturns(p, l)
           \/ SystemFails(p, l) \/ SystemReturns(p, l)
    PROVE  /\ lane' \in [Pids -> [Lanes -> LaneRecord]]
           /\ OthersStay(p, l)
           /\ UNCHANGED <<world, penv, born, image>>
           /\ \/ /\ ~ Runs(lane[p][l]) /\ ~ Runs(lane'[p][l])
                 /\ image[p].state = "running" \/ lane[p][l].next # "idle"
              \/ /\ lane[p][l].next \in {"system", "wait"}
                 /\ lane'[p][l] = [lane[p][l] EXCEPT !.next = "unsetphase"]
<1>1. lane[p][l] \in LaneRecord
    BY DEF ProcessTypes
<1>2. ASSUME NEW w \in Phases,
             lane' = [lane EXCEPT ![p][l] =
                [@ EXCEPT !.next = "getenable", !.phase = w]]
      PROVE  /\ lane' \in [Pids -> [Lanes -> LaneRecord]]
             /\ OthersStay(p, l) /\ ~ Runs(lane'[p][l])
    <2> DEFINE r == [lane[p][l] EXCEPT !.next = "getenable", !.phase = w]
    <2>1. "getenable" \in Stations /\ w \in Told
        BY DEF Stations, Told
    <2>2. r \in LaneRecord
        BY <1>1, <2>1, Zenon DEF LaneRecord
    <2>3. ~ Runs(r)
        BY <1>1 DEF LaneRecord, Runs, Hooking
    <2>4. lane' = [lane EXCEPT ![p][l] = r]
        BY <1>2
    <2> HIDE DEF r
    <2> QED BY <2>2, <2>3, <2>4, LaneMoves
<1>3. CASE Calls(p, l, phase)
    BY <1>3, <1>2 DEF Calls, IsProg, Runs, Hooking
<1>4. CASE XvRealCall(p, l)
    <2>1. "post-XvListImageFormats" \in Phases
        BY DEF Phases
    <2> QED BY <1>4, <1>2, <2>1 DEF XvRealCall, Runs, Hooking
<1>5. CASE CallReturns(p, l)
    <2>1. Calm \in LaneRecord /\ ~ Runs(Calm)
        BY DEF Calm, LaneRecord, Stations, Told, Nobody, Runs, Hooking
    <2>2. /\ lane[p][l].next = "out" /\ lane' = [lane EXCEPT ![p][l] = Calm]
          /\ UNCHANGED <<world, penv, born, image>>
        BY <1>5 DEF CallReturns
    <2>3. /\ lane' \in [Pids -> [Lanes -> LaneRecord]]
          /\ lane'[p][l] = Calm /\ OthersStay(p, l)
        BY <2>1, <2>2, LaneMoves, Zenon
    <2> QED BY <2>1, <2>2, <2>3 DEF Runs, Hooking
<1>6. CASE SystemFails(p, l) \/ SystemReturns(p, l)
    <2>1. "unsetphase" \in Stations /\ Step(p, l, "unsetphase")
        BY <1>6 DEF Stations, Hooking, SystemFails, SystemReturns
    <2> QED BY <1>6, <2>1, StepMoves DEF SystemFails, SystemReturns
<1> QED BY <1>3, <1>4, <1>5, <1>6

\* A thread finds the hook turned off, or enters it and takes the others there
\* for company.
LEMMA EnterSteps ==
    ASSUME ProcessTypes, NEW p \in Pids, NEW l \in Lanes, GetEnable(p, l)
    PROVE  /\ lane' \in [Pids -> [Lanes -> LaneRecord]]
           /\ UNCHANGED <<world, penv, born, image>>
           /\ \A q \in Pids : q # p => lane'[q] = lane[q]
           /\ lane[p][l].next = "getenable"
           /\ \/ ~ Runs(lane'[p][l]) /\ OthersStay(p, l)
              \/ /\ penv[p].enable = "1" /\ lane'[p][l].next = "unsetenable"
                 /\ lane'[p][l].saved = "1"
                 /\ \A k \in Lanes \ {l} :
                       /\ lane'[p][k].next = lane[p][k].next
                       /\ lane'[p][k].phase = lane[p][k].phase
                       /\ lane'[p][k].saved = lane[p][k].saved
                       /\ lane'[p][l].alone => ~ Runs(lane[p][k])
                       /\ lane'[p][k].alone =>
                             lane[p][k].alone /\ ~ Runs(lane[p][k])
<1>0. \A k \in Lanes : lane[p][k] \in LaneRecord
    BY DEF ProcessTypes
<1>1. CASE penv[p].enable # "1"
    <2>1. "out" \in Stations /\ Step(p, l, "out")
        BY <1>1 DEF Stations, GetEnable
    <2>2. ~ Runs([lane[p][l] EXCEPT !.next = "out"])
        BY <1>0 DEF LaneRecord, Runs, Hooking
    <2> QED BY <2>1, <2>2, StepMoves DEF GetEnable, OthersStay
<1>2. CASE penv[p].enable = "1"
    <2> DEFINE e == Entered(p, l)
    <2>1. e \in [Lanes -> LaneRecord]
        <3> SUFFICES ASSUME NEW k \in Lanes PROVE e[k] \in LaneRecord
            BY DEF Entered
        <3>1. "unsetenable" \in Stations /\ (Inside(p) = {}) \in BOOLEAN
            BY DEF Stations, Hooking
        <3>2. CASE k = l
            <4>1. e[k] = [lane[p][k] EXCEPT !.next = "unsetenable",
                              !.saved = "1", !.alone = (Inside(p) = {})]
                BY <3>2 DEF Entered
            <4> QED BY <1>0, <3>1, <4>1, Zenon DEF LaneRecord
        <3>3. CASE k # l /\ k \in Inside(p)
            <4>1. e[k] = [lane[p][k] EXCEPT !.alone = FALSE]
                BY <3>3 DEF Entered
            <4> QED BY <1>0, <4>1, Zenon DEF LaneRecord
        <3>4. CASE k # l /\ k \notin Inside(p)
            BY <1>0, <3>4 DEF Entered
        <3> QED BY <3>2, <3>3, <3>4
    <2>2. /\ e[l].next = "unsetenable" /\ e[l].saved = "1"
          /\ e[l].alone = (Inside(p) = {})
        BY <1>0, Zenon DEF Entered, LaneRecord
    <2>3. ASSUME NEW k \in Lanes \ {l}
          PROVE  /\ e[k].next = lane[p][k].next
                 /\ e[k].phase = lane[p][k].phase
                 /\ e[k].saved = lane[p][k].saved
                 /\ e[k].alone => lane[p][k].alone /\ k \notin Inside(p)
        BY <1>0, Zenon DEF Entered, LaneRecord
    <2>4. lane' = [lane EXCEPT ![p] = e]
        BY <1>2 DEF GetEnable
    <2> HIDE DEF e
    <2>5. /\ lane' \in [Pids -> [Lanes -> LaneRecord]]
          /\ lane'[p] = e
          /\ \A q \in Pids : q # p => lane'[q] = lane[q]
        BY <2>1, <2>4 DEF ProcessTypes
    <2>6. \A k \in Lanes : k \in Inside(p) <=> Runs(lane[p][k])
        BY DEF Inside, Runs
    <2>7. \A k \in Lanes \ {l} : e[l].alone => ~ Runs(lane[p][k])
        BY <2>2, <2>6
    <2> QED BY <1>2, <2>2, <2>3, <2>5, <2>6, <2>7, Zenon DEF GetEnable
<1> QED BY <1>1, <1>2

\* A thread goes on to x and leaves the environment e.
SetTo(p, l, x, e) ==
    /\ lane' \in [Pids -> [Lanes -> LaneRecord]]
    /\ penv' \in [Pids -> EnvRecord]
    /\ OthersStay(p, l)
    /\ \A q \in Pids : q # p => penv'[q] = penv[q]
    /\ lane'[p][l] = [lane[p][l] EXCEPT !.next = x]
    /\ lane'[p][l].next = x
    /\ penv'[p] = e

\* The thread in the hook turns it off or on, or sets or removes the phase.
LEMMA SetSteps ==
    ASSUME ProcessTypes, NEW p \in Pids, NEW l \in Lanes,
           \/ UnsetEnable(p, l) \/ SetPhase(p, l)
           \/ UnsetPhase(p, l) \/ SetEnable(p, l)
    PROVE  /\ lane' \in [Pids -> [Lanes -> LaneRecord]]
           /\ penv' \in [Pids -> EnvRecord]
           /\ OthersStay(p, l)
           /\ \A q \in Pids : q # p => penv'[q] = penv[q]
           /\ UNCHANGED <<world, born, image>>
           /\ \E x \in Stations : lane'[p][l] = [lane[p][l] EXCEPT !.next = x]
           /\ \/ /\ lane[p][l].next = "unsetenable"
                 /\ lane'[p][l].next = "setphase"
                 /\ penv'[p].enable = "unset" /\ penv'[p].phase = penv[p].phase
              \/ /\ lane[p][l].next = "setphase"
                 /\ lane'[p][l].next = "system"
                 /\ penv'[p].enable = penv[p].enable
                 /\ penv'[p].phase = lane[p][l].phase
              \/ /\ lane[p][l].next = "unsetphase"
                 /\ lane'[p][l].next = "setenable"
                 /\ penv'[p].enable = penv[p].enable
                 /\ penv'[p].phase = "unset"
              \/ /\ lane[p][l].next = "setenable"
                 /\ lane'[p][l].next = "out"
                 /\ penv'[p].enable = lane[p][l].saved
                 /\ penv'[p].phase = penv[p].phase
<1>1. lane[p][l] \in LaneRecord /\ penv[p] \in EnvRecord
    BY DEF ProcessTypes
<1>2. ASSUME NEW x \in Stations, Step(p, l, x),
             NEW e \in EnvRecord, penv' = [penv EXCEPT ![p] = e]
      PROVE  SetTo(p, l, x, e)
    <2>1. [lane[p][l] EXCEPT !.next = x].next = x
        BY <1>1 DEF LaneRecord
    <2>2. /\ lane' \in [Pids -> [Lanes -> LaneRecord]]
          /\ lane'[p][l] = [lane[p][l] EXCEPT !.next = x]
          /\ OthersStay(p, l)
        BY <1>2, StepMoves
    <2>3. /\ penv' \in [Pids -> EnvRecord]
          /\ penv'[p] = e
          /\ \A q \in Pids : q # p => penv'[q] = penv[q]
        BY <1>2, EnvMoves
    <2>4. lane'[p][l].next = x
        BY <2>1, <2>2, Zenon
    <2> QED BY <2>2, <2>3, <2>4, Zenon DEF SetTo
<1>3. /\ "setphase" \in Stations /\ "system" \in Stations
      /\ "setenable" \in Stations /\ "out" \in Stations
    BY DEF Stations, Hooking
<1>4. ASSUME NEW v \in {"unset", "0", "1"}
      PROVE  /\ [penv[p] EXCEPT !.enable = v].enable = v
             /\ [penv[p] EXCEPT !.enable = v].phase = penv[p].phase
    BY <1>1 DEF EnvRecord
<1>5. ASSUME NEW w \in Told
      PROVE  /\ [penv[p] EXCEPT !.phase = w].phase = w
             /\ [penv[p] EXCEPT !.phase = w].enable = penv[p].enable
    BY <1>1 DEF EnvRecord
<1>6. CASE UnsetEnable(p, l)
    <2> DEFINE e == [penv[p] EXCEPT !.enable = "unset"]
    <2>1. e \in EnvRecord /\ e.enable = "unset" /\ e.phase = penv[p].phase
        BY <1>4, SetMoves DEF Told
    <2>2. penv' = [penv EXCEPT ![p] = e]
        BY <1>6 DEF UnsetEnable
    <2>3. /\ lane[p][l].next = "unsetenable" /\ Step(p, l, "setphase")
          /\ UNCHANGED <<world, born, image>>
        BY <1>6 DEF UnsetEnable
    <2> HIDE DEF e
    <2>4. SetTo(p, l, "setphase", e)
        BY <1>2, <1>3, <2>1, <2>2, <2>3, Zenon
    <2> QED BY <1>3, <2>1, <2>3, <2>4, Zenon DEF SetTo
<1>7. CASE SetPhase(p, l)
    <2> DEFINE w == lane[p][l].phase
               e == [penv[p] EXCEPT !.phase = w]
    <2>0. w \in Told
        BY <1>1 DEF LaneRecord
    <2>1. e \in EnvRecord /\ e.enable = penv[p].enable /\ e.phase = w
        BY <1>5, <2>0, SetMoves
    <2>2. penv' = [penv EXCEPT ![p] = e]
        BY <1>7 DEF SetPhase
    <2>3. /\ lane[p][l].next = "setphase" /\ Step(p, l, "system")
          /\ UNCHANGED <<world, born, image>>
        BY <1>7 DEF SetPhase
    <2> HIDE DEF e
    <2>4. SetTo(p, l, "system", e)
        BY <1>2, <1>3, <2>1, <2>2, <2>3, Zenon
    <2> QED BY <1>3, <2>1, <2>3, <2>4, Zenon DEF SetTo
<1>8. CASE UnsetPhase(p, l)
    <2> DEFINE e == [penv[p] EXCEPT !.phase = "unset"]
    <2>0. "unset" \in Told
        BY DEF Told
    <2>1. e \in EnvRecord /\ e.enable = penv[p].enable /\ e.phase = "unset"
        BY <1>5, <2>0, SetMoves
    <2>2. penv' = [penv EXCEPT ![p] = e]
        BY <1>8 DEF UnsetPhase
    <2>3. /\ lane[p][l].next = "unsetphase" /\ Step(p, l, "setenable")
          /\ UNCHANGED <<world, born, image>>
        BY <1>8 DEF UnsetPhase
    <2> HIDE DEF e
    <2>4. SetTo(p, l, "setenable", e)
        BY <1>2, <1>3, <2>1, <2>2, <2>3, Zenon
    <2> QED BY <1>3, <2>1, <2>3, <2>4, Zenon DEF SetTo
<1>9. CASE SetEnable(p, l)
    <2> DEFINE v == lane[p][l].saved
               e == [penv[p] EXCEPT !.enable = v]
    <2>0. v \in {"unset", "0", "1"}
        BY <1>1 DEF LaneRecord
    <2>1. e \in EnvRecord /\ e.enable = v /\ e.phase = penv[p].phase
        BY <1>4, <2>0, SetMoves DEF Told
    <2>2. penv' = [penv EXCEPT ![p] = e]
        BY <1>9 DEF SetEnable
    <2>3. /\ lane[p][l].next = "setenable" /\ Step(p, l, "out")
          /\ UNCHANGED <<world, born, image>>
        BY <1>9 DEF SetEnable
    <2> HIDE DEF e
    <2>4. SetTo(p, l, "out", e)
        BY <1>2, <1>3, <2>1, <2>2, <2>3, Zenon
    <2> QED BY <1>3, <2>1, <2>3, <2>4, Zenon DEF SetTo
<1> QED BY <1>6, <1>7, <1>8, <1>9

\* system brings about a process with a copy of the environment.
LEMMA SystemSteps ==
    ASSUME ProcessTypes, NEW p \in Pids, NEW l \in Lanes, System(p, l)
    PROVE  /\ lane' \in [Pids -> [Lanes -> LaneRecord]]
           /\ penv' \in [Pids -> EnvRecord]
           /\ born' \in [Pids -> EnvRecord]
           /\ image' \in [Pids -> ImageRecord]
           /\ world' = world
           /\ OthersStay(p, l)
           /\ lane[p][l].next = "system" /\ lane'[p][l].next = "wait"
           /\ lane'[p][l].saved = lane[p][l].saved
           /\ lane'[p][l].alone = lane[p][l].alone
           /\ \E q \in Pids :
                 /\ image[q].state = "none" /\ image'[q].state # "none"
                 /\ image'[q].parent = p
                 /\ image'[q].phase = lane[p][l].phase
                 /\ image'[q].alone = lane[p][l].alone
                 /\ penv'[q] = penv[p] /\ born'[q] = penv[p]
                 /\ \A r \in Pids \ {q} :
                       /\ image'[r] = image[r]
                       /\ penv'[r] = penv[r] /\ born'[r] = born[r]
<1>1. lane[p][l] \in LaneRecord /\ penv[p] \in EnvRecord
    BY DEF ProcessTypes
<1> DEFINE i == [prog |-> "sh", c |-> TRUE, state |-> "starting",
                 by |-> "system", parent |-> p,
                 phase |-> lane[p][l].phase, alone |-> lane[p][l].alone]
<1>2. PICK q \in Pids :
        /\ image[q].state = "none"
        /\ image' = [image EXCEPT ![q] = i]
        /\ penv' = [penv EXCEPT ![q] = penv[p]]
        /\ born' = [born EXCEPT ![q] = penv[p]]
        /\ lane' = [lane EXCEPT ![p][l] = [@ EXCEPT !.next = "wait", !.kid = q]]
    BY DEF System
<1> DEFINE r == [lane[p][l] EXCEPT !.next = "wait", !.kid = q]
<1>3. r \in LaneRecord
    <2>1. "wait" \in Stations
        BY DEF Stations, Hooking
    <2>2. q \in Pids \cup {Nobody}
        BY <1>2
    <2> QED BY <1>1, <2>1, <2>2, Zenon DEF LaneRecord
<1>4. /\ r.next = "wait" /\ r.saved = lane[p][l].saved
      /\ r.alone = lane[p][l].alone
    BY <1>1, Zenon DEF LaneRecord
<1>5. i \in ImageRecord
    <2>1. lane[p][l].phase \in Told /\ lane[p][l].alone \in BOOLEAN
        BY <1>1 DEF LaneRecord
    <2> QED BY <2>1 DEF ImageRecord, Programs
<1>6. /\ i.state # "none" /\ i.parent = p /\ i.phase = lane[p][l].phase
      /\ i.alone = lane[p][l].alone
    OBVIOUS
<1>7. lane' = [lane EXCEPT ![p][l] = r]
    BY <1>2
<1> HIDE DEF i, r
<1>8. /\ lane' \in [Pids -> [Lanes -> LaneRecord]] /\ lane'[p][l] = r
      /\ OthersStay(p, l)
    BY <1>3, <1>7, LaneMoves
<1>9. /\ image' \in [Pids -> ImageRecord] /\ image'[q] = i
      /\ \A x \in Pids : x # q => image'[x] = image[x]
    BY <1>2, <1>5, ImageMoves
<1>10. /\ penv' \in [Pids -> EnvRecord] /\ penv'[q] = penv[p]
       /\ \A x \in Pids : x # q => penv'[x] = penv[x]
    BY <1>1, <1>2, EnvMoves
<1>11. /\ born' \in [Pids -> EnvRecord] /\ born'[q] = penv[p]
       /\ \A x \in Pids : x # q => born'[x] = born[x]
    BY <1>1, <1>2 DEF ProcessTypes
<1>12. lane[p][l].next = "system" /\ world' = world
    BY DEF System
<1> QED BY <1>2, <1>4, <1>6, <1>8, <1>9, <1>10, <1>11, <1>12

\* ld_env_restore.so leaves the hook's variables alone.
LEMMA StartMoves ==
    ASSUME ProcessTypes, NEW p \in Pids, Start(p)
    PROVE  /\ penv' \in [Pids -> EnvRecord]
           /\ \A q \in Pids : /\ penv'[q].enable = penv[q].enable
                               /\ penv'[q].phase = penv[q].phase
<1>1. penv[p] \in EnvRecord
    BY DEF ProcessTypes
<1> DEFINE e == Restored(penv[p])
<1>2. {} \in Preloads /\ NotSet \in Preloads
    BY DEF Preloads
<1>3. e \in EnvRecord
    <2>1. CASE penv[p].old = NotSet
        <3>1. e = [penv[p] EXCEPT !.preload = {}]
            BY <2>1 DEF Restored
        <3> QED BY <1>1, <1>2, <3>1, Zenon DEF EnvRecord
    <2>2. CASE penv[p].old # NotSet
        <3>1. e = [penv[p] EXCEPT !.preload = penv[p].old, !.old = NotSet]
            BY <2>2 DEF Restored
        <3>2. penv[p].old \in Preloads
            BY <1>1 DEF EnvRecord
        <3> QED BY <1>1, <1>2, <3>1, <3>2, Zenon DEF EnvRecord
    <2> QED BY <2>1, <2>2
<1>4. e.enable = penv[p].enable /\ e.phase = penv[p].phase
    BY <1>1, Zenon DEF EnvRecord, Restored
<1>5. penv' = [penv EXCEPT ![p] = e] \/ penv' = penv
    BY DEF Start
<1> HIDE DEF e
<1> QED BY <1>3, <1>4, <1>5, EnvMoves DEF ProcessTypes
-----------------------------------------------------------------------------
(* Types *)

\* The first program and the processes that are not there yet.
LEMMA InitTypes == ProcessesInit => ProcessTypes
<1> SUFFICES ASSUME ProcessesInit PROVE ProcessTypes
    OBVIOUS
<1>1. world \in World
    BY ProcessCallsAssumption DEF ProcessesInit
<1>2. EnvOf(world) \in EnvRecord
    BY <1>1 DEF World, EnvOf, EnvRecord, Told, Preloads
<1>3. Calm \in LaneRecord
    BY DEF Calm, LaneRecord, Stations, Told, Nobody
<1>4. NoImage \in ImageRecord
    BY DEF NoImage, ImageRecord, Programs, Told, Nobody
<1>5. [NoImage EXCEPT !.prog = "prog", !.state = "starting"] \in ImageRecord
    <2>1. "prog" \in Programs
        BY DEF Programs
    <2> QED BY <1>4, <2>1, Zenon DEF ImageRecord
<1> QED BY <1>1, <1>2, <1>3, <1>4, <1>5 DEF ProcessesInit, ProcessTypes

\* What a step of the wrappers does to the processes.
LEMMA ProcessStep == [Next]_vars => ProcessesNext \/ UNCHANGED processVars
BY DEF Next, vars, processVars

\* The steps of one thread in the hook or at its door.
LaneStep(p, l) ==
    \/ \E w \in Phases : Calls(p, l, w)
    \/ XvRealCall(p, l) \/ CallReturns(p, l)
    \/ SystemFails(p, l) \/ SystemReturns(p, l)
SetStep(p, l) ==
    UnsetEnable(p, l) \/ SetPhase(p, l) \/ UnsetPhase(p, l) \/ SetEnable(p, l)
ImageStep(p) == Start(p) \/ ShellRuns(p) \/ Exec(p) \/ Ends(p)

\* Every step of a process is of one of these kinds.
LEMMA StepKinds ==
    ASSUME ProcessesNext
    PROVE  \/ \E p \in Pids, l \in Lanes :
                 \/ LaneStep(p, l) \/ SetStep(p, l)
                 \/ GetEnable(p, l) \/ System(p, l)
           \/ \E p \in Pids : ImageStep(p)
<1>1. /\ "post-XOpenDisplay" \in Phases
      /\ "pre-XvListImageFormats" \in Phases
    BY DEF Phases
<1>2. ASSUME NEW p \in Pids, NEW l \in Lanes,
             XOpenDisplay(p, l) \/ XvListImageFormats(p, l)
      PROVE  LaneStep(p, l)
    BY <1>1, <1>2 DEF XOpenDisplay, XvListImageFormats, LaneStep
<1>3. ASSUME NEW p \in Pids, NEW l \in Lanes, Hook(p, l)
      PROVE  \/ LaneStep(p, l) \/ SetStep(p, l)
             \/ GetEnable(p, l) \/ System(p, l)
    BY <1>3, Zenon DEF Hook, LaneStep, SetStep
<1> QED BY <1>2, <1>3, Zenon DEF ProcessesNext, ImageStep

\* The environment is changed by ld_env_restore.so only when a program starts.
LEMMA ImageStepEnv ==
    ASSUME ProcessTypes, NEW p \in Pids, ImageStep(p)
    PROVE  /\ penv' \in [Pids -> EnvRecord]
           /\ \A q \in Pids : /\ penv'[q].enable = penv[q].enable
                               /\ penv'[q].phase = penv[q].phase
<1>1. CASE Start(p)
    BY <1>1, StartMoves
<1>2. CASE Ends(p)
    BY <1>2 DEF Ends, ProcessTypes
<1>3. CASE ShellRuns(p) \/ Exec(p)
    BY <1>3 DEF ShellRuns, Exec, Executes, ProcessTypes
<1> QED BY <1>1, <1>2, <1>3 DEF ImageStep

\* Every step keeps the types.
LEMMA StepTypes ==
    ASSUME ProcessTypes, ProcessesNext \/ UNCHANGED processVars
    PROVE  ProcessTypes'
<1>1. ASSUME NEW p \in Pids, NEW l \in Lanes, LaneStep(p, l)
      PROVE  ProcessTypes'
    <2>1. PICK w \in Phases :
            \/ Calls(p, l, w) \/ XvRealCall(p, l) \/ CallReturns(p, l)
            \/ SystemFails(p, l) \/ SystemReturns(p, l)
        BY <1>1 DEF LaneStep, Phases
    <2> QED BY <2>1, LaneSteps DEF ProcessTypes
<1>2. ASSUME NEW p \in Pids, NEW l \in Lanes, SetStep(p, l)
      PROVE  ProcessTypes'
    <2>1. /\ lane' \in [Pids -> [Lanes -> LaneRecord]]
          /\ penv' \in [Pids -> EnvRecord]
          /\ UNCHANGED <<world, born, image>>
        BY <1>2, SetSteps DEF SetStep
    <2> QED BY <2>1 DEF ProcessTypes
<1>3. ASSUME NEW p \in Pids, NEW l \in Lanes, GetEnable(p, l)
      PROVE  ProcessTypes'
    <2>1. /\ lane' \in [Pids -> [Lanes -> LaneRecord]]
          /\ UNCHANGED <<world, penv, born, image>>
        BY <1>3, EnterSteps
    <2> QED BY <2>1 DEF ProcessTypes
<1>4. ASSUME NEW p \in Pids, NEW l \in Lanes, System(p, l)
      PROVE  ProcessTypes'
    <2>1. /\ lane' \in [Pids -> [Lanes -> LaneRecord]]
          /\ penv' \in [Pids -> EnvRecord] /\ born' \in [Pids -> EnvRecord]
          /\ image' \in [Pids -> ImageRecord] /\ world' = world
        BY <1>4, SystemSteps
    <2> QED BY <2>1 DEF ProcessTypes
<1>5. ASSUME NEW p \in Pids, ImageStep(p) PROVE ProcessTypes'
    <2>1. /\ image' \in [Pids -> ImageRecord]
          /\ UNCHANGED <<world, born, lane>>
        BY <1>5, ImageSteps DEF ImageStep
    <2>2. penv' \in [Pids -> EnvRecord]
        BY <1>5, ImageStepEnv
    <2> QED BY <2>1, <2>2 DEF ProcessTypes
<1>6. CASE UNCHANGED processVars
    BY <1>6 DEF processVars, ProcessTypes
<1> QED BY <1>1, <1>2, <1>3, <1>4, <1>5, <1>6, StepKinds, Zenon
-----------------------------------------------------------------------------
(* The environment is as it was *)

\* What is not as it was will be put back by a thread that is on its way to do
\* it; the value it puts back is the one that the process began with.
PutBack(p) ==
    /\ penv[p].enable \in {born[p].enable, "unset"}
    /\ penv[p].enable # born[p].enable =>
          \E k \in Lanes : lane[p][k].next \in Hooking \ {"unsetenable"}
    /\ penv[p].phase \notin {"unset", born[p].phase} =>
          \E k \in Lanes : lane[p][k].next \in {"system", "wait", "unsetphase"}
    /\ \A k \in Lanes : Runs(lane[p][k]) =>
          lane[p][k].saved = "1" /\ born[p].enable = "1"
    /\ image[p].state = "none" => \A k \in Lanes : lane[p][k].next = "idle"

BackInv == \A p \in Pids : PutBack(p)

\* Nothing that PutBack speaks of has changed.
LEMMA BackStays ==
    ASSUME NEW q \in Pids, PutBack(q), lane'[q] = lane[q],
           penv'[q].enable = penv[q].enable, penv'[q].phase = penv[q].phase,
           born'[q] = born[q],
           (image'[q].state = "none") = (image[q].state = "none")
    PROVE  PutBack(q)'
BY DEF PutBack

\* A thread moves outside the hook, or comes back to it from system.
LEMMA BackLane ==
    ASSUME ProcessTypes, BackInv, NEW p \in Pids, NEW l \in Lanes,
           LaneStep(p, l)
    PROVE  BackInv'
<1>1. PICK w \in Phases :
        \/ Calls(p, l, w) \/ XvRealCall(p, l) \/ CallReturns(p, l)
        \/ SystemFails(p, l) \/ SystemReturns(p, l)
    BY DEF LaneStep, Phases
<1>2. /\ OthersStay(p, l)
      /\ UNCHANGED <<world, penv, born, image>>
      /\ \/ /\ ~ Runs(lane[p][l]) /\ ~ Runs(lane'[p][l])
            /\ image[p].state = "running" \/ lane[p][l].next # "idle"
         \/ /\ lane[p][l].next \in {"system", "wait"}
            /\ lane'[p][l] = [lane[p][l] EXCEPT !.next = "unsetphase"]
    BY <1>1, LaneSteps
<1>3. CASE /\ ~ Runs(lane[p][l]) /\ ~ Runs(lane'[p][l])
           /\ image[p].state = "running" \/ lane[p][l].next # "idle"
    BY <1>2, <1>3 DEF BackInv, PutBack, OthersStay, Runs, Hooking
<1>4. CASE /\ lane[p][l].next \in {"system", "wait"}
           /\ lane'[p][l] = [lane[p][l] EXCEPT !.next = "unsetphase"]
    <2>1. lane[p][l] \in LaneRecord
        BY DEF ProcessTypes
    <2>2. /\ lane[p][l].next \in {"system", "wait"}
          /\ lane'[p][l].next = "unsetphase"
          /\ lane'[p][l].saved = lane[p][l].saved
        BY <1>4, <2>1, Zenon DEF LaneRecord
    <2>3. OthersStay(p, l) /\ UNCHANGED <<world, penv, born, image>>
        BY <1>2
    <2> QED BY <2>2, <2>3 DEF BackInv, PutBack, OthersStay, Runs, Hooking
<1> QED BY <1>2, <1>3, <1>4, Zenon

\* A thread changes the environment and goes on to where the change is due.
LEMMA BackSet ==
    ASSUME ProcessTypes, BackInv, NEW p \in Pids, NEW l \in Lanes,
           SetStep(p, l)
    PROVE  BackInv'
<1>1. /\ OthersStay(p, l)
      /\ \A q \in Pids : q # p => penv'[q] = penv[q]
      /\ UNCHANGED <<world, born, image>>
    BY SetSteps DEF SetStep
<1>2. \A q \in Pids : q # p => PutBack(q)'
    BY <1>1, BackStays DEF BackInv, OthersStay
<1>3. lane'[p][l].saved = lane[p][l].saved
    <2>1. lane[p][l] \in LaneRecord
        BY DEF ProcessTypes
    <2>2. PICK x \in Stations : lane'[p][l] = [lane[p][l] EXCEPT !.next = x]
        BY SetSteps DEF SetStep
    <2> QED BY <2>1, <2>2, Zenon DEF LaneRecord
<1>4. \/ /\ lane[p][l].next = "unsetenable"
         /\ lane'[p][l].next = "setphase"
         /\ penv'[p].enable = "unset" /\ penv'[p].phase = penv[p].phase
      \/ /\ lane[p][l].next = "setphase"
         /\ lane'[p][l].next = "system"
         /\ penv'[p].enable = penv[p].enable
      \/ /\ lane[p][l].next = "unsetphase"
         /\ lane'[p][l].next = "setenable"
         /\ penv'[p].enable = penv[p].enable /\ penv'[p].phase = "unset"
      \/ /\ lane[p][l].next = "setenable"
         /\ lane'[p][l].next = "out"
         /\ penv'[p].enable = lane[p][l].saved
         /\ penv'[p].phase = penv[p].phase
    BY SetSteps DEF SetStep
<1>5. PutBack(p)'
    BY <1>1, <1>3, <1>4 DEF BackInv, PutBack, OthersStay, Runs, Hooking
<1> QED BY <1>2, <1>5 DEF BackInv

\* A thread that enters has found the hook on, as it was at the beginning.
LEMMA BackEnter ==
    ASSUME ProcessTypes, BackInv, NEW p \in Pids, NEW l \in Lanes,
           GetEnable(p, l)
    PROVE  BackInv'
<1>1. /\ UNCHANGED <<world, penv, born, image>>
      /\ \A q \in Pids : q # p => lane'[q] = lane[q]
      /\ lane[p][l].next = "getenable"
      /\ \/ ~ Runs(lane'[p][l]) /\ OthersStay(p, l)
         \/ /\ penv[p].enable = "1" /\ lane'[p][l].next = "unsetenable"
            /\ lane'[p][l].saved = "1"
            /\ \A k \in Lanes \ {l} :
                  /\ lane'[p][k].next = lane[p][k].next
                  /\ lane'[p][k].saved = lane[p][k].saved
    BY EnterSteps
<1>2. CASE ~ Runs(lane'[p][l]) /\ OthersStay(p, l)
    BY <1>1, <1>2 DEF BackInv, PutBack, OthersStay, Runs, Hooking
<1>3. CASE /\ penv[p].enable = "1" /\ lane'[p][l].next = "unsetenable"
           /\ lane'[p][l].saved = "1"
           /\ \A k \in Lanes \ {l} :
                 /\ lane'[p][k].next = lane[p][k].next
                 /\ lane'[p][k].saved = lane[p][k].saved
    BY <1>1, <1>3 DEF BackInv, PutBack, Runs, Hooking
<1> QED BY <1>1, <1>2, <1>3, Zenon

\* A process begins with the environment that the hook has changed.
LEMMA BackSystem ==
    ASSUME ProcessTypes, BackInv, NEW p \in Pids, NEW l \in Lanes,
           System(p, l)
    PROVE  BackInv'
<1>1. /\ OthersStay(p, l)
      /\ lane[p][l].next = "system" /\ lane'[p][l].next = "wait"
      /\ lane'[p][l].saved = lane[p][l].saved
    BY SystemSteps
<1>2. PICK q \in Pids :
        /\ image[q].state = "none" /\ image'[q].state # "none"
        /\ penv'[q] = penv[p] /\ born'[q] = penv[p]
        /\ \A r \in Pids \ {q} :
              /\ image'[r] = image[r]
              /\ penv'[r] = penv[r] /\ born'[r] = born[r]
    BY SystemSteps
<1>3. q # p /\ \A k \in Lanes : lane[q][k].next = "idle"
    BY <1>1, <1>2 DEF BackInv, PutBack
<1>4. \A r \in Pids \ {p, q} : PutBack(r)'
    BY <1>1, <1>2, BackStays DEF BackInv, OthersStay
<1>5. PutBack(q)'
    BY <1>1, <1>2, <1>3 DEF PutBack, OthersStay, Runs, Hooking
<1>6. PutBack(p)'
    BY <1>1, <1>2, <1>3 DEF BackInv, PutBack, OthersStay, Runs, Hooking
<1> QED BY <1>4, <1>5, <1>6 DEF BackInv

\* A program starts, ends or is replaced.
LEMMA BackImage ==
    ASSUME ProcessTypes, BackInv, NEW p \in Pids, ImageStep(p)
    PROVE  BackInv'
<1>1. /\ \A q \in Pids : ImageStays(image[q], image'[q])
      /\ UNCHANGED <<born, lane>>
    BY ImageSteps DEF ImageStep
<1>2. \A q \in Pids : /\ penv'[q].enable = penv[q].enable
                      /\ penv'[q].phase = penv[q].phase
    BY ImageStepEnv
<1> QED BY <1>1, <1>2, BackStays DEF BackInv, ImageStays

\* Every step leaves what is to be put back with a thread that will do it.
LEMMA BackStep ==
    ASSUME ProcessTypes, BackInv, ProcessesNext \/ UNCHANGED processVars
    PROVE  BackInv'
<1>1. CASE UNCHANGED processVars
    BY <1>1 DEF processVars, BackInv, PutBack
<1> QED BY <1>1, StepKinds, BackLane, BackSet, BackEnter, BackSystem, BackImage,
           Zenon

\* No thread is in the hook at first.
LEMMA InitBack == ProcessesInit => BackInv
<1> SUFFICES ASSUME ProcessesInit, NEW p \in Pids PROVE PutBack(p)
    BY DEF BackInv
<1>1. penv[p] = born[p] /\ \A k \in Lanes : lane[p][k].next = "idle"
    BY DEF ProcessesInit, Calm
<1> QED BY <1>1 DEF PutBack, Runs, Hooking

\* Types and what is to be put back are invariant together.
LEMMA BackSpec == Spec => [](ProcessTypes /\ BackInv)
<1>1. Init => ProcessTypes /\ BackInv
    BY InitTypes, InitBack DEF Init
<1>2. ProcessTypes /\ BackInv /\ [Next]_vars => (ProcessTypes /\ BackInv)'
    BY ProcessStep, StepTypes, BackStep
<1> QED BY <1>1, <1>2, PTL DEF Spec

\* However many threads of however many processes are in the hook of
\* xopenhook.so at the same time, once none is there the environment is what
\* the process began with.
THEOREM HookPutsBack == Spec => []EnvironmentIsBack
<1>1. BackInv => EnvironmentIsBack
    BY DEF BackInv, PutBack, EnvironmentIsBack, Hooking
<1> QED BY <1>1, BackSpec, PTL
-----------------------------------------------------------------------------
(* A command is told its phase *)

\* A thread that is alone in the hook finds there what it has set.
HookAlone(p) ==
    \A k \in Lanes : Runs(lane[p][k]) /\ lane[p][k].alone =>
        /\ \A j \in Lanes \ {k} : ~ Runs(lane[p][j])
        /\ lane[p][k].next # "unsetenable" => penv[p].enable = "unset"
        /\ lane[p][k].next = "system" => penv[p].phase = lane[p][k].phase

\* A process that such a thread has brought about.
ToldAlone(q) ==
    image[q].state # "none" /\ image[q].alone =>
        /\ penv[q].enable = "unset" /\ penv[q].phase = image[q].phase
        /\ \A k \in Lanes : ~ Runs(lane[q][k])
        /\ \A r \in Pids : image[r].parent # q

HasParent(r) ==
    image[r].parent \in Pids => image[image[r].parent].state # "none"

ToldInv ==
    /\ \A p \in Pids : HookAlone(p) /\ HasParent(p)
    /\ \A q \in Pids \ {Root} : ToldAlone(q)

\* Nothing that ToldInv speaks of has changed but the threads of one process.
LEMMA ToldStays ==
    ASSUME ToldInv, NEW p \in Pids,
           \A q \in Pids : q # p => lane'[q] = lane[q],
           \A q \in Pids : /\ ImageStays(image[q], image'[q])
                           /\ q # p => /\ penv'[q].enable = penv[q].enable
                                       /\ penv'[q].phase = penv[q].phase,
           HookAlone(p)', p # Root => ToldAlone(p)'
    PROVE  ToldInv'
<1>1. \A q \in Pids : HasParent(q)'
    BY DEF ToldInv, HasParent, ImageStays
<1>2. \A q \in Pids : HookAlone(q)'
    BY DEF ToldInv, HookAlone
<1>3. \A q \in Pids \ {Root} : ToldAlone(q)'
    BY DEF ToldInv, ToldAlone, ImageStays
<1> QED BY <1>1, <1>2, <1>3 DEF ToldInv

\* A thread moves outside the hook, or comes back to it from system.
LEMMA ToldLane ==
    ASSUME ProcessTypes, ToldInv, NEW p \in Pids, NEW l \in Lanes,
           LaneStep(p, l)
    PROVE  ToldInv'
<1>1. PICK w \in Phases :
        \/ Calls(p, l, w) \/ XvRealCall(p, l) \/ CallReturns(p, l)
        \/ SystemFails(p, l) \/ SystemReturns(p, l)
    BY DEF LaneStep, Phases
<1>2. OthersStay(p, l) /\ UNCHANGED <<penv, image>>
    BY <1>1, LaneSteps
<1>3. \/ ~ Runs(lane'[p][l])
      \/ /\ Runs(lane[p][l]) /\ lane[p][l].next # "unsetenable"
         /\ lane'[p][l].alone = lane[p][l].alone
         /\ lane'[p][l].next = "unsetphase"
    <2>1. CASE ~ Runs(lane'[p][l])
        BY <2>1
    <2>2. CASE /\ lane[p][l].next \in {"system", "wait"}
               /\ lane'[p][l] = [lane[p][l] EXCEPT !.next = "unsetphase"]
        <3>1. lane[p][l] \in LaneRecord
            BY DEF ProcessTypes
        <3>2. /\ lane'[p][l].next = "unsetphase"
              /\ lane'[p][l].alone = lane[p][l].alone
            BY <2>2, <3>1, Zenon DEF LaneRecord
        <3>3. Runs(lane[p][l]) /\ lane[p][l].next # "unsetenable"
            BY <2>2, Zenon DEF Runs, Hooking
        <3> QED BY <3>2, <3>3
    <2> QED BY <1>1, <2>1, <2>2, LaneSteps
<1>4. HookAlone(p)'
    BY <1>2, <1>3 DEF ToldInv, HookAlone, OthersStay, Runs, Hooking
<1>5. p # Root => ToldAlone(p)'
    BY <1>2, <1>3 DEF ToldInv, ToldAlone, OthersStay
<1> QED BY <1>2, <1>4, <1>5, ToldStays DEF ImageStays, OthersStay
\* A thread that sets or removes a variable is the only one that is alone.
LEMMA ToldSet ==
    ASSUME ProcessTypes, ToldInv, NEW p \in Pids, NEW l \in Lanes,
           SetStep(p, l)
    PROVE  ToldInv'
<1>1. /\ OthersStay(p, l)
      /\ \A q \in Pids : q # p => penv'[q] = penv[q]
      /\ UNCHANGED image
    BY SetSteps DEF SetStep
<1>2. /\ lane'[p][l].alone = lane[p][l].alone
      /\ lane'[p][l].phase = lane[p][l].phase
    <2>1. lane[p][l] \in LaneRecord
        BY DEF ProcessTypes
    <2>2. PICK x \in Stations : lane'[p][l] = [lane[p][l] EXCEPT !.next = x]
        BY SetSteps DEF SetStep
    <2> QED BY <2>1, <2>2, Zenon DEF LaneRecord
<1>3. \/ /\ lane[p][l].next = "unsetenable"
         /\ lane'[p][l].next = "setphase" /\ penv'[p].enable = "unset"
      \/ /\ lane[p][l].next = "setphase"
         /\ lane'[p][l].next = "system"
         /\ penv'[p].enable = penv[p].enable
         /\ penv'[p].phase = lane[p][l].phase
      \/ /\ lane[p][l].next = "unsetphase"
         /\ lane'[p][l].next = "setenable"
         /\ penv'[p].enable = penv[p].enable
      \/ lane[p][l].next = "setenable" /\ lane'[p][l].next = "out"
    BY SetSteps DEF SetStep
<1>4. Runs(lane[p][l])
    BY <1>3 DEF Runs, Hooking
<1>5. HookAlone(p)'
    BY <1>1, <1>2, <1>3, <1>4 DEF ToldInv, HookAlone, OthersStay, Runs, Hooking
<1>6. p # Root => ToldAlone(p)'
    BY <1>1, <1>4 DEF ToldInv, ToldAlone
<1> QED BY <1>1, <1>5, <1>6, ToldStays DEF ImageStays, OthersStay

\* A thread that enters is alone only if it finds no other there, and one that
\* it finds is alone no more.
LEMMA ToldEnter ==
    ASSUME ProcessTypes, ToldInv, NEW p \in Pids, NEW l \in Lanes,
           GetEnable(p, l)
    PROVE  ToldInv'
<1>1. /\ UNCHANGED <<penv, image>>
      /\ \A q \in Pids : q # p => lane'[q] = lane[q]
    BY EnterSteps
<1>2. CASE ~ Runs(lane'[p][l]) /\ OthersStay(p, l)
    <2>1. HookAlone(p)'
        BY <1>1, <1>2 DEF ToldInv, HookAlone, OthersStay, Runs
    <2>2. p # Root => ToldAlone(p)'
        BY <1>1, <1>2 DEF ToldInv, ToldAlone, OthersStay
    <2> QED BY <1>1, <2>1, <2>2, ToldStays DEF ImageStays
<1>3. CASE /\ penv[p].enable = "1" /\ lane'[p][l].next = "unsetenable"
           /\ \A k \in Lanes \ {l} :
                 /\ lane'[p][k].next = lane[p][k].next
                 /\ lane'[p][k].phase = lane[p][k].phase
                 /\ lane'[p][l].alone => ~ Runs(lane[p][k])
                 /\ lane'[p][k].alone => lane[p][k].alone /\ ~ Runs(lane[p][k])
    <2>1. HookAlone(p)'
        BY <1>3 DEF HookAlone, Runs
    <2>2. p # Root => ToldAlone(p)'
        BY <1>1, <1>3 DEF ToldInv, ToldAlone
    <2> QED BY <1>1, <2>1, <2>2, ToldStays DEF ImageStays
<1> QED BY <1>2, <1>3, EnterSteps

\* The command gets the environment that the thread has set for it.
LEMMA ToldSystem ==
    ASSUME ProcessTypes, BackInv, ToldInv, NEW p \in Pids, NEW l \in Lanes,
           System(p, l)
    PROVE  ToldInv'
<1>1. /\ OthersStay(p, l)
      /\ lane[p][l].next = "system" /\ lane'[p][l].next = "wait"
      /\ lane'[p][l].alone = lane[p][l].alone
    BY SystemSteps
<1>2. PICK q \in Pids :
        /\ image[q].state = "none" /\ image'[q].state # "none"
        /\ image'[q].parent = p
        /\ image'[q].phase = lane[p][l].phase
        /\ image'[q].alone = lane[p][l].alone
        /\ penv'[q] = penv[p]
        /\ \A r \in Pids \ {q} : image'[r] = image[r] /\ penv'[r] = penv[r]
    BY SystemSteps
<1>3. /\ q # p /\ image[p].state # "none"
      /\ \A k \in Lanes : lane[q][k].next = "idle"
    BY <1>1, <1>2 DEF BackInv, PutBack
<1>4. Runs(lane[p][l]) /\ Runs(lane'[p][l])
    BY <1>1 DEF Runs, Hooking
<1>5. \A r \in Pids : HasParent(r)'
    BY <1>2, <1>3 DEF ToldInv, HasParent
<1>6. ASSUME NEW r \in Pids PROVE HookAlone(r)'
    <2>1. CASE r = p
        BY <1>1, <1>2, <1>3, <1>4, <2>1
           DEF ToldInv, HookAlone, OthersStay, Runs
    <2>2. CASE r = q
        BY <1>1, <1>3, <2>2 DEF HookAlone, OthersStay, Runs, Hooking
    <2>3. CASE r \notin {p, q}
        BY <1>1, <1>2, <2>3 DEF ToldInv, HookAlone, OthersStay
    <2> QED BY <2>1, <2>2, <2>3
<1>7. ASSUME NEW r \in Pids \ {Root} PROVE ToldAlone(r)'
    <2>1. CASE r = p
        BY <1>1, <1>2, <1>3, <1>4, <2>1 DEF ToldInv, ToldAlone
    <2>2. CASE r = q
        <3> SUFFICES ASSUME image'[q].alone PROVE ToldAlone(q)'
            BY <2>2 DEF ToldAlone
        <3>1. lane[p][l].alone
            BY <1>2
        <3>2. penv[p].enable = "unset" /\ penv[p].phase = lane[p][l].phase
            BY <1>1, <1>4, <3>1 DEF ToldInv, HookAlone
        <3>3. \A k \in Lanes : ~ Runs(lane'[q][k])
            BY <1>1, <1>3 DEF OthersStay, Runs, Hooking
        <3>4. \A x \in Pids : image'[x].parent # q
            BY <1>2, <1>3 DEF ToldInv, HasParent
        <3> QED BY <1>2, <3>2, <3>3, <3>4 DEF ToldAlone
    <2>3. CASE r \notin {p, q}
        BY <1>1, <1>2, <1>3, <2>3 DEF ToldInv, ToldAlone, OthersStay
    <2> QED BY <2>1, <2>2, <2>3
<1> QED BY <1>5, <1>6, <1>7 DEF ToldInv

\* A program starts, ends or is replaced.
LEMMA ToldImage ==
    ASSUME ProcessTypes, ToldInv, NEW p \in Pids, ImageStep(p)
    PROVE  ToldInv'
<1>1. /\ \A q \in Pids : ImageStays(image[q], image'[q])
      /\ UNCHANGED lane
    BY ImageSteps DEF ImageStep
<1>2. \A q \in Pids : /\ penv'[q].enable = penv[q].enable
                      /\ penv'[q].phase = penv[q].phase
    BY ImageStepEnv
<1>3. HookAlone(p)' /\ (p # Root => ToldAlone(p)')
    BY <1>1, <1>2 DEF ToldInv, HookAlone, ToldAlone, ImageStays
<1> QED BY <1>1, <1>2, <1>3, ToldStays

\* Every step keeps the thread alone, and its command told.
LEMMA ToldStep ==
    ASSUME ProcessTypes, BackInv, ToldInv,
           ProcessesNext \/ UNCHANGED processVars
    PROVE  ToldInv'
<1>1. CASE UNCHANGED processVars
    BY <1>1 DEF processVars, ToldInv, HookAlone, ToldAlone, HasParent
<1> QED BY <1>1, StepKinds, ToldLane, ToldSet, ToldEnter, ToldSystem, ToldImage,
           Zenon

\* There is no command at first.
LEMMA InitTold == ProcessesInit => ToldInv
<1> SUFFICES ASSUME ProcessesInit PROVE ToldInv
    OBVIOUS
<1>1. \A p \in Pids : \A k \in Lanes : lane[p][k].next = "idle"
    BY DEF ProcessesInit, Calm
<1>2. \A p \in Pids : image[p].parent = Nobody /\ Nobody \notin Pids
    BY DEF ProcessesInit, NoImage, Nobody, Pids
<1>3. \A p \in Pids \ {Root} : image[p].state = "none"
    BY DEF ProcessesInit, NoImage
<1> QED BY <1>1, <1>2, <1>3
        DEF ToldInv, HookAlone, HasParent, ToldAlone, Runs, Hooking

\* A command that is started while no other thread of its program is in the
\* hook finds the phase that it is started for in its environment and the hook
\* turned off, so that it starts no command of its own, however many programs,
\* shells and threads there are.
THEOREM CommandsAreTold == Spec => []CommandIsTold
<1>1. Init => ToldInv
    BY InitTold DEF Init
<1>2. ProcessTypes /\ BackInv /\ ToldInv /\ [Next]_vars => ToldInv'
    BY ProcessStep, ToldStep
<1>3. ToldInv => CommandIsTold
    BY DEF ToldInv, ToldAlone, CommandIsTold
<1> QED BY <1>1, <1>2, <1>3, BackSpec, PTL DEF Spec
-----------------------------------------------------------------------------
(* The libraries of the commands *)

\* With ld_env_restore.so the first program has the new value until it runs, and
\* the others have the old value or, restored again, none: then the first shell
\* is loaded with the old value, and finds it until it starts.
Starts(p) == image[p].state = "starting"
RestoredLibs(p) ==
    IF p = Root
    THEN IF Starts(p)
         THEN penv[p].preload = world.preload /\ penv[p].old = world.old
         ELSE penv[p].preload = LeftOver /\ penv[p].old = NotSet
    ELSE /\ libs[p] = IF "restore" \in LeftOver /\ ~ FirstShell(p) THEN {}
                      ELSE LeftOver
         /\ penv[p].preload = IF /\ "restore" \in LeftOver
                                 /\ ~ (FirstShell(p) /\ Starts(p))
                              THEN {} ELSE LeftOver
         /\ penv[p].old = NotSet

\* Without it, all have the value of the first.
SameLibs(p) ==
    /\ libs[p] = world.preload /\ penv[p].preload = world.preload
    /\ ("dontcallshell" \in world.preload /\ image[p].by = "exec") =>
          ~ (image[p].prog \in Listed /\ image[p].c)

Inherits(p) ==
    image[p].state # "none" =>
        IF "restore" \in world.preload THEN RestoredLibs(p) ELSE SameLibs(p)

RootStarts ==
    /\ image[Root].by = "none" /\ image[Root].state # "none"
    /\ libs[Root] = world.preload
    /\ image[Root].state = "starting" =>
          \A k \in Lanes : lane[Root][k].next = "idle"

\* A shell that system has started does not call the hook.
ShellsWait ==
    \A p \in Pids : image[p].by = "system" =>
        image[p].prog = "sh" /\ \A k \in Lanes : lane[p][k].next = "idle"

InheritInv ==
    /\ libs \in [Pids -> Preloads]
    /\ RootStarts /\ ShellsWait
    /\ \A p \in Pids : Inherits(p)

\* There is a first process.
LEMMA RootIsPid == Root \in Pids
BY ProcessCallsAssumption DEF Root, Pids

\* A thread of the hook leaves the libraries and their variables alone, and one
\* moves only in a program that runs.
LEMMA LibsStay ==
    ASSUME ProcessTypes, NEW p \in Pids, NEW l \in Lanes,
           LaneStep(p, l) \/ SetStep(p, l) \/ GetEnable(p, l)
    PROVE  /\ UNCHANGED <<world, image, libs>>
           /\ \A q \in Pids : /\ penv'[q].preload = penv[q].preload
                              /\ penv'[q].old = penv[q].old
           /\ \A q \in Pids : q # p => lane'[q] = lane[q]
           /\ IsProg(p) \/ lane[p][l].next # "idle"
<1>1. CASE LaneStep(p, l)
    <2>1. PICK w \in Phases :
            \/ Calls(p, l, w) \/ XvRealCall(p, l) \/ CallReturns(p, l)
            \/ SystemFails(p, l) \/ SystemReturns(p, l)
        BY <1>1 DEF LaneStep, Phases
    <2>2. OthersStay(p, l) /\ UNCHANGED <<world, penv, image>>
        BY <2>1, LaneSteps
    <2>3. UNCHANGED libs
        BY <2>1 DEF Calls, XvRealCall, CallReturns, SystemFails, SystemReturns
    <2>4. IsProg(p) \/ lane[p][l].next # "idle"
        BY <2>1 DEF Calls, XvRealCall, CallReturns, SystemFails, SystemReturns
    <2> QED BY <2>2, <2>3, <2>4 DEF OthersStay
<1>2. CASE GetEnable(p, l)
    <2>1. UNCHANGED libs
        BY <1>2 DEF GetEnable
    <2>2. lane[p][l].next # "idle"
        BY <1>2 DEF GetEnable
    <2> QED BY <1>2, <2>1, <2>2, EnterSteps
<1>3. CASE SetStep(p, l)
    <2>1. penv[p] \in EnvRecord
        BY DEF ProcessTypes
    <2>2. \/ \E v \in {"unset", lane[p][l].saved} :
                penv' = [penv EXCEPT ![p] = [penv[p] EXCEPT !.enable = v]]
          \/ \E w \in {"unset", lane[p][l].phase} :
                penv' = [penv EXCEPT ![p] = [penv[p] EXCEPT !.phase = w]]
        BY <1>3, Zenon
           DEF SetStep, UnsetEnable, SetPhase, UnsetPhase, SetEnable
    <2>3. /\ penv'[p].preload = penv[p].preload
          /\ penv'[p].old = penv[p].old
          /\ \A q \in Pids : q # p => penv'[q] = penv[q]
        <3>1. ASSUME NEW e,
                     e.preload = penv[p].preload, e.old = penv[p].old,
                     penv' = [penv EXCEPT ![p] = e]
              PROVE  /\ penv'[p].preload = penv[p].preload
                     /\ penv'[p].old = penv[p].old
                     /\ \A q \in Pids : q # p => penv'[q] = penv[q]
            BY <3>1 DEF ProcessTypes
        <3>2. ASSUME NEW v
              PROVE  /\ [penv[p] EXCEPT !.enable = v].preload
                            = penv[p].preload
                     /\ [penv[p] EXCEPT !.enable = v].old = penv[p].old
                     /\ [penv[p] EXCEPT !.phase = v].preload
                            = penv[p].preload
                     /\ [penv[p] EXCEPT !.phase = v].old = penv[p].old
            BY <2>1 DEF EnvRecord
        <3> QED BY <2>2, <3>1, <3>2, Zenon
    <2>4. /\ OthersStay(p, l) /\ UNCHANGED <<world, image>>
          /\ lane[p][l].next # "idle"
        BY <1>3, SetSteps DEF SetStep
    <2>5. UNCHANGED libs
        BY <1>3 DEF SetStep, UnsetEnable, SetPhase, UnsetPhase, SetEnable
    <2> QED BY <2>3, <2>4, <2>5 DEF OthersStay
<1> QED BY <1>1, <1>2, <1>3

\* The hook leaves the libraries that are to be inherited.
LEMMA InheritHook ==
    ASSUME ProcessTypes, InheritInv, NEW p \in Pids, NEW l \in Lanes,
           LaneStep(p, l) \/ SetStep(p, l) \/ GetEnable(p, l)
    PROVE  InheritInv'
<1>1. /\ UNCHANGED <<world, image, libs>>
      /\ \A q \in Pids : /\ penv'[q].preload = penv[q].preload
                         /\ penv'[q].old = penv[q].old
      /\ \A q \in Pids : q # p => lane'[q] = lane[q]
      /\ IsProg(p) \/ lane[p][l].next # "idle"
    BY LibsStay
<1>2. RootStarts'
    BY <1>1, RootIsPid DEF InheritInv, RootStarts, IsProg
<1>4. ShellsWait'
    <2>1. image[p].by # "system"
        BY <1>1 DEF InheritInv, ShellsWait, IsProg
    <2> QED BY <1>1, <2>1 DEF InheritInv, ShellsWait
<1>3. ASSUME NEW q \in Pids PROVE Inherits(q)'
    BY <1>1 DEF InheritInv, Inherits, RestoredLibs, SameLibs, LeftOver,
               FirstShell, Starts
<1> QED BY <1>1, <1>2, <1>3, <1>4 DEF InheritInv

\* A command is loaded with what the environment asks for that it begins with.
LEMMA InheritSystem ==
    ASSUME ProcessTypes, BackInv, InheritInv, NEW p \in Pids, NEW l \in Lanes,
           System(p, l)
    PROVE  InheritInv'
<1>1. /\ OthersStay(p, l) /\ lane[p][l].next = "system" /\ world' = world
      /\ image' \in [Pids -> ImageRecord] /\ penv' \in [Pids -> EnvRecord]
    BY SystemSteps
<1>2. PICK q \in Pids :
        /\ image[q].state = "none"
        /\ image' = [image EXCEPT ![q] =
             [prog |-> "sh", c |-> TRUE, state |-> "starting",
              by |-> "system", parent |-> p, phase |-> lane[p][l].phase,
              alone |-> lane[p][l].alone]]
        /\ penv' = [penv EXCEPT ![q] = penv[p]]
        /\ libs' = [libs EXCEPT ![q] = penv[p].preload]
    BY DEF System
<1>3. /\ image'[q].by = "system" /\ image'[q].state = "starting"
      /\ image'[q].parent = p /\ image'[q].prog = "sh"
      /\ penv'[q] = penv[p] /\ libs'[q] = penv[p].preload
      /\ \A r \in Pids \ {q} : /\ image'[r] = image[r]
                               /\ penv'[r] = penv[r] /\ libs'[r] = libs[r]
    BY <1>2 DEF ProcessTypes, InheritInv
<1>4. libs' \in [Pids -> Preloads]
    <2>1. penv[p].preload \in Preloads
        BY DEF ProcessTypes, EnvRecord
    <2> QED BY <1>2, <2>1 DEF InheritInv
<1>5. /\ q # p /\ image[p].state # "none" /\ q # Root
      /\ p = Root => ~ Starts(p)
      /\ image[p].by # "system" /\ \A k \in Lanes : lane[q][k].next = "idle"
    BY <1>1, <1>2
       DEF BackInv, PutBack, InheritInv, RootStarts, ShellsWait, Starts
<1>6. RootStarts'
    BY <1>1, <1>3, <1>5, RootIsPid DEF InheritInv, RootStarts, OthersStay
<1>7. ASSUME NEW r \in Pids PROVE Inherits(r)'
    <2>1. CASE r # q
        <3>1. /\ image'[r] = image[r] /\ penv'[r] = penv[r]
              /\ libs'[r] = libs[r] /\ world' = world
            BY <1>1, <1>3, <2>1
        <3>2. Inherits(r)' <=> Inherits(r)
            BY <3>1 DEF Inherits, RestoredLibs, SameLibs, LeftOver,
                        FirstShell, Starts
        <3> QED BY <3>2 DEF InheritInv
    <2>2. CASE r = q
        <3>1. CASE "restore" \notin world.preload
            BY <1>1, <1>3, <1>5, <2>2, <3>1 DEF InheritInv, Inherits, SameLibs
        <3>2. CASE "restore" \in world.preload
            <4>1. RestoredLibs(p)
                BY <1>5, <3>2 DEF InheritInv, Inherits
            <4>2. FirstShell(q)' <=> p = Root
                BY <1>3 DEF FirstShell
            <4>3. Starts(q)' /\ ~ FirstShell(p)
                BY <1>3, <1>5 DEF FirstShell, Starts
            <4>4. LeftOver' = LeftOver
                BY <1>1 DEF LeftOver
            <4>5. RestoredLibs(q)'
                BY <1>3, <1>5, <4>1, <4>2, <4>3, <4>4 DEF RestoredLibs
            <4> QED BY <1>1, <2>2, <3>2, <4>5 DEF Inherits
        <3> QED BY <3>1, <3>2
    <2> QED BY <2>1, <2>2
<1>8. ShellsWait'
    BY <1>1, <1>3, <1>5 DEF InheritInv, ShellsWait, OthersStay
<1> QED BY <1>4, <1>6, <1>7, <1>8 DEF InheritInv

\* A program that starts restores the environment when ld_env_restore.so is
\* loaded in it.
LEMMA InheritStart ==
    ASSUME ProcessTypes, InheritInv, NEW p \in Pids, Start(p)
    PROVE  InheritInv'
<1>1. image[p].state = "starting" /\ UNCHANGED <<world, libs, lane>>
    BY DEF Start
<1>2. /\ image'[p].state = "running" /\ image'[p].by = image[p].by
      /\ image'[p].prog = image[p].prog /\ image'[p].c = image[p].c
      /\ image'[p].parent = image[p].parent
      /\ \A q \in Pids \ {p} : image'[q] = image[q]
    <2> DEFINE i == [image[p] EXCEPT !.state = "running"]
    <2>1. image[p] \in ImageRecord
        BY DEF ProcessTypes
    <2>2. /\ i.state = "running" /\ i.by = image[p].by
          /\ i.prog = image[p].prog /\ i.c = image[p].c
          /\ i.parent = image[p].parent
        BY <2>1, Zenon DEF ImageRecord
    <2>3. image' = [image EXCEPT ![p] = i]
        BY DEF Start
    <2> HIDE DEF i
    <2> QED BY <2>2, <2>3 DEF ProcessTypes
<1>3. \A q \in Pids \ {p} : penv'[q] = penv[q]
    BY DEF Start, ProcessTypes
<1>s. ShellsWait'
    BY <1>1, <1>2 DEF InheritInv, ShellsWait
<1>4. CASE "restore" \notin libs[p]
    <2>1. penv' = penv
        BY <1>4 DEF Start
    <2>2. p = Root => "restore" \notin world.preload
        BY <1>4 DEF InheritInv, RootStarts
    <2>3. RootStarts'
        BY <1>1, <1>2, RootIsPid DEF InheritInv, RootStarts
    <2>4. ASSUME NEW q \in Pids PROVE Inherits(q)'
        <3>1. CASE q # p
            BY <1>1, <1>2, <2>1, <3>1
               DEF InheritInv, Inherits, RestoredLibs, SameLibs, LeftOver,
                   FirstShell, Starts
        <3>2. CASE q = p /\ "restore" \notin world.preload
            BY <1>1, <1>2, <2>1, <3>2 DEF InheritInv, Inherits, SameLibs
        <3>3. CASE q = p /\ "restore" \in world.preload
            <4>1. RestoredLibs(p) /\ p # Root
                BY <1>1, <2>2, <3>3 DEF InheritInv, Inherits
            <4>2. /\ FirstShell(p)' = FirstShell(p) /\ LeftOver' = LeftOver
                  /\ libs'[p] = libs[p] /\ penv'[p] = penv[p]
                BY <1>1, <1>2, <2>1 DEF FirstShell, LeftOver
            <4>3. RestoredLibs(p)'
                BY <1>4, <4>1, <4>2 DEF RestoredLibs
            <4> QED BY <1>1, <3>3, <4>3 DEF Inherits
        <3> QED BY <3>1, <3>2, <3>3
    <2> QED BY <1>1, <1>s, <2>3, <2>4 DEF InheritInv
<1>5. CASE "restore" \in libs[p]
    <2> DEFINE e == Restored(penv[p])
    <2>1. penv' = [penv EXCEPT ![p] = e]
        BY <1>5 DEF Start
    <2>2. penv[p] \in EnvRecord
        BY DEF ProcessTypes
    <2>3. IF penv[p].old = NotSet
          THEN e.preload = {} /\ e.old = NotSet
          ELSE e.preload = penv[p].old /\ e.old = NotSet
        BY <2>2, Zenon DEF EnvRecord, Restored
    <2> HIDE DEF e
    <2>4. penv'[p] = e
        BY <2>1 DEF ProcessTypes
    <2>5. "restore" \in world.preload
        <3>1. CASE p = Root
            BY <1>5, <3>1 DEF InheritInv, RootStarts
        <3>2. CASE p # Root
            BY <1>1, <1>5 DEF InheritInv, Inherits, SameLibs
        <3> QED BY <3>1, <3>2
    <2>6. RootStarts'
        BY <1>1, <1>2, RootIsPid DEF InheritInv, RootStarts
    <2>7. ASSUME NEW q \in Pids PROVE Inherits(q)'
        <3>1. CASE q # p
            BY <1>1, <1>2, <1>3, <3>1
               DEF InheritInv, Inherits, RestoredLibs, SameLibs, LeftOver,
               FirstShell, Starts
        <3>2. CASE q = p
            BY <1>1, <1>2, <1>5, <2>3, <2>4, <2>5, <3>2
               DEF InheritInv, Inherits, RestoredLibs, LeftOver, FirstShell, Starts
        <3> QED BY <3>1, <3>2
    <2> QED BY <1>1, <1>s, <2>6, <2>7 DEF InheritInv
<1> QED BY <1>4, <1>5

\* A command ends.
LEMMA InheritEnds ==
    ASSUME ProcessTypes, InheritInv, NEW p \in Pids, Ends(p)
    PROVE  InheritInv'
<1>1. p # Root /\ image[p].state = "running"
      /\ UNCHANGED <<world, penv, libs, lane>>
    BY DEF Ends
<1>2. /\ image'[p].by = image[p].by
      /\ image'[p].state = "ended"
      /\ image'[p].prog = image[p].prog /\ image'[p].c = image[p].c
      /\ image'[p].parent = image[p].parent
      /\ \A q \in Pids \ {p} : image'[q] = image[q]
    <2> DEFINE i == [image[p] EXCEPT !.state = "ended"]
    <2>1. image[p] \in ImageRecord
        BY DEF ProcessTypes
    <2>2. /\ i.by = image[p].by
          /\ i.state = "ended"
          /\ i.prog = image[p].prog /\ i.c = image[p].c
          /\ i.parent = image[p].parent
        BY <2>1, Zenon DEF ImageRecord
    <2>3. image' = [image EXCEPT ![p] = i]
        BY DEF Ends
    <2> HIDE DEF i
    <2> QED BY <2>2, <2>3 DEF ProcessTypes
<1>3. RootStarts'
    BY <1>1, <1>2, RootIsPid DEF InheritInv, RootStarts
<1>4. ASSUME NEW q \in Pids PROVE Inherits(q)'
    BY <1>1, <1>2
       DEF InheritInv, Inherits, RestoredLibs, SameLibs, LeftOver,
               FirstShell, Starts
<1>5. ShellsWait'
    BY <1>1, <1>2 DEF InheritInv, ShellsWait
<1> QED BY <1>1, <1>3, <1>4, <1>5 DEF InheritInv

\* A program that another executes is loaded with what the environment asks for
\* by then, and is no shell that dontcallshell.so knows.
LEMMA InheritExec ==
    ASSUME ProcessTypes, InheritInv, NEW p \in Pids,
           ShellRuns(p) \/ Exec(p)
    PROVE  InheritInv'
<1>1. image[p].state = "running" /\ p # Root
    BY DEF ShellRuns, Exec, IsProg, InheritInv, RootStarts
<1>2. PICK file, c : Executes(p, file, c)
    BY Zenon DEF ShellRuns, Exec
<1> DEFINE g == IF "dontcallshell" \in libs[p]
                THEN Replaced(file, c) ELSE file
           i == [image[p] EXCEPT !.prog = g, !.c = c, !.state = "starting",
                                 !.by = "exec"]
<1>3. /\ image' = [image EXCEPT ![p] = i]
      /\ libs' = [libs EXCEPT ![p] = penv[p].preload]
      /\ UNCHANGED <<world, penv, lane>>
    BY <1>2 DEF Executes
<1>4. "dontcallshell" \in libs[p] => ~ (g \in Listed /\ c)
    BY DEF Replaced, Listed
<1> HIDE DEF g
<1>5. i.prog = g /\ i.c = c /\ i.by = "exec"
    <2>1. image[p] \in ImageRecord
        BY DEF ProcessTypes
    <2> QED BY <2>1, Zenon DEF ImageRecord
<1> HIDE DEF i
<1>6. /\ image'[p] = i /\ libs'[p] = penv[p].preload
      /\ \A q \in Pids \ {p} : image'[q] = image[q] /\ libs'[q] = libs[q]
    BY <1>3 DEF ProcessTypes, InheritInv
<1>7. libs' \in [Pids -> Preloads]
    <2>1. penv[p].preload \in Preloads
        BY DEF ProcessTypes, EnvRecord
    <2> QED BY <1>3, <2>1 DEF InheritInv
<1>8. RootStarts'
    BY <1>1, <1>3, <1>6, RootIsPid DEF InheritInv, RootStarts
<1>w. ShellsWait'
    BY <1>3, <1>5, <1>6 DEF InheritInv, ShellsWait
<1>9. ASSUME NEW q \in Pids PROVE Inherits(q)'
    <2>1. CASE q # p
        BY <1>3, <1>6, <2>1
           DEF InheritInv, Inherits, RestoredLibs, SameLibs, LeftOver,
               FirstShell, Starts
    <2>2. CASE q = p
        <3>1. CASE "restore" \in world.preload
            BY <1>1, <1>3, <1>5, <1>6, <2>2, <3>1
               DEF InheritInv, Inherits, RestoredLibs, LeftOver, FirstShell, Starts
        <3>2. CASE "restore" \notin world.preload
            BY <1>1, <1>3, <1>4, <1>5, <1>6, <2>2, <3>2
               DEF InheritInv, Inherits, SameLibs
        <3> QED BY <3>1, <3>2
    <2> QED BY <2>1, <2>2
<1> QED BY <1>7, <1>8, <1>9, <1>w DEF InheritInv

\* Every step keeps what is inherited.
LEMMA InheritStep ==
    ASSUME ProcessTypes, BackInv, InheritInv,
           ProcessesNext \/ UNCHANGED processVars
    PROVE  InheritInv'
<1>1. CASE UNCHANGED processVars
    BY <1>1 DEF processVars, InheritInv, RootStarts, ShellsWait, Inherits,
                RestoredLibs, SameLibs, LeftOver, FirstShell, Starts
<1>2. ASSUME NEW p \in Pids, ImageStep(p) PROVE InheritInv'
    BY <1>2, InheritStart, InheritExec, InheritEnds DEF ImageStep
<1> QED BY <1>1, <1>2, StepKinds, InheritHook, InheritSystem, Zenon

\* The first program begins with what its environment asks for.
LEMMA InitInherits == ProcessesInit => InheritInv
<1> SUFFICES ASSUME ProcessesInit PROVE InheritInv
    OBVIOUS
<1>1. ProcessTypes
    BY InitTypes
<1>2. libs \in [Pids -> Preloads]
    <2>1. world.preload \in Preloads /\ {} \in Preloads
        BY <1>1 DEF ProcessTypes, World, Preloads
    <2> QED BY <2>1 DEF ProcessesInit
<1>3. /\ image[Root].by = "none" /\ image[Root].state = "starting"
      /\ \A p \in Pids \ {Root} : image[p].state = "none"
    BY RootIsPid DEF ProcessesInit, NoImage
<1>4. libs[Root] = world.preload
      /\ penv[Root].preload = world.preload /\ penv[Root].old = world.old
    BY RootIsPid DEF ProcessesInit, EnvOf
<1>5. \A k \in Lanes : lane[Root][k].next = "idle"
    BY RootIsPid DEF ProcessesInit, Calm
<1>6. ShellsWait
    BY DEF ProcessesInit, NoImage, ShellsWait
<1> QED BY <1>2, <1>3, <1>4, <1>5, <1>6
        DEF InheritInv, RootStarts, Inherits, RestoredLibs, SameLibs, Starts

\* Whatever the programs, shells and commands below the first one: with
\* ld_env_restore.so they are loaded with the libraries that were there before
\* it, or, if that is among these again, the first shell with these and what it
\* brings about with none; without it with those of the first, and then none of
\* them executes a shell by a name that dontcallshell.so knows.
THEOREM CommandsInherit == Spec => []LibrariesInherited
<1>1. Init => InheritInv
    BY InitInherits DEF Init
<1>2. ProcessTypes /\ BackInv /\ InheritInv /\ [Next]_vars => InheritInv'
    BY ProcessStep, InheritStep
<1>3. InheritInv => LibrariesInherited
    BY DEF InheritInv, Inherits, RestoredLibs, SameLibs, LeftOver,
               FirstShell, Starts,
           LibrariesInherited
<1> QED BY <1>1, <1>2, <1>3, BackSpec, PTL DEF Spec

-----------------------------------------------------------------------------
(* The libraries of paths *)

Marks == Tokens \cup {"gone"}
Paths == Seq(Marks)
EntryRecord == [ino : 0..MaxIno, to : Absolute \cup {NoPath}]
FileSteps == {"idle", "open", "mounts", "realpath", "decide", "call",
              "fstatat", "atdir", "unlink", "log", "returned", "exited"}
WorkRecord == [call : Call \cup {NoCall}, next : FileSteps, real : Paths,
               ino : 0..MaxIno, atdir : Paths, was : EntryRecord,
               stale : BOOLEAN]

FileTypes ==
    /\ prog \in Prog /\ prog \in Progs
    /\ at \in [Dirs -> Absolute \cup {Removed}]
    /\ entry \in [Dirs -> [Names -> EntryRecord]]
    /\ mounts \in Seq(Mounts)
    /\ work \in [Openers -> WorkRecord]
    /\ DOMAIN log = Openers /\ unsaid \subseteq Openers

\* No two directories are in one place, and one that was removed is empty.
Placed ==
    /\ \A d, e \in Dirs : at[d] = at[e] /\ at[d] # Removed => d = e
    /\ \A d \in Dirs, n \in Names : at[d] = Removed => entry[d][n] = NoEntry

Excused(t) == work[t].stale \/ work[t].was.to # NoPath

\* What xdev.so has found out, unless something has changed meanwhile.
Found(t) ==
    \A p \in {From(prog.cwd, work[t].call.path)} : work[t].real = Real(p)
Allowed(t) ==
    \A p \in {work[t].real} :
        Rewritten(MountsFile) = MountsFile => ~ Denies(p, mounts)

\* What saveunlinkedinode.so has found out.
PathsOf(t) == {From(work[t].call.dir, work[t].call.path)}
InodeOf(t) ==
    \A p \in PathsOf(t) : \A q \in {Real(p)} : work[t].ino = EntryAt(q).ino
DirOf(t) ==
    LET w == work[t] IN
    /\ w.atdir # NoPath =>
          /\ ~ w.call.rmdir
          /\ w.stale \/ (InodeOf(t) /\ w.atdir = at[w.call.dir])
    /\ w.atdir = NoPath =>
          \/ w.stale \/ w.call.rmdir \/ "readlink" \in prog.faults
          \/ \A p \in PathsOf(t) : Real(p) = NoPath

\* The line that is to be written is right, and the line that was.
LineOf(t) ==
    LET w == work[t] IN
    Excused(t) \/
        /\ w.ino = w.was.ino /\ w.was # NoEntry
        /\ Head(w.call.path) = "/" \/ Slash(w.atdir, w.call.path) = w.real
LineOk(t) ==
    LET w == work[t] IN
    Excused(t) \/
        /\ log[t].ino = w.was.ino /\ w.was # NoEntry
        /\ Head(w.call.path) = "/" \/ log[t].path = w.real
Unwritten(t) ==
    Excused(t) \/ work[t].call.rmdir \/ "readlink" \in prog.faults

WorkOk(t) ==
    LET w == work[t] IN
    /\ w.next \notin {"idle", "exited"} => w.call \in prog.calls
    /\ w.next \in {"idle", "exited"} => w.call = NoCall
    /\ w.next \in {"fstatat", "atdir"} => w.atdir = NoPath
    /\ w.next = "decide" => w.real # NoPath /\ (w.stale \/ Found(t))
    /\ w.next = "call" =>
          w.stale \/ w.real = NoPath \/ (Found(t) /\ Allowed(t))
    /\ w.next = "atdir" => ~ w.call.rmdir /\ (w.stale \/ InodeOf(t))
    /\ w.next = "unlink" => DirOf(t)
    /\ w.next = "log" => w.atdir # NoPath /\ LineOf(t)
    /\ log[t] # NoLine => w.next = "returned" /\ LineOk(t)
    /\ t \in unsaid => w.next = "returned" /\ Unwritten(t)

FileInv == FileTypes /\ Placed /\ \A t \in Openers : WorkOk(t)

\* What paths mean while directories and entries stay.
LEMMA EntryStays ==
    ASSUME NEW p, UNCHANGED <<at, entry>>
    PROVE  EntryAt(p)' = EntryAt(p)
BY DEF EntryAt, Slash

LEMMA RealStays ==
    ASSUME NEW p, UNCHANGED <<at, entry>>
    PROVE  Real(p)' = Real(p)
<1>1. EntryAt(p)' = EntryAt(p)
    BY EntryStays
<1>2. ASSUME NEW q
      PROVE  Exists(q)' = Exists(q)
    <2>1. EntryAt(q)' = EntryAt(q)
        BY EntryStays
    <2> QED BY <2>1 DEF Exists
<1> QED BY <1>1, <1>2 DEF Real

LEMMA RewriteStays ==
    ASSUME NEW p, UNCHANGED prog
    PROVE  /\ Rewritten(p)' = Rewritten(p)
           /\ Opens(p)' = Opens(p)
<1>1. Rewritten(p)' = Rewritten(p)
    BY DEF Rewritten
<1> QED BY <1>1 DEF Opens

LEMMA DeniesStays ==
    ASSUME NEW p, UNCHANGED mounts
    PROVE  Denies(p, mounts)' = Denies(p, mounts)
BY DEF Denies

\* Paths are paths.
LEMMA PathsTyped ==
    ASSUME FileTypes
    PROVE  /\ Seq(Tokens) \subseteq Paths /\ Absolute \subseteq Paths
           /\ NoPath \in Paths /\ Removed \in Paths /\ Removed # NoPath
           /\ \A d \in Dirs : at[d] \in Paths /\ at[d] # NoPath
           /\ \A n \in Names : n \in Seq(Tokens)
<1>1. Seq(Tokens) \subseteq Paths
    <2> SUFFICES ASSUME NEW s \in Seq(Tokens)
                 PROVE  s \in Seq(Marks)
        BY DEF Paths
    <2>1. Tokens \subseteq Marks
        BY DEF Marks
    <2>2. s \in [1..Len(s) -> Marks] /\ Len(s) \in Nat
        BY <2>1
    <2> QED BY <2>2
<1>2. Removed \in Paths
    <2>1. "gone" \in Marks
        BY DEF Marks
    <2> HIDE DEF Marks
    <2> QED BY <2>1 DEF Removed, Paths
<1>3. Removed # NoPath
    BY DEF Removed, NoPath
<1>4. Absolute \subseteq Seq(Tokens) /\ NoPath \notin Absolute
    BY DEF Absolute
<1>5. NoPath \in Seq(Tokens)
    BY DEF NoPath
<1> QED BY <1>1, <1>2, <1>3, <1>4, <1>5, FileCallsAssumption DEF FileTypes

LEMMA SlashTyped ==
    ASSUME NEW p \in Paths, NEW q \in Paths
    PROVE  /\ Slash(p, q) \in Paths /\ Slash(p, q) # NoPath
           /\ Len(Slash(p, q)) = Len(p) + 1 + Len(q)
           /\ p # NoPath => Head(Slash(p, q)) = Head(p)
<1>1. <<"/">> \in Seq(Marks)
    BY FileCallsAssumption DEF Marks
<1> QED BY <1>1 DEF Slash, Paths, NoPath

\* An entry that is there is some directory's.
LEMMA EntryThere ==
    ASSUME FileTypes, NEW p
    PROVE  /\ EntryAt(p) \in EntryRecord
           /\ EntryAt(p) # NoEntry =>
                 \E d \in Dirs, n \in Names :
                     Slash(at[d], n) = p /\ EntryAt(p) = entry[d][n]
<1> DEFINE here == {dn \in Dirs \X Names : Slash(at[dn[1]], dn[2]) = p}
<1>1. CASE here = {}
    <2>1. EntryAt(p) = NoEntry
        BY <1>1 DEF EntryAt
    <2>2. NoEntry \in EntryRecord
        BY FileCallsAssumption DEF NoEntry, EntryRecord
    <2> QED BY <2>1, <2>2
<1>2. CASE here # {}
    <2>1. PICK dn \in here : dn = CHOOSE x \in here : TRUE
        BY <1>2
    <2>2. EntryAt(p) = entry[dn[1]][dn[2]]
        BY <1>2, <2>1 DEF EntryAt
    <2>3. dn[1] \in Dirs /\ dn[2] \in Names /\ Slash(at[dn[1]], dn[2]) = p
        BY <2>1
    <2> QED BY <2>2, <2>3 DEF FileTypes
<1> QED BY <1>1, <1>2

\* A file that is no link is where its path is.
LEMMA RealOfFile ==
    ASSUME FileTypes, NEW p, EntryAt(p) # NoEntry, EntryAt(p).to = NoPath
    PROVE  Real(p) = p /\ p # NoPath
<1>1. PICK d \in Dirs, n \in Names : Slash(at[d], n) = p
    BY EntryThere
<1>2. p # NoPath
    BY <1>1, PathsTyped, SlashTyped
<1> QED BY <1>2 DEF Real, Exists

LEMMA RealTyped ==
    ASSUME FileTypes, NEW p \in Paths
    PROVE  Real(p) \in Paths
<1>1. EntryAt(p) \in EntryRecord
    BY EntryThere
<1>2. EntryAt(p).to \in Absolute \cup {NoPath}
    BY <1>1, Zenon DEF EntryRecord
<1> QED BY <1>2, PathsTyped DEF Real

\* A path that leads somewhere is absolute: nothing is left where a directory
\* was.
LEMMA RealAbsolute ==
    ASSUME FileTypes, Placed, NEW d \in Dirs, NEW s \in Seq(Tokens),
           s # NoPath, NEW p, p = From(d, s), Real(p) # NoPath
    PROVE  Real(p) # NoPath /\ Head(Real(p)) = "/"
<1>1. EntryAt(p) \in EntryRecord
    BY EntryThere
<1>2. EntryAt(p).to \in Absolute \cup {NoPath}
    BY <1>1, Zenon DEF EntryRecord
<1>3. CASE EntryAt(p).to # NoPath
    BY <1>2, <1>3 DEF Real, Absolute
<1>4. CASE EntryAt(p).to = NoPath
    <2>1. Real(p) = p /\ Exists(p)
        BY <1>4 DEF Real
    <2>2. CASE Head(s) = "/"
        BY <2>1, <2>2 DEF From
    <2>3. CASE Head(s) # "/"
        <3>1. p = Slash(at[d], s)
            BY <2>3 DEF From
        <3>2. at[d] \in Absolute \cup {Removed}
            BY DEF FileTypes
        <3>3. CASE at[d] \in Absolute
            <4>1. Head(at[d]) = "/"
                BY <3>3 DEF Absolute
            <4>2. at[d] \in Paths /\ at[d] # NoPath /\ s \in Paths
                BY PathsTyped
            <4>3. Head(p) = Head(at[d])
                BY <3>1, <4>2, SlashTyped
            <4> QED BY <2>1, <4>1, <4>3
        <3>4. CASE at[d] = Removed
            <4>1. Head(p) = "gone" /\ Len(p) > 1
                <5>1. Head(Removed) = "gone" /\ Len(Removed) = 1
                    BY DEF Removed
                <5>2. Len(s) \in Nat
                    OBVIOUS
                <5>3. /\ Removed \in Paths /\ Removed # NoPath
                      /\ s \in Paths
                    BY PathsTyped
                <5>4. /\ Head(p) = Head(Removed)
                      /\ Len(p) = Len(Removed) + 1 + Len(s)
                    BY <3>1, <3>4, <5>3, SlashTyped
                <5> QED BY <5>1, <5>2, <5>4
            <4>2. ASSUME NEW e \in Dirs, Head(at[e]) = "gone"
                  PROVE  at[e] = Removed
                BY <4>2 DEF FileTypes, Absolute
            <4>3. ASSUME NEW e \in Dirs
                  PROVE  at[e] # p
                <5> SUFFICES ASSUME at[e] = p
                             PROVE  FALSE
                    OBVIOUS
                <5>1. Head(at[e]) = "gone"
                    BY <4>1
                <5>2. p = Removed
                    BY <4>2, <5>1
                <5>3. Len(Removed) = 1
                    BY DEF Removed
                <5> QED BY <4>1, <5>2, <5>3
            <4>4. PICK e \in Dirs, n \in Names :
                      Slash(at[e], n) = p /\ EntryAt(p) = entry[e][n]
                BY <2>1, <4>3, EntryThere DEF Exists
            <4>5. Head(at[e]) = "gone"
                BY <4>1, <4>4, PathsTyped, SlashTyped
            <4>6. EntryAt(p) = NoEntry
                BY <4>2, <4>4, <4>5 DEF Placed
            <4> QED BY <2>1, <4>3, <4>6 DEF Exists
        <3> QED BY <3>2, <3>3, <3>4
    <2> QED BY <2>2, <2>3
<1> QED BY <1>3, <1>4

\* What lies below a mount point begins with its path.
LEMMA BelowBegins ==
    ASSUME NEW p \in Paths, p # NoPath, Head(p) = "/",
           NEW m \in Seq(Tokens), Below(p, m)
    PROVE  IsPrefix(m, p)
<1>1. CASE m = <<"/">>
    BY <1>1 DEF IsPrefix, NoPath, Paths
<1>2. CASE p = m
    BY <1>2 DEF IsPrefix
<1>3. CASE IsPrefix(Slash(m, <<>>), p)
    <2>1. Slash(m, <<>>) = m \o <<"/">>
        BY FileCallsAssumption DEF Slash
    <2> QED BY <1>3, <2>1, FileCallsAssumption DEF IsPrefix, Paths
<1> QED BY <1>1, <1>2, <1>3 DEF Below

\* A path on a network file system is denied: the last mount point that it is
\* below is one of those that it begins with.
LEMMA NetworkDenied ==
    ASSUME FileTypes, NEW p \in Paths, p # NoPath, Head(p) = "/", OnNetwork(p)
    PROVE  Denies(p, mounts)
<1> DEFINE ms == {i \in DOMAIN mounts : Below(p, mounts[i].at)}
<1>1. ms # {} /\ mounts[CHOOSE i \in ms : \A j \in ms : j <= i].net
    BY DEF OnNetwork
<1>2. mounts \in Seq(Mounts)
    BY DEF FileTypes
<1>3. ms \in SUBSET Nat /\ \A i \in ms : i <= Len(mounts)
    BY <1>2
<1>4. \E i \in ms : \A j \in ms : i >= j
    <2>1. Len(mounts) \in Nat
        BY <1>2
    <2> HIDE DEF ms
    <2> QED BY <1>1, <1>3, <2>1, GreatestNatural
<1>5. PICK i \in ms : mounts[i].net
    <2>1. \E i \in ms : \A j \in ms : j <= i
        <3>1. PICK i \in ms : \A j \in ms : i >= j
            BY <1>4
        <3> HIDE DEF ms
        <3>2. \A j \in ms : j <= i
            BY <1>3, <3>1
        <3> QED BY <3>2
    <2>2. (CHOOSE i \in ms : \A j \in ms : j <= i) \in ms
        BY <2>1
    <2> QED BY <1>1, <2>2
<1>6. i \in DOMAIN mounts /\ Below(p, mounts[i].at)
    BY <1>5
<1>7. mounts[i] \in Mounts
    BY <1>2, <1>6
<1>8. mounts[i].at \in Seq(Tokens)
    BY <1>7 DEF Mounts
<1>9. IsPrefix(mounts[i].at, p)
    BY <1>6, <1>8, BelowBegins
<1> QED BY <1>5, <1>6, <1>9 DEF Denies

\* What is called is on no network file system, but for the exceptions.
LEMMA RefusedHolds == FileInv => NetworkRefused
<1> SUFFICES ASSUME FileInv, NEW t \in Openers, work[t].next = "call",
                    OnNetwork(Target(work[t].call)), ~ work[t].stale,
                    \/ work[t].call.dir = prog.cwd
                    \/ Head(work[t].call.path) = "/",
                    work[t].real # NoPath,
                    \/ work[t].call.op # "lstat"
                    \/ EntryAt(From(work[t].call.dir, work[t].call.path)).to
                       = NoPath,
                    Rewritten(MountsFile) = MountsFile
             PROVE  FALSE
    BY DEF NetworkRefused
<1>1. FileTypes /\ Placed /\ WorkOk(t)
    BY DEF FileInv
<1>2. PICK c : c = work[t].call
    OBVIOUS
<1>3. c \in Call /\ prog.cwd \in Dirs
    <2>1. c \in prog.calls
        BY <1>1, <1>2 DEF WorkOk
    <2>2. prog \in Prog
        BY <1>1 DEF FileTypes
    <2>3. prog.calls \subseteq Call /\ prog.cwd \in Dirs
        BY <2>2, Zenon DEF Prog
    <2> QED BY <2>1, <2>3
<1>4. c.dir \in Dirs /\ c.path \in Seq(Tokens) /\ c.path # NoPath
    BY <1>3, Zenon DEF Call
<1>5. PICK p : p = From(prog.cwd, c.path)
    OBVIOUS
<1>6. From(c.dir, c.path) = p
    BY <1>2, <1>5 DEF From
<1>7. work[t].real = Real(p) /\ ~ Denies(Real(p), mounts)
    BY <1>1, <1>2, <1>5 DEF WorkOk, Found, Allowed
<1>8. Real(p) # NoPath /\ Head(Real(p)) = "/"
    BY <1>1, <1>3, <1>4, <1>5, <1>7, RealAbsolute
<1>9. Target(c) = Real(p)
    <2>1. EntryAt(p).to = NoPath => Real(p) = p
        BY <1>8 DEF Real
    <2> QED BY <1>2, <1>6, <1>8, <2>1 DEF Target
<1>10. Real(p) \in Paths
    <2>1. p \in Paths
        <3>1. at[prog.cwd] \in Paths /\ c.path \in Paths
            BY <1>1, <1>3, <1>4, PathsTyped
        <3> QED BY <1>5, <3>1, SlashTyped DEF From
    <2> QED BY <1>1, <2>1, RealTyped
<1> QED BY <1>1, <1>2, <1>7, <1>8, <1>9, <1>10, NetworkDenied

\* A line of the log tells what was removed, but for the exceptions.
LEMMA LogHolds == FileInv => LogTellsRemoved
BY DEF FileInv, WorkOk, LineOk, Unwritten, Excused, LogTellsRemoved

LEMMA FilesTyped == FileInv => FilesTypeOK
<1> SUFFICES ASSUME FileInv
             PROVE  FilesTypeOK
    OBVIOUS
<1>1. ASSUME NEW d \in Dirs, NEW n \in Names
      PROVE  entry[d][n].ino \in 0..MaxIno
    <2>1. entry[d][n] \in EntryRecord
        BY DEF FileInv, FileTypes
    <2> QED BY <2>1, Zenon DEF EntryRecord
<1>2. ASSUME NEW t \in Openers
      PROVE  /\ work[t].next \in FileSteps
             /\ work[t].call \in prog.calls \cup {NoCall}
             /\ work[t].next = "log" => work[t].atdir # NoPath
    <2>1. work[t] \in WorkRecord
        BY DEF FileInv, FileTypes
    <2>2. work[t].next \in FileSteps
        BY <2>1, Zenon DEF WorkRecord
    <2> QED BY <2>2 DEF FileInv, WorkOk
<1> QED BY <1>1, <1>2 DEF FilesTypeOK, FileSteps, FileInv, FileTypes

-----------------------------------------------------------------------------
(* What a step does to the calls of the threads *)

\* A thread moves, the others stay.
LEMMA WorkMoves ==
    ASSUME FileTypes, NEW t \in Openers, NEW r \in WorkRecord,
           work' = [work EXCEPT ![t] = r]
    PROVE  /\ work' \in [Openers -> WorkRecord]
           /\ work'[t] = r
           /\ \A u \in Openers : u # t => work'[u] = work[u]
BY DEF FileTypes

\* A thread goes on with what it knows.
LEMMA GoesMoves ==
    ASSUME FileTypes, NEW t \in Openers, NEW x \in FileSteps, Goes(t, x)
    PROVE  /\ work' \in [Openers -> WorkRecord]
           /\ work'[t] = [work[t] EXCEPT !.next = x]
           /\ \A u \in Openers : u # t => work'[u] = work[u]
<1>1. work[t] \in WorkRecord
    BY DEF FileTypes
<1>2. [work[t] EXCEPT !.next = x] \in WorkRecord
    BY <1>1, Zenon DEF WorkRecord
<1>3. work' = [work EXCEPT ![t] = [work[t] EXCEPT !.next = x]]
    BY DEF Goes
<1> QED BY <1>2, <1>3, WorkMoves

\* Of a call that does not move, everything stays.
LEMMA CallStays ==
    ASSUME NEW u \in Openers, UNCHANGED <<prog, at, entry, mounts>>,
           work'[u] = work[u], log'[u] = log[u],
           u \in unsaid' <=> u \in unsaid, WorkOk(u)
    PROVE  WorkOk(u)'
<1>1. UNCHANGED <<prog, at, entry, mounts, work[u], log[u]>>
    OBVIOUS
<1>2. PathsOf(u)' = PathsOf(u)
    BY <1>1 DEF PathsOf, From, Slash
<1>3. Found(u)' <=> Found(u)
    <2>1. From(prog.cwd, work[u].call.path)'
          = From(prog.cwd, work[u].call.path)
        BY <1>1 DEF From, Slash
    <2>2. \A p : Real(p)' = Real(p)
        BY <1>1, RealStays
    <2> QED BY <1>1, <2>1, <2>2 DEF Found
<1>4. Allowed(u)' <=> Allowed(u)
    <2>1. \A p : Denies(p, mounts)' <=> Denies(p, mounts)
        BY <1>1, DeniesStays
    <2>2. Rewritten(MountsFile)' = Rewritten(MountsFile)
        BY <1>1, RewriteStays
    <2> QED BY <1>1, <2>1, <2>2 DEF Allowed
<1>5. InodeOf(u)' <=> InodeOf(u)
    <2>1. \A p : Real(p)' = Real(p)
        BY <1>1, RealStays
    <2>2. \A q : EntryAt(q)' = EntryAt(q)
        BY <1>1, EntryStays
    <2> QED BY <1>1, <1>2, <2>1, <2>2 DEF InodeOf
<1>6. DirOf(u)' <=> DirOf(u)
    <2>1. \A p : Real(p)' = Real(p)
        BY <1>1, RealStays
    <2> QED BY <1>1, <1>2, <1>5, <2>1 DEF DirOf
<1>7. /\ LineOf(u)' <=> LineOf(u)
      /\ LineOk(u)' <=> LineOk(u)
      /\ Unwritten(u)' <=> Unwritten(u)
    BY <1>1 DEF LineOf, LineOk, Unwritten, Excused, Slash
<1> QED BY <1>1, <1>3, <1>4, <1>5, <1>6, <1>7 DEF WorkOk

\* A call that somebody has disturbed is excused.
LEMMA DisturbedStays ==
    ASSUME FileTypes, NEW u \in Openers, UNCHANGED prog,
           IF work[u].next \in {"idle", "returned"} THEN work'[u] = work[u]
           ELSE work'[u] = [work[u] EXCEPT !.stale = TRUE],
           log'[u] = log[u], u \in unsaid' <=> u \in unsaid, WorkOk(u)
    PROVE  work'[u] \in WorkRecord /\ WorkOk(u)'
<1>0. work[u] \in WorkRecord
    BY DEF FileTypes
<1>1. CASE work[u].next \in {"idle", "returned"}
    <2>1. UNCHANGED <<prog, work[u], log[u]>>
        BY <1>1
    <2>2. /\ LineOk(u)' <=> LineOk(u)
          /\ Unwritten(u)' <=> Unwritten(u)
        BY <2>1 DEF LineOk, Unwritten, Excused
    <2> QED BY <1>0, <1>1, <2>1, <2>2 DEF WorkOk
<1>2. CASE work[u].next \notin {"idle", "returned"}
    <2>1. work'[u] = [work[u] EXCEPT !.stale = TRUE]
        BY <1>2
    <2>2. work'[u] \in WorkRecord
        BY <1>0, <2>1, Zenon DEF WorkRecord
    <2>3. /\ work'[u].stale
          /\ work'[u].next = work[u].next /\ work'[u].call = work[u].call
          /\ work'[u].atdir = work[u].atdir /\ work'[u].real = work[u].real
        BY <1>0, <2>1, Zenon DEF WorkRecord
    <2>4. log'[u] = NoLine /\ u \notin unsaid'
        BY <1>2 DEF WorkOk
    <2>5. DirOf(u) => DirOf(u)'
        BY <2>3 DEF DirOf
    <2>6. LineOf(u)'
        BY <2>3 DEF LineOf, Excused
    <2> QED BY <2>2, <2>3, <2>4, <2>5, <2>6 DEF WorkOk
<1> QED BY <1>1, <1>2

\* It is enough to look at the thread that moves.
LEMMA OwnStep ==
    ASSUME FileInv, NEW t \in Openers, UNCHANGED <<prog, at, entry, mounts>>,
           work' \in [Openers -> WorkRecord],
           DOMAIN log' = Openers, unsaid' \subseteq Openers,
           \A u \in Openers : u # t =>
               /\ work'[u] = work[u] /\ log'[u] = log[u]
               /\ u \in unsaid' <=> u \in unsaid,
           WorkOk(t)'
    PROVE  FileInv'
<1>1. FileTypes'
    BY DEF FileInv, FileTypes
<1>2. Placed'
    BY DEF FileInv, Placed
<1>3. ASSUME NEW u \in Openers, u # t
      PROVE  WorkOk(u)'
    BY <1>3, CallStays DEF FileInv
<1> QED BY <1>1, <1>2, <1>3 DEF FileInv

\* When nothing is written either, it is enough to look at its call.
LEMMA QuietCall ==
    ASSUME FileInv, NEW t \in Openers, NEW r \in WorkRecord,
           work' = [work EXCEPT ![t] = r],
           UNCHANGED <<prog, at, entry, mounts, log, unsaid>>, WorkOk(t)'
    PROVE  FileInv'
<1>1. FileTypes
    BY DEF FileInv
<1>2. /\ work' \in [Openers -> WorkRecord]
      /\ \A u \in Openers : u # t => work'[u] = work[u]
    BY <1>1, WorkMoves
<1>3. DOMAIN log' = Openers /\ unsaid' \subseteq Openers
    BY <1>1 DEF FileTypes
<1> QED BY <1>2, <1>3, OwnStep

\* A call that does not return has written nothing yet.
LEMMA NothingSaid ==
    ASSUME FileInv, NEW t \in Openers, work[t].next # "returned"
    PROVE  log[t] = NoLine /\ t \notin unsaid
BY DEF FileInv, WorkOk

LEMMA RestTyped ==
    ASSUME FileTypes
    PROVE  Rest \in WorkRecord /\ NoEntry \in EntryRecord
<1>1. NoEntry \in EntryRecord /\ 0 \in 0..MaxIno
    BY FileCallsAssumption DEF NoEntry, EntryRecord
<1>2. NoPath \in Paths
    BY PathsTyped
<1> QED BY <1>1, <1>2, SMT DEF Rest, WorkRecord, FileSteps

\* What a call is.
LEMMA CallTyped ==
    ASSUME FileInv, NEW t \in Openers, work[t].next \notin {"idle", "exited"}
    PROVE  /\ work[t] \in WorkRecord /\ work[t].call \in prog.calls
           /\ work[t].call.dir \in Dirs /\ work[t].call.rmdir \in BOOLEAN
           /\ work[t].call.path \in Seq(Tokens) /\ work[t].call.path # NoPath
           /\ prog.cwd \in Dirs /\ prog.to \in Seq(Tokens)
           /\ From(work[t].call.dir, work[t].call.path) \in Paths
           /\ From(prog.cwd, work[t].call.path) \in Paths
<1>1. FileTypes /\ WorkOk(t)
    BY DEF FileInv
<1>2. prog \in Prog
    BY <1>1 DEF FileTypes
<1>3. /\ prog.calls \subseteq Call /\ prog.cwd \in Dirs
      /\ prog.to \in Seq(Tokens)
    BY <1>2, Zenon DEF Prog
<1>4. PICK c : c = work[t].call
    OBVIOUS
<1>5. c \in prog.calls /\ c \in Call
    BY <1>1, <1>3, <1>4 DEF WorkOk
<1>6. /\ c.dir \in Dirs /\ c.rmdir \in BOOLEAN
      /\ c.path \in Seq(Tokens) /\ c.path # NoPath
    BY <1>5, Zenon DEF Call
<1>7. ASSUME NEW d \in Dirs
      PROVE  From(d, c.path) \in Paths
    <2>1. at[d] \in Paths /\ c.path \in Paths
        BY <1>1, <1>6, PathsTyped
    <2> QED BY <2>1, SlashTyped DEF From
<1>8. work[t] \in WorkRecord
    BY <1>1 DEF FileTypes
<1> QED BY <1>3, <1>4, <1>5, <1>6, <1>7, <1>8

-----------------------------------------------------------------------------
(* The steps of a call that change nothing of the file system *)

LEMMA CallBeginsKeeps ==
    ASSUME FileInv, NEW t \in Openers, CallBegins(t)
    PROVE  FileInv'
<1>1. PICK c \in prog.calls :
         work' = [work EXCEPT ![t] =
             [Rest EXCEPT !.call = c,
                          !.next = CASE c.op = "open" -> "open"
                                     [] c.op = "unlinkat" -> "fstatat"
                                     [] OTHER -> "mounts"]]
    BY DEF CallBegins
<1>2. PICK x \in {"open", "fstatat", "mounts"} :
         work' = [work EXCEPT ![t] = [Rest EXCEPT !.call = c, !.next = x]]
    BY <1>1
<1>3. Rest \in WorkRecord /\ FileTypes
    BY RestTyped DEF FileInv
<1>4. c \in Call
    <2>1. prog \in Prog
        BY <1>3 DEF FileTypes
    <2> QED BY <2>1, Zenon DEF Prog
<1>5. [Rest EXCEPT !.call = c, !.next = x] \in WorkRecord
    <2>1. x \in FileSteps /\ c \in Call \cup {NoCall}
        BY <1>4 DEF FileSteps
    <2> QED BY <1>3, <2>1, Zenon DEF WorkRecord
<1>6. work'[t] = [Rest EXCEPT !.call = c, !.next = x]
    BY <1>2, <1>3, <1>5, WorkMoves
<1>7. /\ work'[t].next = x /\ work'[t].call = c /\ work'[t].atdir = NoPath
    BY <1>6 DEF Rest
<1>8. log'[t] = NoLine /\ t \notin unsaid'
    BY NothingSaid DEF CallBegins
<1>9. prog' = prog
    BY DEF CallBegins
<1>10. WorkOk(t)'
    BY <1>2, <1>7, <1>8, <1>9 DEF WorkOk
<1> QED BY <1>2, <1>5, <1>10, QuietCall DEF CallBegins

\* PATHREWRITE_FROM is replaced by PATHREWRITE_TO in a path.
LEMMA RewrittenTyped ==
    ASSUME NEW p \in Seq(Tokens), prog \in Prog
    PROVE  Rewritten(p) \in Seq(Tokens)
<1>1. prog.from \in Seq(Tokens) /\ prog.to \in Seq(Tokens)
    BY Zenon DEF Prog
<1> DEFINE n == Len(prog.from)
           found == {i \in 1..(Len(p) + 1 - n) :
                        SubSeq(p, i, i + n - 1) = prog.from}
           first == CHOOSE i \in found : \A j \in found : i <= j
<1>2. ASSUME NEW i \in found
      PROVE  SubSeq(p, 1, i - 1) \o prog.to \o SubSeq(p, i + n, Len(p))
             \in Seq(Tokens)
    <2>1. i \in Nat /\ n \in Nat /\ 1 <= i /\ i <= Len(p) + 1 - n
        BY <1>1
    <2>2. /\ SubSeq(p, 1, i - 1) \in Seq(Tokens)
          /\ SubSeq(p, i + n, Len(p)) \in Seq(Tokens)
        <3> HIDE DEF n, found
        <3>1. Len(p) \in Nat
            OBVIOUS
        <3>2. /\ \A j \in 1..(i - 1) : j \in 1..Len(p)
              /\ \A j \in (i + n)..Len(p) : j \in 1..Len(p)
            BY <2>1, <3>1
        <3> QED BY <2>1, <3>1, <3>2
    <2> QED BY <1>1, <2>2
<1>3. found # {} => \E i \in found : \A j \in found : i <= j
    <2>1. found \subseteq 1..(Len(p) + 1 - n)
        BY Zenon
    <2> HIDE DEF found
    <2>2. found \in SUBSET Nat
        BY <2>1, SMT
    <2> QED BY <2>2, LeastNatural
<1>4. found # {} => first \in found
    <2> HIDE DEF found
    <2> QED BY <1>3
<1>5. \/ Rewritten(p) = p
      \/ /\ found # {}
         /\ Rewritten(p) = SubSeq(p, 1, first - 1) \o prog.to
                           \o SubSeq(p, first + n, Len(p))
    BY DEF Rewritten
<1> HIDE DEF first, found, n
<1> QED BY <1>2, <1>4, <1>5

LEMMA RealOpenKeeps ==
    ASSUME FileInv, NEW t \in Openers, RealOpen(t)
    PROVE  FileInv'
<1>1. PICK q : q = Rewritten(work[t].call.path)
    OBVIOUS
<1>2. FileTypes /\ work[t] \in WorkRecord /\ work[t].call \in prog.calls
    BY CallTyped DEF RealOpen, FileInv
<1>3. q \in Paths
    <2>1. work[t].call.path \in Seq(Tokens) /\ prog \in Prog
        BY <1>2, CallTyped DEF RealOpen, FileTypes
    <2>2. q \in Seq(Tokens)
        BY <1>1, <2>1, RewrittenTyped
    <2> QED BY <1>2, <2>2, PathsTyped
<1> DEFINE r == [work[t] EXCEPT !.next = "returned", !.real = q]
<1>4. r \in WorkRecord
    <2>1. "returned" \in FileSteps
        BY DEF FileSteps
    <2> QED BY <1>2, <1>3, <2>1, Zenon DEF WorkRecord
<1>5. work' = [work EXCEPT ![t] = r]
    BY <1>1, <1>2 DEF RealOpen, FileTypes
<1>6. r.next = "returned" /\ r.call = work[t].call
    BY <1>2, Zenon DEF WorkRecord
<1> HIDE DEF r
<1>7. work'[t] = r
    BY <1>2, <1>4, <1>5, WorkMoves
<1>8. log'[t] = NoLine /\ t \notin unsaid'
    BY NothingSaid DEF RealOpen
<1>9. WorkOk(t)'
    BY <1>2, <1>6, <1>7, <1>8 DEF WorkOk, RealOpen
<1> QED BY <1>4, <1>5, <1>9, QuietCall DEF RealOpen

LEMMA CallEndsKeeps ==
    ASSUME FileInv, NEW t \in Openers, CallEnds(t)
    PROVE  FileInv'
<1>1. FileTypes /\ Rest \in WorkRecord
    BY RestTyped DEF FileInv
<1>2. /\ work' \in [Openers -> WorkRecord] /\ work'[t] = Rest
      /\ \A u \in Openers : u # t => work'[u] = work[u]
    BY <1>1, WorkMoves DEF CallEnds
<1>3. /\ DOMAIN log' = Openers /\ unsaid' \subseteq Openers
      /\ log'[t] = NoLine /\ t \notin unsaid'
      /\ \A u \in Openers : u # t =>
            log'[u] = log[u] /\ (u \in unsaid' <=> u \in unsaid)
    BY <1>1 DEF CallEnds, FileTypes
<1>4. work'[t].next = "idle" /\ work'[t].call = NoCall
    BY <1>2 DEF Rest
<1>5. WorkOk(t)'
    BY <1>3, <1>4 DEF WorkOk
<1> QED BY <1>2, <1>3, <1>5, OwnStep DEF CallEnds

\* With the program every call ends.
LEMMA OpenMountsKeeps ==
    ASSUME FileInv, NEW t \in Openers, OpenMounts(t)
    PROVE  FileInv'
<1>1. FileTypes /\ Rest \in WorkRecord
    BY RestTyped DEF FileInv
<1>2. CASE Opens(MountsFile)
    <2>1. Goes(t, "realpath") /\ "realpath" \in FileSteps
        BY <1>2 DEF OpenMounts, FileSteps
    <2>2. work[t] \in WorkRecord /\ work[t].call \in prog.calls
        BY CallTyped DEF OpenMounts
    <2> DEFINE r == [work[t] EXCEPT !.next = "realpath"]
    <2>3. /\ r \in WorkRecord
          /\ r.next = "realpath" /\ r.call = work[t].call
        BY <2>1, <2>2, Zenon DEF WorkRecord
    <2>4. work' = [work EXCEPT ![t] = r]
        BY <2>1 DEF Goes
    <2>5. work'[t] = r
        BY <1>1, <2>1, GoesMoves
    <2>6. UNCHANGED <<prog, at, entry, mounts, log, unsaid>>
        BY <1>2 DEF OpenMounts
    <2>7. log'[t] = NoLine /\ t \notin unsaid'
        BY <2>6, NothingSaid DEF OpenMounts
    <2> HIDE DEF r
    <2>8. WorkOk(t)'
        BY <2>2, <2>3, <2>5, <2>6, <2>7 DEF WorkOk
    <2> QED BY <2>3, <2>4, <2>6, <2>8, QuietCall
<1>3. CASE ~ Opens(MountsFile)
    <2>1. /\ work' = [u \in Openers |-> [Rest EXCEPT !.next = "exited"]]
          /\ log' = [u \in Openers |-> NoLine] /\ unsaid' = {}
          /\ UNCHANGED <<prog, at, entry, mounts>>
        BY <1>3 DEF OpenMounts
    <2>2. [Rest EXCEPT !.next = "exited"] \in WorkRecord
        <3>1. "exited" \in FileSteps
            BY DEF FileSteps
        <3> QED BY <1>1, <3>1, Zenon DEF WorkRecord
    <2>3. work' \in [Openers -> WorkRecord]
        BY <2>1, <2>2
    <2>4. FileTypes'
        BY <1>1, <2>1, <2>3 DEF FileTypes
    <2>5. Placed'
        BY <2>1 DEF FileInv, Placed
    <2>6. ASSUME NEW u \in Openers
          PROVE  WorkOk(u)'
        <3>1. work'[u].next = "exited" /\ work'[u].call = NoCall
            BY <2>1 DEF Rest
        <3>2. log'[u] = NoLine /\ u \notin unsaid'
            BY <2>1
        <3> QED BY <3>1, <3>2 DEF WorkOk
    <2> QED BY <2>4, <2>5, <2>6 DEF FileInv
<1> QED BY <1>2, <1>3

LEMMA RealpathKeeps ==
    ASSUME FileInv, NEW t \in Openers, Realpath(t)
    PROVE  FileInv'
<1>1. /\ FileTypes /\ work[t] \in WorkRecord
      /\ work[t].call \in prog.calls
    BY CallTyped DEF Realpath, FileInv
<1>2. PICK p : p = From(prog.cwd, work[t].call.path)
    OBVIOUS
<1>3. PICK q : q = Real(p)
    OBVIOUS
<1>4. q \in Paths
    <2>1. p \in Paths
        BY <1>2, CallTyped DEF Realpath
    <2> QED BY <1>1, <1>3, <2>1, RealTyped
<1>5. PICK x \in {"call", "decide"} : x = "call" <=> q = NoPath
    OBVIOUS
<1> DEFINE r == [work[t] EXCEPT !.real = q, !.next = x]
<1>6. /\ r \in WorkRecord /\ r.next = x /\ r.call = work[t].call
      /\ r.real = q
    <2>1. x \in FileSteps
        BY DEF FileSteps
    <2> QED BY <1>1, <1>4, <2>1, Zenon DEF WorkRecord
<1>7. work' = [work EXCEPT ![t] = r]
    BY <1>2, <1>3, <1>5 DEF Realpath
<1> HIDE DEF r
<1>8. work'[t] = r
    BY <1>1, <1>6, <1>7, WorkMoves
<1>9. UNCHANGED <<prog, at, entry, mounts, log, unsaid>>
    BY DEF Realpath
<1>10. log'[t] = NoLine /\ t \notin unsaid'
    BY <1>9, NothingSaid DEF Realpath
<1>11. x = "decide" => Found(t)'
    <2>1. From(prog.cwd, work[t].call.path)' = p
        BY <1>2, <1>6, <1>8, <1>9 DEF From, Slash
    <2>2. Real(p)' = q
        BY <1>3, <1>9, RealStays
    <2> QED BY <1>6, <1>8, <2>1, <2>2 DEF Found
<1>12. WorkOk(t)'
    BY <1>1, <1>5, <1>6, <1>8, <1>9, <1>10, <1>11 DEF WorkOk
<1> QED BY <1>6, <1>7, <1>9, <1>12, QuietCall

LEMMA DecideKeeps ==
    ASSUME FileInv, NEW t \in Openers, Decide(t)
    PROVE  FileInv'
<1>1. /\ FileTypes /\ work[t] \in WorkRecord /\ WorkOk(t)
      /\ work[t].call \in prog.calls /\ work[t].next = "decide"
    BY CallTyped DEF Decide, FileInv
<1>2. PICK q : q = work[t].real
    OBVIOUS
<1>3. PICK x \in {"call", "returned"} :
         /\ Goes(t, x)
         /\ x = "call" /\ Rewritten(MountsFile) = MountsFile
            => ~ Denies(q, mounts)
    BY <1>2 DEF Decide
<1> DEFINE r == [work[t] EXCEPT !.next = x]
<1>4. /\ r \in WorkRecord /\ r.next = x /\ r.call = work[t].call
      /\ r.real = q /\ r.stale = work[t].stale
    <2>1. x \in FileSteps
        BY DEF FileSteps
    <2> QED BY <1>1, <1>2, <2>1, Zenon DEF WorkRecord
<1>5. work' = [work EXCEPT ![t] = r]
    BY <1>3 DEF Goes
<1> HIDE DEF r
<1>6. work'[t] = r
    BY <1>1, <1>4, <1>5, WorkMoves
<1>7. UNCHANGED <<prog, at, entry, mounts, log, unsaid>>
    BY DEF Decide
<1>8. log'[t] = NoLine /\ t \notin unsaid'
    BY <1>1, <1>7, NothingSaid
<1>9. Found(t) => Found(t)'
    <2>1. From(prog.cwd, work[t].call.path)'
          = From(prog.cwd, work[t].call.path)
        BY <1>4, <1>6, <1>7 DEF From, Slash
    <2>2. \A p : Real(p)' = Real(p)
        BY <1>7, RealStays
    <2> QED BY <1>2, <1>4, <1>6, <2>1, <2>2 DEF Found
<1>10. x = "call" => Allowed(t)'
    <2>1. Rewritten(MountsFile)' = Rewritten(MountsFile)
        BY <1>7, RewriteStays
    <2>2. Denies(q, mounts)' <=> Denies(q, mounts)
        BY <1>7, DeniesStays
    <2> QED BY <1>3, <1>4, <1>6, <2>1, <2>2 DEF Allowed
<1>11. WorkOk(t)'
    BY <1>1, <1>4, <1>6, <1>7, <1>8, <1>9, <1>10 DEF WorkOk
<1> QED BY <1>4, <1>5, <1>7, <1>11, QuietCall

LEMMA RealCallKeeps ==
    ASSUME FileInv, NEW t \in Openers, RealCall(t)
    PROVE  FileInv'
<1>1. /\ FileTypes /\ work[t] \in WorkRecord
      /\ work[t].call \in prog.calls /\ work[t].next = "call"
    BY CallTyped DEF RealCall, FileInv
<1> DEFINE r == [work[t] EXCEPT !.next = "returned"]
<1>2. r \in WorkRecord /\ r.next = "returned" /\ r.call = work[t].call
    <2>1. "returned" \in FileSteps
        BY DEF FileSteps
    <2> QED BY <1>1, <2>1, Zenon DEF WorkRecord
<1>3. work' = [work EXCEPT ![t] = r]
    BY DEF RealCall, Goes
<1> HIDE DEF r
<1>4. work'[t] = r
    BY <1>1, <1>2, <1>3, WorkMoves
<1>5. UNCHANGED <<prog, at, entry, mounts, log, unsaid>>
    BY DEF RealCall
<1>6. log'[t] = NoLine /\ t \notin unsaid'
    BY <1>1, <1>5, NothingSaid
<1>7. WorkOk(t)'
    BY <1>1, <1>2, <1>4, <1>5, <1>6 DEF WorkOk
<1> QED BY <1>2, <1>3, <1>5, <1>7, QuietCall

LEMMA FstatatKeeps ==
    ASSUME FileInv, NEW t \in Openers, Fstatat(t)
    PROVE  FileInv'
<1>1. /\ FileTypes /\ work[t] \in WorkRecord /\ WorkOk(t)
      /\ work[t].call \in prog.calls /\ work[t].next = "fstatat"
      /\ work[t].call.rmdir \in BOOLEAN
    BY CallTyped DEF Fstatat, FileInv
<1>2. PICK p : p = From(work[t].call.dir, work[t].call.path)
    OBVIOUS
<1>3. PICK q : q = Real(p)
    OBVIOUS
<1>4. PICK none \in BOOLEAN : none <=> q = NoPath \/ work[t].call.rmdir
    OBVIOUS
<1>5. PICK i \in 0..MaxIno : /\ i = IF none THEN 0 ELSE EntryAt(q).ino
    <2>1. EntryAt(q) \in EntryRecord
        BY <1>1, EntryThere
    <2>2. EntryAt(q).ino \in 0..MaxIno
        BY <2>1, Zenon DEF EntryRecord
    <2> QED BY <2>2, FileCallsAssumption
<1>6. PICK x \in {"unlink", "atdir"} : x = "unlink" <=> none
    OBVIOUS
<1> DEFINE r == [work[t] EXCEPT !.ino = i, !.next = x]
<1>7. /\ r \in WorkRecord /\ r.next = x /\ r.call = work[t].call
      /\ r.ino = i /\ r.stale = work[t].stale /\ r.atdir = work[t].atdir
    <2>1. x \in FileSteps
        BY DEF FileSteps
    <2> QED BY <1>1, <2>1, Zenon DEF WorkRecord
<1>8. work' = [work EXCEPT ![t] = r]
    BY <1>2, <1>3, <1>4, <1>5, <1>6 DEF Fstatat
<1> HIDE DEF r
<1>9. work'[t] = r
    BY <1>1, <1>7, <1>8, WorkMoves
<1>10. UNCHANGED <<prog, at, entry, mounts, log, unsaid>>
    BY DEF Fstatat
<1>11. log'[t] = NoLine /\ t \notin unsaid'
    BY <1>1, <1>10, NothingSaid
<1>12. PathsOf(t)' = {p}
    BY <1>2, <1>7, <1>9, <1>10 DEF PathsOf, From, Slash
<1>13. Real(p)' = q
    BY <1>3, <1>10, RealStays
<1>14. ~ none => InodeOf(t)'
    <2>1. EntryAt(q)' = EntryAt(q)
        BY <1>10, EntryStays
    <2> QED BY <1>5, <1>7, <1>9, <1>12, <1>13, <2>1 DEF InodeOf
<1>15. none => DirOf(t)'
    <2>1. work'[t].atdir = NoPath
        BY <1>1, <1>7, <1>9 DEF WorkOk
    <2> QED BY <1>4, <1>7, <1>9, <1>12, <1>13, <2>1 DEF DirOf
<1>16. work'[t].atdir = NoPath
    BY <1>1, <1>7, <1>9 DEF WorkOk
<1>17. WorkOk(t)'
    BY <1>1, <1>4, <1>6, <1>7, <1>9, <1>10, <1>11, <1>14, <1>15, <1>16
       DEF WorkOk
<1> QED BY <1>7, <1>8, <1>10, <1>17, QuietCall

LEMMA AtDirKeeps ==
    ASSUME FileInv, NEW t \in Openers, AtDir(t)
    PROVE  FileInv'
<1>1. /\ FileTypes /\ work[t] \in WorkRecord /\ WorkOk(t)
      /\ work[t].call \in prog.calls /\ work[t].next = "atdir"
      /\ work[t].call.dir \in Dirs /\ work[t].atdir = NoPath
      /\ ~ work[t].call.rmdir /\ (work[t].stale \/ InodeOf(t))
    BY CallTyped DEF AtDir, FileInv, WorkOk
<1>2. PICK a \in Paths :
         /\ work' = [work EXCEPT ![t] =
               [work[t] EXCEPT !.atdir = a, !.next = "unlink"]]
         /\ \/ a = at[work[t].call.dir] /\ a # NoPath
            \/ a = NoPath /\ "readlink" \in prog.faults
    <2>1. CASE work' = [work EXCEPT ![t].atdir = at[work[t].call.dir],
                                    ![t].next = "unlink"]
        BY <1>1, <2>1, PathsTyped DEF FileTypes
    <2>2. CASE "readlink" \in prog.faults /\ Goes(t, "unlink")
        <3>1. NoPath \in Paths
            BY <1>1, PathsTyped
        <3>2. [work[t] EXCEPT !.next = "unlink"]
              = [work[t] EXCEPT !.atdir = NoPath, !.next = "unlink"]
            BY <1>1, Zenon DEF WorkRecord
        <3> QED BY <2>2, <3>1, <3>2 DEF Goes
    <2> QED BY <2>1, <2>2 DEF AtDir
<1> DEFINE r == [work[t] EXCEPT !.atdir = a, !.next = "unlink"]
<1>3. /\ r \in WorkRecord /\ r.next = "unlink" /\ r.call = work[t].call
      /\ r.ino = work[t].ino /\ r.stale = work[t].stale /\ r.atdir = a
    <2>1. "unlink" \in FileSteps
        BY DEF FileSteps
    <2> QED BY <1>1, <1>2, <2>1, Zenon DEF WorkRecord
<1>4. work' = [work EXCEPT ![t] = r]
    BY <1>2
<1> HIDE DEF r
<1>5. work'[t] = r
    BY <1>1, <1>3, <1>4, WorkMoves
<1>6. UNCHANGED <<prog, at, entry, mounts, log, unsaid>>
    BY DEF AtDir
<1>7. log'[t] = NoLine /\ t \notin unsaid'
    BY <1>1, <1>6, NothingSaid
<1>8. InodeOf(t) => InodeOf(t)'
    <2>1. PathsOf(t)' = PathsOf(t)
        BY <1>3, <1>5, <1>6 DEF PathsOf, From, Slash
    <2>2. \A p : Real(p)' = Real(p)
        BY <1>6, RealStays
    <2>3. \A q : EntryAt(q)' = EntryAt(q)
        BY <1>6, EntryStays
    <2> QED BY <1>3, <1>5, <2>1, <2>2, <2>3 DEF InodeOf
<1>9. DirOf(t)'
    BY <1>1, <1>2, <1>3, <1>5, <1>6, <1>8 DEF DirOf
<1>10. WorkOk(t)'
    BY <1>1, <1>3, <1>5, <1>6, <1>7, <1>9 DEF WorkOk
<1> QED BY <1>3, <1>4, <1>6, <1>10, QuietCall

LEMMA WriteLogKeeps ==
    ASSUME FileInv, NEW t \in Openers, WriteLog(t)
    PROVE  FileInv'
<1>1. /\ FileTypes /\ work[t] \in WorkRecord /\ WorkOk(t)
      /\ work[t].call \in prog.calls /\ work[t].next = "log"
    BY CallTyped DEF WriteLog, FileInv
<1> DEFINE r == [work[t] EXCEPT !.next = "returned"]
<1>2. /\ r \in WorkRecord /\ r.next = "returned" /\ r.call = work[t].call
      /\ r.was = work[t].was /\ r.real = work[t].real
      /\ r.stale = work[t].stale
    <2>1. "returned" \in FileSteps
        BY DEF FileSteps
    <2> QED BY <1>1, <2>1, Zenon DEF WorkRecord
<1>3. work' = [work EXCEPT ![t] = r]
    BY DEF WriteLog, Goes
<1> HIDE DEF r
<1>4. /\ work' \in [Openers -> WorkRecord] /\ work'[t] = r
      /\ \A u \in Openers : u # t => work'[u] = work[u]
    BY <1>1, <1>2, <1>3, WorkMoves
<1>5. UNCHANGED <<prog, at, entry, mounts, unsaid>>
    BY DEF WriteLog
<1>6. log[t] = NoLine /\ t \notin unsaid
    BY <1>1, NothingSaid
<1>7. \/ log'[t] = [ino |-> work[t].ino,
                    path |-> Slash(work[t].atdir, work[t].call.path)]
      \/ log'[t] = NoLine
    BY <1>1, <1>6 DEF WriteLog, FileTypes
<1>8. /\ DOMAIN log' = Openers
      /\ \A u \in Openers : u # t => log'[u] = log[u]
    BY <1>1 DEF WriteLog, FileTypes
<1>9. log'[t] # NoLine => LineOk(t)'
    <2>1. LineOf(t)
        BY <1>1 DEF WorkOk
    <2>2. Excused(t)' <=> Excused(t)
        BY <1>2, <1>4 DEF Excused
    <2>3. log'[t] # NoLine =>
             /\ log'[t].ino = work[t].ino
             /\ log'[t].path = Slash(work[t].atdir, work[t].call.path)
        BY <1>7
    <2> QED BY <1>2, <1>4, <2>1, <2>2, <2>3 DEF LineOf, LineOk
<1>10. WorkOk(t)'
    BY <1>1, <1>2, <1>4, <1>5, <1>6, <1>9 DEF WorkOk
<1>11. unsaid' \subseteq Openers
    BY <1>1, <1>5 DEF FileTypes
<1> QED BY <1>4, <1>5, <1>8, <1>10, <1>11, OwnStep

-----------------------------------------------------------------------------
(* The steps that change the file system *)

\* Calls in progress are disturbed, whoever has changed something.
LEMMA OthersKeep ==
    ASSUME FileInv, NEW op, Others(op), UNCHANGED <<prog, log, unsaid>>,
           at' \in [Dirs -> Absolute \cup {Removed}],
           entry' \in [Dirs -> [Names -> EntryRecord]],
           mounts' \in Seq(Mounts), Placed'
    PROVE  FileInv'
<1>1. FileTypes /\ \A u \in Openers : WorkOk(u)
    BY DEF FileInv
<1>2. ASSUME NEW u \in Openers
      PROVE  work'[u] \in WorkRecord /\ WorkOk(u)'
    <2>1. work'[u] = IF u = NoThread \/ work[u].next \in {"idle", "returned"}
                     THEN work[u] ELSE [work[u] EXCEPT !.stale = TRUE]
        BY DEF Others, Disturbs
    <2>2. CASE u # NoThread
        <3>1. IF work[u].next \in {"idle", "returned"} THEN work'[u] = work[u]
              ELSE work'[u] = [work[u] EXCEPT !.stale = TRUE]
            BY <2>1, <2>2
        <3> QED BY <1>1, <3>1, DisturbedStays
    <2> QED BY <2>2, FileCallsAssumption
<1>3. work' \in [Openers -> WorkRecord]
    BY <1>2 DEF Others, Disturbs
<1>4. FileTypes'
    BY <1>1, <1>3 DEF FileTypes
<1> QED BY <1>2, <1>4 DEF FileInv

LEMMA UnlinkKeeps ==
    ASSUME FileInv, NEW t \in Openers, Unlink(t)
    PROVE  FileInv'
<1>1. /\ FileTypes /\ Placed /\ work[t] \in WorkRecord /\ DirOf(t)
      /\ work[t].call \in prog.calls /\ work[t].next = "unlink"
      /\ From(work[t].call.dir, work[t].call.path) \in Paths
      /\ \A u \in Openers : WorkOk(u)
    BY CallTyped DEF Unlink, FileInv, WorkOk
<1>2. PICK c : c = work[t].call
    OBVIOUS
<1>3. PICK p \in Paths : p = From(c.dir, c.path)
    BY <1>1, <1>2
<1>4. PICK removes \in BOOLEAN :
         /\ removes => Removes(c, p)
         /\ at' = [d \in Dirs |-> at'[d]]
         /\ \A d \in Dirs :
               at'[d] = IF removes /\ c.rmdir /\ at[d] = p
                        THEN Removed ELSE at[d]
         /\ entry' = [d \in Dirs |-> [n \in Names |-> entry'[d][n]]]
         /\ \A d \in Dirs, n \in Names :
               entry'[d][n] = IF removes /\ ~ c.rmdir /\ Slash(at[d], n) = p
                              THEN NoEntry ELSE entry[d][n]
         /\ work' = Disturbs([work EXCEPT
               ![t].next = IF Says(t, removes) THEN "log" ELSE "returned",
               ![t].real = p,
               ![t].was = IF removes THEN EntryAt(p) ELSE NoEntry], t)
         /\ unsaid' = IF removes /\ ~ Says(t, removes)
                      THEN unsaid \cup {t} ELSE unsaid
    <2>1. Removes(c, p) \in BOOLEAN
        BY DEF Removes
    <2>2. work[t].call = c /\ From(work[t].call.dir, work[t].call.path) = p
        BY <1>2, <1>3
    <2>3. PICK removes \in
              {Removes(work[t].call,
                       From(work[t].call.dir, work[t].call.path))}
              \cup (IF "unlink" \in prog.faults THEN {FALSE} ELSE {}) :
          /\ at' = [d \in Dirs |->
                IF /\ removes /\ work[t].call.rmdir
                   /\ at[d] = From(work[t].call.dir, work[t].call.path)
                THEN Removed ELSE at[d]]
          /\ entry' = [d \in Dirs |-> [n \in Names |->
                IF /\ removes /\ ~ work[t].call.rmdir
                   /\ Slash(at[d], n)
                      = From(work[t].call.dir, work[t].call.path)
                THEN NoEntry ELSE entry[d][n]]]
          /\ work' = Disturbs([work EXCEPT
                ![t].next = IF Says(t, removes) THEN "log" ELSE "returned",
                ![t].real = From(work[t].call.dir, work[t].call.path),
                ![t].was = IF removes
                           THEN EntryAt(From(work[t].call.dir,
                                             work[t].call.path))
                           ELSE NoEntry], t)
          /\ unsaid' = IF removes /\ ~ Says(t, removes)
                       THEN unsaid \cup {t} ELSE unsaid
        BY DEF Unlink
    <2>4. removes \in BOOLEAN /\ (removes => Removes(c, p))
        BY <2>1, <2>2, <2>3
    <2>5. /\ at' = [d \in Dirs |-> at'[d]]
          /\ \A d \in Dirs :
                at'[d] = IF removes /\ c.rmdir /\ at[d] = p
                         THEN Removed ELSE at[d]
        BY <2>2, <2>3
    <2>6. /\ entry' = [d \in Dirs |-> [n \in Names |-> entry'[d][n]]]
          /\ \A d \in Dirs, n \in Names :
                entry'[d][n] = IF removes /\ ~ c.rmdir /\ Slash(at[d], n) = p
                               THEN NoEntry ELSE entry[d][n]
        BY <2>2, <2>3
    <2>7. work' = Disturbs([work EXCEPT
             ![t].next = IF Says(t, removes) THEN "log" ELSE "returned",
             ![t].real = p,
             ![t].was = IF removes THEN EntryAt(p) ELSE NoEntry], t)
        BY <2>2, <2>3
    <2> QED BY <2>3, <2>4, <2>5, <2>6, <2>7
<1>5. UNCHANGED <<prog, mounts, log>>
    BY DEF Unlink
<1>6. log[t] = NoLine /\ t \notin unsaid
    BY <1>1, NothingSaid
<1>7. PICK x \in {"log", "returned"} :
         x = IF Says(t, removes) THEN "log" ELSE "returned"
    OBVIOUS
<1>8. PICK was \in EntryRecord : was = IF removes THEN EntryAt(p) ELSE NoEntry
    BY <1>1, <1>4, RestTyped, EntryThere
<1> DEFINE r == [work[t] EXCEPT !.next = x, !.real = p, !.was = was]
           ws == [work EXCEPT ![t] = r]
<1>9. /\ r \in WorkRecord /\ r.next = x /\ r.call = c /\ r.real = p
      /\ r.was = was /\ r.ino = work[t].ino /\ r.stale = work[t].stale
      /\ r.atdir = work[t].atdir
    <2>1. x \in FileSteps
        BY DEF FileSteps
    <2> QED BY <1>1, <1>2, <2>1, Zenon DEF WorkRecord
<1>10. work' = Disturbs(ws, t)
    BY <1>1, <1>4, <1>7, <1>8 DEF FileTypes
<1> HIDE DEF r
<1>11. /\ ws[t] = r
       /\ \A u \in Openers : u # t => ws[u] = work[u]
    BY <1>1 DEF FileTypes
<1> HIDE DEF ws
<1>12. work'[t] = r
    BY <1>10, <1>11 DEF Disturbs
<1>13. ASSUME NEW u \in Openers, u # t
       PROVE  work'[u] \in WorkRecord /\ WorkOk(u)'
    <2>1. IF work[u].next \in {"idle", "returned"} THEN work'[u] = work[u]
          ELSE work'[u] = [work[u] EXCEPT !.stale = TRUE]
        BY <1>10, <1>11, <1>13 DEF Disturbs
    <2>2. log'[u] = log[u] /\ (u \in unsaid' <=> u \in unsaid)
        BY <1>4, <1>5, <1>13
    <2> QED BY <1>1, <1>5, <2>1, <2>2, DisturbedStays
<1>14. removes /\ ~ c.rmdir => was # NoEntry /\ was = EntryAt(p)
    BY <1>4, <1>8 DEF Removes
<1>15. was # NoEntry /\ was = EntryAt(p) /\ was.to = NoPath =>
          Real(p) = p /\ p # NoPath
    BY <1>1, RealOfFile
<1>16. x = "log" => work'[t].atdir # NoPath /\ LineOf(t)'
    <2> SUFFICES ASSUME x = "log", ~ Excused(t)'
                 PROVE  work'[t].atdir # NoPath /\ LineOf(t)'
        BY <1>7, <1>9, <1>12 DEF LineOf, Says
    <2>1. removes /\ work[t].atdir # NoPath
        BY <1>7 DEF Says
    <2>2. ~ work[t].stale /\ was.to = NoPath
        BY <1>9, <1>12 DEF Excused
    <2>3. ~ c.rmdir /\ InodeOf(t) /\ work[t].atdir = at[c.dir]
        BY <1>1, <1>2, <2>1, <2>2 DEF DirOf
    <2>4. was # NoEntry /\ was = EntryAt(p) /\ Real(p) = p
        BY <1>14, <1>15, <2>1, <2>2, <2>3
    <2>5. work[t].ino = was.ino
        BY <1>2, <1>3, <2>3, <2>4 DEF InodeOf, PathsOf
    <2>6. Head(c.path) = "/" \/ Slash(work[t].atdir, c.path) = p
        BY <1>3, <2>3 DEF From
    <2> QED BY <1>9, <1>12, <2>1, <2>4, <2>5, <2>6 DEF LineOf, Slash
<1>17. t \in unsaid' => x = "returned" /\ Unwritten(t)'
    <2> SUFFICES ASSUME t \in unsaid'
                 PROVE  x = "returned" /\ Unwritten(t)'
        OBVIOUS
    <2>1. removes /\ work[t].atdir = NoPath /\ x = "returned"
        BY <1>4, <1>6, <1>7 DEF Says
    <2>2. \/ work[t].stale \/ c.rmdir \/ "readlink" \in prog.faults
          \/ Real(p) = NoPath
        BY <1>1, <1>2, <1>3, <2>1 DEF DirOf, PathsOf
    <2>3. Real(p) = NoPath /\ ~ c.rmdir => was.to # NoPath
        BY <1>14, <1>15, <2>1
    <2> QED BY <1>5, <1>9, <1>12, <2>1, <2>2, <2>3 DEF Unwritten, Excused
<1>18. WorkOk(t)'
    BY <1>1, <1>2, <1>5, <1>6, <1>9, <1>12, <1>16, <1>17 DEF WorkOk
<1>19. FileTypes'
    <2>1. at' \in [Dirs -> Absolute \cup {Removed}]
        BY <1>1, <1>4 DEF FileTypes
    <2>2. entry' \in [Dirs -> [Names -> EntryRecord]]
        <3>1. NoEntry \in EntryRecord
            BY <1>1, RestTyped
        <3>2. ASSUME NEW d \in Dirs, NEW n \in Names
              PROVE  entry'[d][n] \in EntryRecord
            BY <1>1, <1>4, <3>1 DEF FileTypes
        <3> QED BY <1>4, <3>2, Zenon
    <2>3. work' \in [Openers -> WorkRecord]
        <3>1. \A u \in Openers : work'[u] \in WorkRecord
            BY <1>9, <1>12, <1>13
        <3> QED BY <1>10, <3>1 DEF Disturbs
    <2>4. unsaid' \subseteq Openers
        BY <1>1, <1>4 DEF FileTypes
    <2> QED BY <1>1, <1>5, <2>1, <2>2, <2>3, <2>4 DEF FileTypes
<1>20. Placed'
    <2>1. ASSUME NEW d \in Dirs, NEW e \in Dirs, at'[d] = at'[e],
                 at'[d] # Removed
          PROVE  d = e
        BY <1>1, <1>4, <2>1 DEF Placed
    <2>2. ASSUME NEW d \in Dirs, NEW n \in Names, at'[d] = Removed
          PROVE  entry'[d][n] = NoEntry
        <3>1. entry'[d][n] \in {NoEntry, entry[d][n]}
            BY <1>4
        <3>2. CASE at[d] = Removed
            BY <1>1, <3>1, <3>2 DEF Placed
        <3>3. CASE at[d] # Removed
            <4>1. removes /\ c.rmdir /\ at[d] = p
                BY <1>4, <2>2, <3>3
            <4>2. PICK e \in Dirs :
                      at[e] = p /\ \A m \in Names : entry[e][m] = NoEntry
                BY <1>4, <4>1 DEF Removes
            <4>3. d = e
                BY <1>1, <3>3, <4>1, <4>2 DEF Placed
            <4> QED BY <3>1, <4>2, <4>3
        <3> QED BY <3>2, <3>3
    <2> QED BY <2>1, <2>2 DEF Placed
<1> QED BY <1>13, <1>18, <1>19, <1>20 DEF FileInv

LEMMA MountKeeps ==
    ASSUME FileInv, Mount
    PROVE  FileInv'
<1>1. PICK d \in Dirs, net0 \in BOOLEAN :
          /\ at[d] # Removed
          /\ mounts' = Append(mounts, [at |-> at[d], net |-> net0])
    BY DEF Mount
<1>2. at[d] \in Seq(Tokens)
    BY <1>1 DEF FileInv, FileTypes, Absolute
<1>3. [at |-> at[d], net |-> net0] \in Mounts
    BY <1>2 DEF Mounts
<1>4. mounts' \in Seq(Mounts)
    BY <1>1, <1>3 DEF FileInv, FileTypes
<1>5. UNCHANGED <<prog, at, entry, log, unsaid>> /\ Others("mount")
    BY DEF Mount
<1>6. Placed'
    BY <1>5 DEF FileInv, Placed
<1> QED BY <1>4, <1>5, <1>6, OthersKeep DEF FileInv, FileTypes

LEMMA UnmountKeeps ==
    ASSUME FileInv, Unmount
    PROVE  FileInv'
<1>1. mounts' \in Seq(Mounts)
    <2>1. mounts \in Seq(Mounts) /\ Len(mounts) > 1
        BY DEF Unmount, FileInv, FileTypes
    <2> QED BY <2>1 DEF Unmount, Front
<1>2. UNCHANGED <<prog, at, entry, log, unsaid>> /\ Others("unmount")
    BY DEF Unmount
<1>3. Placed'
    BY <1>2 DEF FileInv, Placed
<1> QED BY <1>1, <1>2, <1>3, OthersKeep DEF FileInv, FileTypes

LEMMA RenameKeeps ==
    ASSUME FileInv, Rename
    PROVE  FileInv'
<1>1. PICK d \in Dirs, p \in Places :
          ~ Exists(p) /\ at[d] # Removed /\ at' = [at EXCEPT ![d] = p]
    BY DEF Rename
<1>2. UNCHANGED <<prog, entry, mounts, log, unsaid>> /\ Others("rename")
    BY DEF Rename
<1>3. p \in Absolute
    BY FileCallsAssumption
<1>4. at \in [Dirs -> Absolute \cup {Removed}] /\ Placed
    BY DEF FileInv, FileTypes
<1>5. at' \in [Dirs -> Absolute \cup {Removed}]
    BY <1>1, <1>3, <1>4
<1>6. \A e \in Dirs : at'[e] = IF e = d THEN p ELSE at[e]
    BY <1>1, <1>4
<1>7. p # Removed
    BY <1>3 DEF Absolute, Removed
<1>8. \A e \in Dirs : at[e] # p
    BY <1>1 DEF Exists
<1>9. Placed'
    BY <1>2, <1>4, <1>6, <1>7, <1>8 DEF Placed
<1> QED BY <1>2, <1>5, <1>9, OthersKeep DEF FileInv, FileTypes

LEMMA ReplaceKeeps ==
    ASSUME FileInv, Replace
    PROVE  FileInv'
<1>1. PICK d \in Dirs, n \in Names, i \in 1..MaxIno :
          /\ at[d] # Removed
          /\ entry' = [entry EXCEPT ![d][n] = [ino |-> i, to |-> NoPath]]
    BY DEF Replace
<1>2. UNCHANGED <<prog, at, mounts, log, unsaid>> /\ Others("replace")
    BY DEF Replace
<1>3. entry \in [Dirs -> [Names -> EntryRecord]] /\ Placed
    BY DEF FileInv, FileTypes
<1>4. PICK e \in EntryRecord : e = [ino |-> i, to |-> NoPath]
    <2>1. i \in 0..MaxIno
        BY FileCallsAssumption
    <2>2. [ino |-> i, to |-> NoPath] \in EntryRecord
        BY <2>1 DEF EntryRecord
    <2> QED BY <2>2
<1>5. entry' \in [Dirs -> [Names -> EntryRecord]]
    BY <1>1, <1>3, <1>4
<1>6. \A f \in Dirs, m \in Names : f # d => entry'[f][m] = entry[f][m]
    BY <1>1, <1>3
<1>7. Placed'
    BY <1>1, <1>2, <1>3, <1>6 DEF Placed
<1> QED BY <1>2, <1>5, <1>7, OthersKeep DEF FileInv, FileTypes

-----------------------------------------------------------------------------

LEMMA FilesInitInv == FilesInit => FileInv
<1> SUFFICES ASSUME FilesInit
             PROVE  FileInv
    OBVIOUS
<1>1. prog \in Prog /\ prog \in Progs
    BY FileCallsAssumption DEF FilesInit
<1>2. /\ prog.at \in Injection(Dirs, Absolute)
      /\ prog.entry \in
            [Dirs -> [Names -> [ino : 0..MaxIno,
                                to : Absolute \cup {NoPath}]]]
      /\ prog.mounts \in Seq(Mounts)
    BY <1>1, Zenon DEF Prog
<1>3. /\ at \in [Dirs -> Absolute]
      /\ \A d, e \in Dirs : at[d] = at[e] => d = e
    <2>1. at \in [Dirs -> Absolute] /\ IsInjective(at)
        BY <1>2 DEF FilesInit, Injection
    <2> QED BY <2>1 DEF IsInjective
<1>4. /\ at \in [Dirs -> Absolute \cup {Removed}]
      /\ \A d \in Dirs : at[d] # Removed
    <2>1. Removed \notin Absolute
        BY DEF Removed, Absolute
    <2> QED BY <1>3, <2>1
<1>5. entry \in [Dirs -> [Names -> EntryRecord]] /\ mounts \in Seq(Mounts)
    BY <1>2 DEF FilesInit, EntryRecord
<1>6. Rest \in WorkRecord
    <2>1. NoEntry \in EntryRecord /\ 0 \in 0..MaxIno
        BY FileCallsAssumption DEF NoEntry, EntryRecord
    <2>2. NoPath \in Paths
        BY DEF NoPath, Paths
    <2> QED BY <2>1, <2>2, SMT DEF Rest, WorkRecord, FileSteps
<1>7. FileTypes
    BY <1>1, <1>4, <1>5, <1>6 DEF FileTypes, FilesInit
<1>8. Placed
    BY <1>3, <1>4 DEF Placed
<1>9. ASSUME NEW t \in Openers
      PROVE  WorkOk(t)
    <2>1. work[t].next = "idle" /\ work[t].call = NoCall
        BY DEF FilesInit, Rest
    <2>2. log[t] = NoLine /\ t \notin unsaid
        BY DEF FilesInit
    <2> QED BY <2>1, <2>2 DEF WorkOk
<1> QED BY <1>7, <1>8, <1>9 DEF FileInv

\* Steps of the libraries of sockets and of processes leave paths alone.
LEMMA FileStutters ==
    ASSUME FileInv, UNCHANGED fileVars
    PROVE  FileInv'
<1>1. UNCHANGED <<prog, at, entry, mounts, work, log, unsaid>>
    BY DEF fileVars
<1>2. FileTypes'
    BY <1>1 DEF FileInv, FileTypes
<1>3. Placed'
    BY <1>1 DEF FileInv, Placed
<1>4. ASSUME NEW u \in Openers
      PROVE  WorkOk(u)'
    BY <1>1, CallStays DEF FileInv
<1> QED BY <1>2, <1>3, <1>4 DEF FileInv

LEMMA FileInvInductive == FileInv /\ [Next]_vars => FileInv'
<1> SUFFICES ASSUME FileInv, [Next]_vars
             PROVE  FileInv'
    OBVIOUS
<1>1. CASE FilesNext
    <2>1. ASSUME NEW t \in Openers, CallBegins(t)
          PROVE  FileInv'
        BY <2>1, CallBeginsKeeps
    <2>2. ASSUME NEW t \in Openers, RealOpen(t)
          PROVE  FileInv'
        BY <2>2, RealOpenKeeps
    <2>3. ASSUME NEW t \in Openers, CallEnds(t)
          PROVE  FileInv'
        BY <2>3, CallEndsKeeps
    <2>4. ASSUME NEW t \in Openers, OpenMounts(t)
          PROVE  FileInv'
        BY <2>4, OpenMountsKeeps
    <2>5. ASSUME NEW t \in Openers, Realpath(t)
          PROVE  FileInv'
        BY <2>5, RealpathKeeps
    <2>6. ASSUME NEW t \in Openers, Decide(t)
          PROVE  FileInv'
        BY <2>6, DecideKeeps
    <2>7. ASSUME NEW t \in Openers, RealCall(t)
          PROVE  FileInv'
        BY <2>7, RealCallKeeps
    <2>8. ASSUME NEW t \in Openers, Fstatat(t)
          PROVE  FileInv'
        BY <2>8, FstatatKeeps
    <2>9. ASSUME NEW t \in Openers, AtDir(t)
          PROVE  FileInv'
        BY <2>9, AtDirKeeps
    <2>10. ASSUME NEW t \in Openers, Unlink(t)
           PROVE  FileInv'
        BY <2>10, UnlinkKeeps
    <2>11. ASSUME NEW t \in Openers, WriteLog(t)
           PROVE  FileInv'
        BY <2>11, WriteLogKeeps
    <2> QED BY <1>1, <2>1, <2>2, <2>3, <2>4, <2>5, <2>6, <2>7, <2>8, <2>9,
               <2>10, <2>11, MountKeeps, UnmountKeeps, RenameKeeps,
               ReplaceKeeps DEF FilesNext
<1>2. CASE UNCHANGED fileVars
    BY <1>2, FileStutters
<1> QED BY <1>1, <1>2 DEF Next, vars

LEMMA FileInvHolds == Spec => []FileInv
<1>1. Init => FileInv
    BY FilesInitInv DEF Init
<1> QED BY <1>1, FileInvInductive, PTL DEF Spec

\* xdev.c:60: no call goes to a network file system but for the exceptions,
\* whatever is mounted, moved and replaced meanwhile, however /proc/mounts is
\* ordered and whatever begins with a mount point's name.
THEOREM NetworkIsRefused == Spec => []NetworkRefused
BY RefusedHolds, FileInvHolds, PTL

\* saveunlinkedinode.c:60: what the log says was removed was removed, and a
\* removal without a line has one of three reasons, however threads and other
\* processes get between the lookup, the removal and the line.
THEOREM LogIsTrue == Spec => []LogTellsRemoved
BY LogHolds, FileInvHolds, PTL

-----------------------------------------------------------------------------
(* Types of all *)

\* A process that is not there has nothing loaded, a command is some program,
\* and a thread waits for a process that its program has brought about.
Begun(p) ==
    /\ image[p].state = "none" =>
          libs[p] = {} /\ penv[p].preload = world.preload
    /\ image[p].prog # "unset"
    /\ image[p].by = "system" => world.command # "unset"
Waits(p, l) ==
    lane[p][l].next = "wait" =>
        /\ lane[p][l].kid \in Pids
        /\ image[lane[p][l].kid].state # "none"
        /\ image[lane[p][l].kid].parent = p

BegunInv ==
    /\ world \in Worlds
    /\ opens \in [Pids -> 0..MaxOpens]
    /\ \A p \in Pids : Begun(p) /\ \A l \in Lanes : Waits(p, l)

\* A thread that does not begin to wait moves.
LEMMA BegunMoves ==
    ASSUME ProcessTypes, BegunInv, NEW p \in Pids, NEW l \in Lanes,
           UNCHANGED <<world, image, libs>>,
           opens' \in [Pids -> 0..MaxOpens],
           \A q \in Pids : penv'[q].preload = penv[q].preload,
           \A q \in Pids : q # p => lane'[q] = lane[q],
           \A k \in Lanes : k # l =>
               /\ lane'[p][k].next = lane[p][k].next
               /\ lane'[p][k].kid = lane[p][k].kid,
           lane'[p][l].next # "wait"
    PROVE  BegunInv'
<1>1. ASSUME NEW q \in Pids
      PROVE  Begun(q)'
    BY DEF BegunInv, Begun
<1>2. ASSUME NEW q \in Pids, NEW k \in Lanes
      PROVE  Waits(q, k)'
    <2>1. CASE q = p /\ k = l
        BY <2>1 DEF Waits
    <2>2. CASE q # p \/ k # l
        <3>1. lane'[q][k].next = lane[q][k].next
              /\ lane'[q][k].kid = lane[q][k].kid
            BY <2>2
        <3> QED BY <3>1 DEF BegunInv, Waits
    <2> QED BY <2>1, <2>2
<1> QED BY <1>1, <1>2 DEF BegunInv

LEMMA BegunHook ==
    ASSUME ProcessTypes, BegunInv, NEW p \in Pids, NEW l \in Lanes,
           LaneStep(p, l) \/ SetStep(p, l) \/ GetEnable(p, l)
    PROVE  BegunInv'
<1>1. /\ UNCHANGED <<world, image, libs>>
      /\ \A q \in Pids : penv'[q].preload = penv[q].preload
      /\ \A q \in Pids : q # p => lane'[q] = lane[q]
    BY LibsStay
<1>2. opens' \in [Pids -> 0..MaxOpens]
    <2>1. CASE \E w \in Phases : Calls(p, l, w)
        <3>1. opens[p] \in 0..MaxOpens /\ opens[p] < MaxOpens
            BY <2>1 DEF Calls, BegunInv
        <3>2. opens[p] + 1 \in 0..MaxOpens
            BY <3>1, ProcessCallsAssumption
        <3> QED BY <2>1, <3>2 DEF Calls, BegunInv
    <2>2. CASE ~ \E w \in Phases : Calls(p, l, w)
        <3>1. opens' = opens
            BY <2>2 DEF LaneStep, SetStep, XvRealCall, CallReturns, SystemFails,
                        SystemReturns, UnsetEnable, SetPhase, UnsetPhase,
                        SetEnable, GetEnable
        <3> QED BY <3>1 DEF BegunInv
    <2> QED BY <2>1, <2>2
<1>3. CASE LaneStep(p, l)
    <2>1. PICK w \in Phases :
            \/ Calls(p, l, w) \/ XvRealCall(p, l) \/ CallReturns(p, l)
            \/ SystemFails(p, l) \/ SystemReturns(p, l)
        BY <1>3 DEF LaneStep, Phases
    <2>2. /\ OthersStay(p, l)
          /\ \/ ~ Runs(lane'[p][l])
             \/ lane'[p][l] = [lane[p][l] EXCEPT !.next = "unsetphase"]
        BY <2>1, LaneSteps
    <2>3. [lane[p][l] EXCEPT !.next = "unsetphase"].next # "wait"
        BY DEF ProcessTypes, LaneRecord
    <2>4. lane'[p][l].next # "wait"
        BY <2>2, <2>3 DEF Runs, Hooking
    <2> QED BY <1>1, <1>2, <2>2, <2>4, BegunMoves DEF OthersStay
<1>4. CASE SetStep(p, l)
    <2>1. PICK x \in {"setphase", "system", "setenable", "out"} : Step(p, l, x)
        BY <1>4 DEF SetStep, UnsetEnable, SetPhase, UnsetPhase, SetEnable
    <2>2. x \in Stations
        BY DEF Stations, Hooking
    <2>3. lane'[p][l] = [lane[p][l] EXCEPT !.next = x] /\ OthersStay(p, l)
        BY <2>1, <2>2, StepMoves
    <2>4. lane[p][l] \in LaneRecord
        BY DEF ProcessTypes
    <2>5. [lane[p][l] EXCEPT !.next = x].next = x
        BY <2>4, Zenon DEF LaneRecord
    <2>6. lane'[p][l].next # "wait"
        BY <2>3, <2>5
    <2>7. \A k \in Lanes : k # l => lane'[p][k] = lane[p][k]
        BY <2>3 DEF OthersStay
    <2> QED BY <1>1, <1>2, <2>6, <2>7, BegunMoves
<1>5. CASE GetEnable(p, l)
    <2>0. \A k \in Lanes : lane[p][k] \in LaneRecord
        BY DEF ProcessTypes
    <2>1. CASE penv[p].enable # "1"
        <3>1. Step(p, l, "out") /\ "out" \in Stations
            BY <1>5, <2>1 DEF GetEnable, Stations
        <3>2. lane'[p][l] = [lane[p][l] EXCEPT !.next = "out"]
              /\ OthersStay(p, l)
            BY <3>1, StepMoves
        <3>3. [lane[p][l] EXCEPT !.next = "out"].next = "out"
            BY <2>0, Zenon DEF LaneRecord
        <3>4. lane'[p][l].next # "wait"
            BY <3>2, <3>3
        <3>5. \A k \in Lanes : k # l => lane'[p][k] = lane[p][k]
            BY <3>2 DEF OthersStay
        <3> QED BY <1>1, <1>2, <3>4, <3>5, BegunMoves
    <2>2. CASE penv[p].enable = "1"
        <3>1. lane'[p] = Entered(p, l)
            BY <1>5, <2>2 DEF GetEnable, ProcessTypes
        <3>2. ASSUME NEW k \in Lanes, k # l
              PROVE  /\ lane'[p][k].next = lane[p][k].next
                     /\ lane'[p][k].kid = lane[p][k].kid
            <4>1. \/ lane'[p][k] = lane[p][k]
                  \/ lane'[p][k] = [lane[p][k] EXCEPT !.alone = FALSE]
                BY <3>1, <3>2 DEF Entered
            <4>2. /\ [lane[p][k] EXCEPT !.alone = FALSE].next = lane[p][k].next
                  /\ [lane[p][k] EXCEPT !.alone = FALSE].kid = lane[p][k].kid
                BY <2>0, Zenon DEF LaneRecord
            <4> QED BY <4>1, <4>2
        <3>3. lane'[p][l].next # "wait"
            <4>1. lane'[p][l] = [lane[p][l] EXCEPT
                      !.next = "unsetenable", !.saved = "1",
                      !.alone = (Inside(p) = {})]
                BY <3>1 DEF Entered
            <4> QED BY <2>0, <4>1 DEF LaneRecord
        <3> QED BY <1>1, <1>2, <3>2, <3>3, BegunMoves
    <2> QED BY <2>1, <2>2
<1> QED BY <1>3, <1>4, <1>5

LEMMA BegunSystem ==
    ASSUME ProcessTypes, InheritInv, BegunInv, NEW p \in Pids, NEW l \in Lanes,
           System(p, l)
    PROVE  BegunInv'
<1>1. /\ OthersStay(p, l) /\ world' = world
      /\ lane[p][l] \in LaneRecord
    BY SystemSteps DEF ProcessTypes
<1>2. PICK q \in Pids :
        /\ image[q].state = "none"
        /\ image' = [image EXCEPT ![q] =
             [prog |-> "sh", c |-> TRUE, state |-> "starting",
              by |-> "system", parent |-> p, phase |-> lane[p][l].phase,
              alone |-> lane[p][l].alone]]
        /\ penv' = [penv EXCEPT ![q] = penv[p]]
        /\ libs' = [libs EXCEPT ![q] = penv[p].preload]
        /\ lane' = [lane EXCEPT ![p][l] = [@ EXCEPT !.next = "wait", !.kid = q]]
    BY DEF System
<1>3. /\ image'[q].by = "system" /\ image'[q].state = "starting"
      /\ image'[q].prog = "sh" /\ image'[q].parent = p
      /\ \A r \in Pids \ {q} : /\ image'[r] = image[r]
                               /\ penv'[r] = penv[r] /\ libs'[r] = libs[r]
    BY <1>2 DEF ProcessTypes, InheritInv
<1>4. lane'[p][l].kid = q
    <2>1. [lane[p][l] EXCEPT !.next = "wait", !.kid = q].kid = q
        BY <1>1, Zenon DEF LaneRecord
    <2>2. lane'[p][l] = [lane[p][l] EXCEPT !.next = "wait", !.kid = q]
        BY <1>2 DEF ProcessTypes
    <2> QED BY <2>1, <2>2
<1>5. ASSUME NEW r \in Pids
      PROVE  Begun(r)'
    <2>1. CASE r = q
        BY <1>1, <1>3, <2>1 DEF Begun, System
    <2>2. CASE r # q
        BY <1>1, <1>3, <2>2 DEF Begun, BegunInv
    <2> QED BY <2>1, <2>2
<1>6. ASSUME NEW r \in Pids, NEW k \in Lanes
      PROVE  Waits(r, k)'
    <2>1. CASE r = p /\ k = l
        BY <1>3, <1>4, <2>1 DEF Waits
    <2>2. CASE r # p \/ k # l
        <3>1. lane'[r][k] = lane[r][k]
            BY <1>1, <2>2 DEF OthersStay
        <3>2. Waits(r, k)
            BY DEF BegunInv
        <3> QED BY <1>2, <1>3, <3>1, <3>2 DEF Waits
    <2> QED BY <2>1, <2>2
<1>7. opens' = opens
    BY DEF System
<1> QED BY <1>1, <1>5, <1>6, <1>7 DEF BegunInv

LEMMA BegunImage ==
    ASSUME ProcessTypes, InheritInv, BegunInv, NEW p \in Pids, ImageStep(p)
    PROVE  BegunInv'
<1>1. /\ \A q \in Pids : ImageStays(image[q], image'[q])
      /\ UNCHANGED <<world, lane>>
    BY ImageSteps DEF ImageStep
<1>2. image[p].state # "none" /\ opens' = opens
    BY DEF ImageStep, Start, Ends, ShellRuns, Exec, IsProg, Executes
<1>3. \A q \in Pids \ {p} : /\ image'[q] = image[q]
                            /\ penv'[q] = penv[q] /\ libs'[q] = libs[q]
    BY DEF ImageStep, Start, Ends, ShellRuns, Exec, Executes, ProcessTypes,
           InheritInv
<1>4. /\ image'[p].prog # "unset"
      /\ image'[p].by = "system" => world.command # "unset"
    <2>1. image[p] \in ImageRecord /\ Begun(p)
        BY DEF ProcessTypes, BegunInv
    <2>2. ASSUME NEW x, image' = [image EXCEPT ![p].state = x]
          PROVE  image'[p].prog = image[p].prog /\ image'[p].by = image[p].by
        <3>1. image'[p] = [image[p] EXCEPT !.state = x]
            BY <2>2 DEF ProcessTypes
        <3> QED BY <2>1, <3>1, Zenon DEF ImageRecord
    <2>3. ASSUME NEW file, NEW c, Executes(p, file, c), file # "unset"
          PROVE  image'[p].prog # "unset" /\ image'[p].by = "exec"
        <3> DEFINE g == IF "dontcallshell" \in libs[p]
                        THEN Replaced(file, c) ELSE file
        <3>1. g # "unset"
            BY <2>3 DEF Replaced
        <3>2. image'[p] = [image[p] EXCEPT !.prog = g, !.c = c,
                               !.state = "starting", !.by = "exec"]
            BY <2>3 DEF Executes, ProcessTypes
        <3> HIDE DEF g
        <3>3. image'[p].prog = g /\ image'[p].by = "exec"
            BY <2>1, <3>2, Zenon DEF ImageRecord
        <3> QED BY <3>1, <3>3
    <2>4. CASE Start(p) \/ Ends(p)
        BY <2>1, <2>2, <2>4 DEF Start, Ends, Begun
    <2>5. CASE ShellRuns(p)
        BY <2>1, <2>3, <2>5 DEF ShellRuns, Begun
    <2>6. CASE Exec(p)
        <3>1. PICK e \in world.execs : Executes(p, e[1], e[2])
            BY <2>6 DEF Exec
        <3>2. e[1] # "unset"
            BY DEF ProcessTypes, World, Listed
        <3> QED BY <2>3, <3>1, <3>2
    <2> QED BY <2>4, <2>5, <2>6 DEF ImageStep
<1>5. ASSUME NEW q \in Pids
      PROVE  Begun(q)'
    <2>1. CASE q = p
        <3>1. image'[p].state # "none"
            <4>1. ImageStays(image[p], image'[p])
                BY <1>1
            <4> QED BY <1>2, <4>1 DEF ImageStays
        <3> QED BY <1>1, <1>4, <2>1, <3>1 DEF Begun
    <2>2. CASE q # p
        BY <1>1, <1>3, <2>2 DEF Begun, BegunInv
    <2> QED BY <2>1, <2>2
<1>6. ASSUME NEW q \in Pids, NEW k \in Lanes
      PROVE  Waits(q, k)'
    BY <1>1 DEF BegunInv, Waits, ImageStays
<1> QED BY <1>1, <1>2, <1>5, <1>6 DEF BegunInv

LEMMA BegunStep ==
    ASSUME ProcessTypes, InheritInv, BegunInv,
           ProcessesNext \/ UNCHANGED processVars
    PROVE  BegunInv'
<1>1. CASE UNCHANGED processVars
    BY <1>1 DEF processVars, BegunInv, Begun, Waits
<1>2. ASSUME NEW p \in Pids, ImageStep(p)
      PROVE  BegunInv'
    BY <1>2, BegunImage
<1>3. ASSUME NEW p \in Pids, NEW l \in Lanes,
             LaneStep(p, l) \/ SetStep(p, l) \/ GetEnable(p, l)
      PROVE  BegunInv'
    BY <1>3, BegunHook
<1>4. ASSUME NEW p \in Pids, NEW l \in Lanes, System(p, l)
      PROVE  BegunInv'
    BY <1>4, BegunSystem
<1> QED BY <1>1, <1>2, <1>3, <1>4, StepKinds, Zenon

LEMMA InitBegun == ProcessesInit => BegunInv
<1> SUFFICES ASSUME ProcessesInit
             PROVE  BegunInv
    OBVIOUS
<1>1. /\ world \in Worlds /\ opens \in [Pids -> 0..MaxOpens]
    BY ProcessCallsAssumption DEF ProcessesInit
<1>2. ASSUME NEW p \in Pids
      PROVE  /\ image[p].prog # "unset" /\ image[p].by = "none"
             /\ image[p].state = "none" => p # Root
             /\ penv[p].preload = world.preload
    BY DEF ProcessesInit, NoImage, EnvOf
<1>3. \A p \in Pids, l \in Lanes : lane[p][l].next = "idle"
    BY DEF ProcessesInit, Calm
<1>4. \A p \in Pids : p # Root => libs[p] = {}
    BY DEF ProcessesInit
<1> QED BY <1>1, <1>2, <1>3, <1>4 DEF BegunInv, Begun, Waits

LEMMA ProcessesTyped ==
    ProcessTypes /\ InheritInv /\ BegunInv => ProcessesTypeOK
<1> SUFFICES ASSUME ProcessTypes, InheritInv, BegunInv
             PROVE  ProcessesTypeOK
    OBVIOUS
<1>1. /\ world.preload \subseteq Libs /\ LeftOver \subseteq Libs
    BY DEF ProcessTypes, World, LeftOver
<1>2. ASSUME NEW p \in Pids
      PROVE  /\ penv[p].enable \in {"unset", "0", "1"}
             /\ penv[p].phase \in Phases \cup {"unset"}
             /\ image[p].prog \in
                  Listed \cup {"none", "prog", "/usr/bin/sh", "notashell"}
    <2>1. penv[p] \in EnvRecord /\ image[p] \in ImageRecord /\ Begun(p)
        BY DEF ProcessTypes, BegunInv
    <2>2. /\ penv[p].enable \in {"unset", "0", "1"} /\ penv[p].phase \in Told
          /\ image[p].prog \in Programs
        BY <2>1, Zenon DEF EnvRecord, ImageRecord
    <2> QED BY <2>1, <2>2 DEF Told, Programs, Listed, Begun
<1>3. ASSUME NEW p \in Pids
      PROVE  penv[p].preload \subseteq Libs /\ libs[p] \subseteq Libs
    <2>1. Inherits(p) /\ Begun(p) /\ RootStarts
        BY DEF InheritInv, BegunInv
    <2> QED BY <1>1, <2>1
            DEF Inherits, Begun, RestoredLibs, SameLibs, RootStarts, Starts
<1>4. ASSUME NEW p \in Pids, NEW l \in Lanes
      PROVE  /\ lane[p][l].next \in Hooking \cup {"idle", "getenable", "out"}
             /\ lane[p][l].next = "wait" => image[lane[p][l].kid].parent = p
    <2>1. lane[p][l] \in LaneRecord /\ Waits(p, l)
        BY DEF ProcessTypes, BegunInv
    <2>2. lane[p][l].next \in Stations
        BY <2>1, Zenon DEF LaneRecord
    <2> QED BY <2>1, <2>2 DEF Stations, Waits
<1> QED BY <1>2, <1>3, <1>4 DEF ProcessesTypeOK, BegunInv

\* The types of the wrappers of sockets, of paths and of processes, in every
\* state of a program that calls them all.
THEOREM WrappersTyped == Spec => []TypeOK
<1>1. Init => InheritInv /\ BegunInv
    BY InitInherits, InitBegun DEF Init
<1>2. ProcessTypes /\ BackInv /\ InheritInv /\ BegunInv /\ [Next]_vars =>
          InheritInv' /\ BegunInv'
    BY ProcessStep, InheritStep, BegunStep
<1>3. ProcessTypes /\ InheritInv /\ BegunInv => ProcessesTypeOK
    BY ProcessesTyped
<1>4. FileInv => FilesTypeOK
    BY FilesTyped
<1>5. SocketsTypeOK /\ FilesTypeOK /\ ProcessesTypeOK => TypeOK
    BY DEF TypeOK
<1> QED BY <1>1, <1>2, <1>3, <1>4, <1>5, BackSpec, FileInvHolds,
           SocketsTypeCorrect, PTL DEF Spec
=============================================================================
