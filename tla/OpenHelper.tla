----------------------------- MODULE OpenHelper -----------------------------
(***************************************************************************)
(* openhelper.so (src/src/openhelper.c): open, open64, fopen and fopen64   *)
(* of a program, and the helper commands they start in place of opening a  *)
(* file.  One action per system call; the threads of the program share its *)
(* descriptors, which fork copies.  Call number n has temporary file n and *)
(* helper process n.                                                       *)
(***************************************************************************)
EXTENDS Naturals, FiniteSetsExt

CONSTANTS Threads,  \* threads of the program
          MaxCalls, \* helper processes the system has room for
          MaxFd,    \* the largest descriptor a process may open
          Stdio,    \* descriptors 0..2 the program was started with
          Envs,     \* which of the two variables are set
          Output,   \* how many lines a helper command may print
          Faults    \* system calls that may fail though nothing is wrong

Helpers == 1..MaxCalls
Fds == 0..MaxFd

ASSUME OpenHelperAssumption ==
    /\ MaxCalls \in Nat /\ MaxFd \in Nat \ {0, 1} /\ Output \in Nat
    /\ Threads \cap Helpers = {}
    /\ Stdio \subseteq {0, 1, 2} \cap Fds
    /\ Envs \subseteq [command : BOOLEAN, pattern : BOOLEAN]
    /\ Faults \subseteq {"tmpfile", "fork", "reopen", "exec", "open",
                         "eintr", "sigchld"}

VARIABLES env,     \* OPENHELPER_COMMAND, OPENHELPER_FNMATCH: set or not
          fds,     \* descriptors of each process
          pc,      \* the next system call of each thread and helper
          match,   \* the file each thread opens matches the pattern
          call,    \* the number of the call each thread is in, 0 if none
          result,  \* the descriptor each thread is going to return, and in a
                   \* helper that of tmpf, then of tmpf2
          text,    \* lines in each temporary file
          offset,  \* where the program's descriptor of it stands
          status,  \* how each helper command has ended
          made,    \* number of calls that have started
          lost     \* files of calls that have failed after their fork

vars == <<env, fds, pc, match, call, result, text, offset, status, made, lost>>

\* What a descriptor refers to: a temporary file as tmpfile(3) has opened it
\* for the program, or as the helper has opened it again.
Closed == [kind |-> "closed"]
Std == [kind |-> "std"]
Plain == [kind |-> "plain"]
Tmp(n) == [kind |-> "tmp", file |-> n]
Again(n) == [kind |-> "again", file |-> n]
File == {Closed, Std, Plain} \cup {Tmp(n) : n \in Helpers}
            \cup {Again(n) : n \in Helpers}

Program == 0
Procs == {Program} \cup Helpers

FreeFds(p) == {fd \in Fds : fds[p][fd] = Closed}
Lowest(p) == Min(FreeFds(p))
SetFd(p, fd, file) == fds' = [fds EXCEPT ![p][fd] = file]
Goto(t, label) == pc' = [pc EXCEPT ![t] = label]

HowEnded == {"ok", "bad", "killed"}

Init ==
    /\ env \in Envs
    /\ fds = [p \in Procs |-> [fd \in Fds |->
                IF p = Program /\ fd \in Stdio THEN Std ELSE Closed]]
    /\ pc = [t \in Threads \cup Helpers |->
                IF t \in Threads THEN "idle" ELSE "unborn"]
    /\ match = [t \in Threads |-> FALSE]
    /\ call = [t \in Threads |-> 0]
    /\ result = [t \in Threads \cup Helpers |-> 0]
    /\ text = [n \in Helpers |-> 0]
    /\ offset = [n \in Helpers |-> 0]
    /\ status = [n \in Helpers |-> "none"]
    /\ made = 0
    /\ lost = {}

-----------------------------------------------------------------------------
(* The program's calls *)

Provided(matches) == env.command /\ env.pattern /\ matches

Open(t) ==
    /\ pc[t] = "idle"
    /\ \E matches \in BOOLEAN :
            /\ match' = [match EXCEPT ![t] = matches]
            /\ Goto(t, IF Provided(matches) THEN "tmpfile" ELSE "std")
    /\ UNCHANGED <<env, fds, call, result, text, offset, status, made, lost>>

TmpFile(t) ==
    /\ pc[t] = "tmpfile"
    /\ FreeFds(Program) # {} /\ made < MaxCalls
    /\ made' = made + 1
    /\ call' = [call EXCEPT ![t] = made']
    /\ result' = [result EXCEPT ![t] = Lowest(Program)]
    /\ SetFd(Program, Lowest(Program), Tmp(made'))
    /\ Goto(t, "fork")
    /\ UNCHANGED <<env, match, text, offset, status, lost>>

\* Slip: without a temporary file the file itself is opened.
TmpFileFallsBack(t) ==
    /\ pc[t] = "tmpfile"
    /\ FreeFds(Program) = {} \/ made = MaxCalls \/ "tmpfile" \in Faults
    /\ Goto(t, "std")
    /\ UNCHANGED <<env, fds, match, call, result, text, offset, status, made,
                   lost>>

TmpFileFails(t) ==
    /\ pc[t] = "tmpfile"
    /\ FreeFds(Program) = {} \/ made = MaxCalls \/ "tmpfile" \in Faults
    /\ Goto(t, "failed")
    /\ UNCHANGED <<env, fds, match, call, result, text, offset, status, made,
                   lost>>

Fork(t) ==
    /\ pc[t] = "fork"
    /\ LET n == call[t]
       IN  /\ pc' = [pc EXCEPT ![t] = "wait", ![n] = "forked"]
           /\ fds' = [fds EXCEPT ![n] = fds[Program]]
           /\ result' = [result EXCEPT ![n] = result[t]]
    /\ UNCHANGED <<env, match, call, text, offset, status, made, lost>>

\* Slip: the temporary file stays open.
ForkFailsLeaks(t) ==
    /\ pc[t] = "fork"
    /\ "fork" \in Faults
    /\ Goto(t, "failed")
    /\ UNCHANGED <<env, fds, match, call, result, text, offset, status, made,
                   lost>>

\* Slip: the program waits for a child it has not got.
ForkFailsWaits(t) ==
    /\ pc[t] = "fork"
    /\ "fork" \in Faults
    /\ Goto(t, "wait")
    /\ UNCHANGED <<env, fds, match, call, result, text, offset, status, made,
                   lost>>

ForkFails(t) ==
    /\ pc[t] = "fork"
    /\ "fork" \in Faults
    /\ SetFd(Program, result[t], Closed)
    /\ Goto(t, "failed")
    /\ UNCHANGED <<env, match, call, result, text, offset, status, made, lost>>

Wait(t) ==
    /\ pc[t] = "wait"
    /\ LET n == call[t]
           good == status[n] = "ok"
       IN  /\ pc[n] = "zombie"
           /\ pc' = [pc EXCEPT ![n] = "reaped",
                               ![t] = IF good THEN "replaced" ELSE "failed"]
           /\ lost' = IF good THEN lost ELSE lost \cup {n}
    /\ UNCHANGED <<env, fds, match, call, result, text, offset, status, made>>

\* The temporary file stays open.
WaitReturnsError(t) ==
    /\ Goto(t, "failed")
    /\ lost' = lost \cup {call[t]}
    /\ UNCHANGED <<env, fds, match, call, result, text, offset, status, made>>

\* Slip: waitpid is called again whenever it fails.
WaitFailsRetries(t) ==
    /\ pc[t] = "wait"
    /\ pc[call[t]] = "reaped"
    /\ UNCHANGED vars

\* waitpid fails with ECHILD, as the program has reaped the helper itself.
WaitFails(t) ==
    /\ pc[t] = "wait"
    /\ pc[call[t]] = "reaped"
    /\ WaitReturnsError(t)

\* waitpid fails with EINTR at a signal that may come; the helper runs on.
WaitInterrupted(t) ==
    /\ pc[t] = "wait"
    /\ "eintr" \in Faults
    /\ WaitReturnsError(t)

\* The real open.
RealOpen(t) ==
    /\ pc[t] = "std"
    /\ FreeFds(Program) # {}
    /\ result' = [result EXCEPT ![t] = Lowest(Program)]
    /\ SetFd(Program, Lowest(Program), Plain)
    /\ Goto(t, "plain")
    /\ UNCHANGED <<env, match, call, text, offset, status, made, lost>>

RealOpenFails(t) ==
    /\ pc[t] = "std"
    /\ FreeFds(Program) = {} \/ "open" \in Faults
    /\ Goto(t, "failed")
    /\ UNCHANGED <<env, fds, match, call, result, text, offset, status, made,
                   lost>>

\* The program closes what it was given, or takes note that it failed.
Close(t) ==
    /\ pc[t] \in {"replaced", "plain", "failed"}
    /\ IF pc[t] = "failed" THEN UNCHANGED fds
       ELSE SetFd(Program, result[t], Closed)
    /\ Goto(t, "idle")
    /\ match' = [match EXCEPT ![t] = FALSE]
    /\ call' = [call EXCEPT ![t] = 0]
    /\ result' = [result EXCEPT ![t] = 0]
    /\ UNCHANGED <<env, text, offset, status, made, lost>>

\* A handler of SIGCHLD in the program reaps whatever child has ended.
Reap(h) ==
    /\ "sigchld" \in Faults
    /\ pc[h] = "zombie"
    /\ Goto(h, "reaped")
    /\ UNCHANGED <<env, fds, match, call, result, text, offset, status, made,
                   lost>>

-----------------------------------------------------------------------------
(* A helper process, from fork to the end of the helper command *)

Ends(h, how) ==
    /\ status' = [status EXCEPT ![h] = how]
    /\ fds' = [fds EXCEPT ![h] = [fd \in Fds |-> Closed]]
    /\ Goto(h, "zombie")
    /\ result' = [result EXCEPT ![h] = 0]
    /\ UNCHANGED <<env, match, call, text, offset, made, lost>>

CloseStdio(h) ==
    /\ pc[h] = "forked"
    /\ fds' = [fds EXCEPT ![h][0] = Closed, ![h][1] = Closed]
    /\ Goto(h, "closed")
    /\ UNCHANGED <<env, match, call, result, text, offset, status, made, lost>>

\* Slip: the descriptor is copied in place of being opened anew.
ReopenDup(h) ==
    /\ pc[h] = "closed"
    /\ fds[h][result[h]] = Tmp(h)
    /\ result' = [result EXCEPT ![h] = Lowest(h)]
    /\ SetFd(h, Lowest(h), Tmp(h))
    /\ Goto(h, "opened")
    /\ UNCHANGED <<env, match, call, text, offset, status, made, lost>>

\* fopen of /dev/fd/N for writing empties the file.
Reopen(h) ==
    /\ pc[h] = "closed"
    /\ fds[h][result[h]] = Tmp(h)
    /\ result' = [result EXCEPT ![h] = Lowest(h)]
    /\ SetFd(h, Lowest(h), Again(h))
    /\ text' = [text EXCEPT ![h] = 0]
    /\ Goto(h, "opened")
    /\ UNCHANGED <<env, match, call, offset, status, made, lost>>

\* Descriptor N may have been closed with standard input and output.
ReopenFails(h) ==
    /\ pc[h] = "closed"
    /\ fds[h][result[h]] = Closed \/ "reopen" \in Faults
    /\ Ends(h, "bad")

\* Slip: standard output stays closed.
WireNot(h) ==
    /\ pc[h] = "opened"
    /\ Goto(h, "wired")
    /\ UNCHANGED <<env, fds, match, call, result, text, offset, status, made,
                   lost>>

Wire(h) ==
    /\ pc[h] = "opened"
    /\ SetFd(h, 1, fds[h][result[h]])
    /\ Goto(h, "wired")
    /\ UNCHANGED <<env, match, call, result, text, offset, status, made, lost>>

\* sh is executed, without OPENHELPER_COMMAND.
Exec(h) ==
    /\ pc[h] = "wired"
    /\ Goto(h, "running")
    /\ UNCHANGED <<env, fds, match, call, result, text, offset, status, made,
                   lost>>

ExecFails(h) == pc[h] = "wired" /\ "exec" \in Faults /\ Ends(h, "bad")

\* The helper command prints a line.  What it prints through a copy of the
\* program's descriptor moves that one's offset.
Writes(h) ==
    /\ pc[h] = "running"
    /\ LET f == fds[h][1]
       IN  /\ f.kind \in {"tmp", "again"}
           /\ text[f.file] < Output
           /\ text' = [text EXCEPT ![f.file] = @ + 1]
           /\ offset' = IF f.kind = "tmp" THEN [offset EXCEPT ![f.file] = @ + 1]
                        ELSE offset
    /\ UNCHANGED <<env, fds, pc, match, call, result, status, made, lost>>

CommandEnds(h) ==
    /\ pc[h] = "running"
    /\ \E how \in {"ok", "bad"} : Ends(h, how)

Killed(h) ==
    /\ pc[h] \in {"forked", "closed", "opened", "wired", "running"}
    /\ Ends(h, "killed")

Thread(t) ==
    \/ TmpFile(t)
    \/ TmpFileFails(t)
    \/ Fork(t)
    \/ ForkFails(t)
    \/ Wait(t)
    \/ WaitFails(t)
    \/ RealOpen(t)
    \/ RealOpenFails(t)

Helper(h) ==
    \/ CloseStdio(h)
    \/ Reopen(h)
    \/ ReopenFails(h)
    \/ Wire(h)
    \/ Exec(h)
    \/ ExecFails(h)

Next ==
    \/ \E t \in Threads :
            Open(t) \/ Thread(t) \/ WaitInterrupted(t) \/ Close(t)
    \/ \E h \in Helpers :
            Helper(h) \/ Writes(h) \/ CommandEnds(h) \/ Killed(h) \/ Reap(h)

\* System calls return, waitpid once its helper is no more.  Nobody has to call
\* or to send a signal, and a helper command need not end.
Fairness ==
    /\ \A t \in Threads : WF_vars(Thread(t))
    /\ \A h \in Helpers : WF_vars(Helper(h))

Spec == Init /\ [][Next]_vars /\ Fairness

-----------------------------------------------------------------------------
(* Properties *)

Calling == {"tmpfile", "fork", "wait", "std"}
Returned == {"idle", "replaced", "plain", "failed"}
HelperStates == {"unborn", "forked", "closed", "opened", "wired", "running",
                 "zombie", "reaped"}

\* Every variable has its type, and a thread that waits has a helper.
TypeOK ==
    /\ env \in Envs
    /\ fds \in [Procs -> [Fds -> File]]
    /\ pc \in [Threads \cup Helpers -> Calling \cup Returned \cup HelperStates]
    /\ match \in [Threads -> BOOLEAN]
    /\ call \in [Threads -> 0..MaxCalls]
    /\ result \in [Threads \cup Helpers -> Fds]
    /\ text \in [Helpers -> 0..Output]
    /\ offset \in [Helpers -> 0..Output]
    /\ status \in [Helpers -> HowEnded \cup {"none"}]
    /\ made \in 0..MaxCalls
    /\ lost \subseteq Helpers
    /\ \A t \in Threads : pc[t] \in {"fork", "wait"} => call[t] \in Helpers
    /\ \A t \in Threads : pc[t] = "wait" => pc[call[t]] # "unborn"

\* What a caller gets in place of its file is its own temporary file, read
\* from the start, of a helper command that has ended well.  No other process
\* has opened it anew, and no command prints to it, though the helpers of calls
\* in other threads inherit the program's descriptor of it, open for writing
\* too.
ResultComplete ==
    \A t \in Threads : pc[t] = "replaced" =>
        LET n == call[t]
        IN  /\ fds[Program][result[t]] = Tmp(n)
            /\ status[n] = "ok"
            /\ offset[n] = 0
            /\ \A h \in Helpers, fd \in Fds : fds[h][fd] # Again(n)
            /\ \A h \in Helpers : pc[h] = "running" => fds[h][1] # Tmp(n)

\* However calls are mixed, a helper command prints to its own file only, and
\* only while the call that has started it waits or has failed.
WritesOwnFile ==
    \A h \in Helpers : pc[h] = "running" =>
        /\ fds[h][1] = Again(h)
        /\ h \in lost \/ \E t \in Threads : call[t] = h /\ pc[t] = "wait"

\* A caller whose file a helper command is to provide never gets the file
\* itself, whatever fails.
NeverPlain == \A t \in Threads : pc[t] = "plain" => ~Provided(match[t])

\* A temporary file that is open in the program belongs to a call in progress,
\* to a caller that has not closed it, or to a call that has failed after fork.
OpenFilesAccounted ==
    \A fd \in Fds, n \in Helpers : fds[Program][fd] = Tmp(n) =>
        \/ n \in lost
        \/ \E t \in Threads : /\ call[t] = n /\ result[t] = fd
                              /\ pc[t] \in {"fork", "wait", "replaced"}

\* A helper command that runs for a thread's call, which waits for it.
Provides(t) == pc[t] = "wait" /\ pc[call[t]] = "running"

\* Every call returns, unless its helper command runs for ever: whatever fails,
\* whoever reaps or kills the helper, and though no signal has to come.
CallsReturn ==
    \A t \in Threads : []<>(pc[t] \in Returned) \/ <>[]Provides(t)
=============================================================================
