---------------------------- MODULE CupsGetpass ----------------------------
(***************************************************************************)
(* cupsgetpass.so (src/src/cupsgetpass.c): the getpass wrapper, one action *)
(* per system call of the calling threads and of the forked child, with    *)
(* the ends of the two pipes that every fork copies, and the askpass       *)
(* program of CUPS_ASKPASS, which may read its input or not and may write  *)
(* more or less than a line.                                               *)
(*                                                                         *)
(* Call number n has askpass process n and two pipes: "in" carries the     *)
(* prompt to it, "ex" its answer back.                                     *)
(***************************************************************************)
EXTENDS Integers, Sequences, FiniteSetsExt

CONSTANTS Threads,   \* threads of the program
          MaxCalls,  \* calls that ask a program
          Envs,      \* environments of the program
          PassMax,   \* PASS_MAX
          Capacity   \* of a pipe, in characters

Helpers == 1..MaxCalls
Tasks == Threads \cup Helpers
Program == 0
Procs == {Program} \cup Helpers

\* A character of a text.  "u" is what the program has printed, but not yet
\* written; "d" is in a file of its own.
Chars == {"c", "nl", "u", "d"}
Null == <<"null">>       \* no string
Overrun == <<"overrun">> \* a string without its end

\* callers: threads that call getpass; password: CUPS_PASSWORD; askpass: whether
\* CUPS_ASKPASS names a program, and how much it reads of its input; says: most
\* characters it writes; libc: the library's path to libc is right; printed:
\* something printed is still in a buffer; sigpipe: it is ignored; faults:
\* system calls that may fail, and signals that may come.
Env == [callers : SUBSET Threads, password : Seq({"c"}) \cup {Null},
        askpass : {"unset", "nothing", "prompt", "all"}, says : Nat,
        libc : BOOLEAN, printed : BOOLEAN, sigpipe : BOOLEAN,
        faults : SUBSET {"pipe", "fork", "exec", "eintr", "sigchld", "kill"}]

ASSUME CupsGetpassAssumption ==
    /\ MaxCalls \in Nat /\ Capacity \in Nat \ {0}
    /\ PassMax \in Nat \ {0, 1}
    /\ Threads \cap Helpers = {}
    /\ Envs \subseteq Env

VARIABLES env,    \* the environment
          held,   \* what each process has open
          pc,     \* the next system call of each task, or how it has ended
          call,   \* the call each thread is in, 0 if none
          end,    \* pipe_in and pipe_ex of each task
          asked,  \* calls whose prompt is in the pipe
          said,   \* what each askpass program has written
          answer, \* what of it is in the pipe
          text,   \* what fgets has read, then getpass_pwd
          waited, \* threads whose waitpid has told them the status
          status, \* how each askpass process has ended
          made    \* number of calls so far

vars == <<env, held, pc, call, end, asked, said, answer, text, waited, status,
          made>>

\* What a descriptor refers to: a pipe's end, or a file of the program.
End(n, pipe, side) == [call |-> n, pipe |-> pipe, side |-> side]
Own == End(0, "file", "both")
Ends == {End(n, pipe, side) :
            n \in Helpers, pipe \in {"in", "ex"}, side \in {"r", "w"}}

\* What the variables of a failed pipe hold: nothing that is open, or a number
\* that happens to be that of the program's file.
NoEnd == End(0, "none", "both")
Garbage == {NoEnd, Own}
Pipe == [r : Ends \cup Garbage, w : Ends \cup Garbage]
NoPipe == [r |-> NoEnd, w |-> NoEnd]
PipeOf(n, pipe) == [r |-> End(n, pipe, "r"), w |-> End(n, pipe, "w")]

Init ==
    /\ env \in Envs
    /\ held = [p \in Procs |-> IF p = Program THEN {Own} ELSE {}]
    /\ pc = [t \in Tasks |-> IF t \in Threads THEN "idle" ELSE "unborn"]
    /\ call = [t \in Threads |-> 0]
    /\ end = [t \in Tasks |-> [in |-> NoPipe, ex |-> NoPipe]]
    /\ asked = {}
    /\ said = [n \in Helpers |-> <<>>]
    /\ answer = [n \in Helpers |-> <<>>]
    /\ text = [t \in Threads |-> Null]
    /\ waited = {}
    /\ status = [n \in Helpers |-> "none"]
    /\ made = 0

-----------------------------------------------------------------------------
(* Pipes *)

Goto(t, label) == pc' = [pc EXCEPT ![t] = label]
Close(p, e) == held' = [held EXCEPT ![p] = @ \ {e}]
Opens(p, pipe) == held' = [held EXCEPT ![p] = @ \cup {pipe.r, pipe.w}]

\* Nobody has this end of the pipe: its reader sees the end of the file, its
\* writer is told that nobody reads.
Gone(n, pipe, side) == \A p \in Procs : End(n, pipe, side) \notin held[p]

Full(n) == Len(answer[n]) = Capacity

\* fgets: where the line that begins a text ends, and whether it is complete.
LineEnd(s) == Min({i \in DOMAIN s : s[i] = "nl"} \cup {Len(s) + 1})
IsLine(s) == LineEnd(s) <= Len(s) \/ Len(s) >= PassMax - 1
FirstLine(s) == SubSeq(s, 1, Min({LineEnd(s) - 1, PassMax - 1}))

\* A signal ends the program, or it calls exit.
Dies(how) ==
    /\ pc' = [t \in Tasks |-> IF t \in Threads THEN how ELSE pc[t]]
    /\ held' = [held EXCEPT ![Program] = {}]
    /\ call' = [t \in Threads |-> 0]
    /\ end' = [t \in Tasks |-> IF t \in Threads
                               THEN [in |-> NoPipe, ex |-> NoPipe] ELSE end[t]]
    /\ text' = [t \in Threads |-> Null]
    /\ waited' = {}
    /\ UNCHANGED <<env, asked, said, answer, status, made>>

-----------------------------------------------------------------------------
(* getpass, in a thread of the program *)

\* strncpy of PASS_MAX characters ends a shorter string only.
Copy(s) == IF Len(s) >= PassMax THEN Overrun ELSE s

Getpass(t) ==
    /\ pc[t] \in {"idle", "returned"} /\ t \in env.callers /\ env.libc
    /\ IF env.password # Null
       THEN /\ text' = [text EXCEPT ![t] = Copy(env.password)]
            /\ Goto(t, "returned")
            /\ UNCHANGED <<call, made>>
       ELSE /\ text' = [text EXCEPT ![t] = Null]
            /\ IF env.askpass = "unset"
               THEN Goto(t, "real") /\ UNCHANGED <<call, made>>
               ELSE /\ made < MaxCalls
                    /\ made' = made + 1
                    /\ call' = [call EXCEPT ![t] = made']
                    /\ Goto(t, "pipe_in")
    /\ waited' = waited \ {t}
    /\ UNCHANGED <<env, held, end, asked, said, answer, status>>

\* errx: the library has not found libc, whatever it was to do.
GetpassExits(t) ==
    pc[t] = "idle" /\ t \in env.callers /\ ~env.libc /\ Dies("exited")

\* libc's own getpass asks the user.
RealGetpass(t) ==
    /\ pc[t] = "real"
    /\ Goto(t, "idle")
    /\ UNCHANGED <<env, held, call, end, asked, said, answer, text, waited,
                   status, made>>

PipeIn(t) ==
    /\ pc[t] = "pipe_in"
    /\ end' = [end EXCEPT ![t].in = PipeOf(call[t], "in")]
    /\ Opens(Program, PipeOf(call[t], "in"))
    /\ Goto(t, "pipe_ex")
    /\ UNCHANGED <<env, call, asked, said, answer, text, waited, status, made>>

PipeEx(t) ==
    /\ pc[t] = "pipe_ex"
    /\ end' = [end EXCEPT ![t].ex = PipeOf(call[t], "ex")]
    /\ Opens(Program, PipeOf(call[t], "ex"))
    /\ Goto(t, "fork")
    /\ UNCHANGED <<env, call, asked, said, answer, text, waited, status, made>>

\* The result of pipe is not looked at.
PipeFails(t) ==
    /\ "pipe" \in env.faults
    /\ \E r, w \in Garbage :
            \/ /\ pc[t] = "pipe_in"
               /\ end' = [end EXCEPT ![t].in = [r |-> r, w |-> w]]
               /\ Goto(t, "pipe_ex")
            \/ /\ pc[t] = "pipe_ex"
               /\ end' = [end EXCEPT ![t].ex = [r |-> r, w |-> w]]
               /\ Goto(t, "fork")
    /\ UNCHANGED <<env, held, call, asked, said, answer, text, waited, status,
                   made>>

Fork(t) ==
    /\ pc[t] = "fork"
    /\ pc' = [pc EXCEPT ![t] = "close_ir", ![call[t]] = "forked"]
    /\ held' = [held EXCEPT ![call[t]] = held[Program]]
    /\ end' = [end EXCEPT ![call[t]] = end[t]]
    /\ UNCHANGED <<env, call, asked, said, answer, text, waited, status, made>>

\* Slip: two of the four descriptors stay open.
ForkFailsLeaks(t) ==
    /\ pc[t] = "fork" /\ "fork" \in env.faults
    /\ held' = [held EXCEPT ![Program] = @ \ {end[t].in.r, end[t].ex.r}]
    /\ Goto(t, "returned")
    /\ UNCHANGED <<env, call, end, asked, said, answer, text, waited, status,
                   made>>

\* Slip: -1 is taken for the number of a child.
ForkFailsWaits(t) ==
    /\ pc[t] = "fork" /\ "fork" \in env.faults
    /\ Goto(t, "close_ir")
    /\ UNCHANGED <<env, held, call, end, asked, said, answer, text, waited,
                   status, made>>

ForkFails(t) ==
    /\ pc[t] = "fork" /\ "fork" \in env.faults
    /\ held' = [held EXCEPT ![Program] =
                   @ \ {end[t].in.r, end[t].in.w, end[t].ex.r, end[t].ex.w}]
    /\ Goto(t, "returned")
    /\ UNCHANGED <<env, call, end, asked, said, answer, text, waited, status,
                   made>>

CloseThen(t, label, e, next) ==
    /\ pc[t] = label
    /\ Close(Program, e)
    /\ Goto(t, next)
    /\ UNCHANGED <<env, call, end, asked, said, answer, text, waited, status,
                   made>>

CloseInR(t) == CloseThen(t, "close_ir", end[t].in.r, "close_ew")
CloseExW(t) == CloseThen(t, "close_ew", end[t].ex.w, "prompt")

\* Slip: the writing end of the prompt's pipe stays open until the end.
CloseInWLater(t) == CloseThen(t, "close_iw", NoEnd, "read")

CloseInW(t) == CloseThen(t, "close_iw", end[t].in.w, "read")
CloseExR(t) == CloseThen(t, "close_er", end[t].ex.r, "wait")

\* Nobody reads the prompt any more: SIGPIPE, or an error nobody looks at.
\* Without a pipe there is no stream to print to.
Prompt(t) ==
    /\ pc[t] = "prompt"
    /\ end[t].in.w # NoEnd
    /\ end[t].in.w # Own => ~ Gone(call[t], "in", "r") \/ env.sigpipe
    /\ asked' = IF end[t].in.w = Own THEN asked ELSE asked \cup {call[t]}
    /\ Goto(t, "close_iw")
    /\ UNCHANGED <<env, held, call, end, said, answer, text, waited, status,
                   made>>

Crashes(t) ==
    /\ \/ /\ pc[t] = "prompt"
          /\ \/ end[t].in.w = NoEnd
             \/ end[t].in.w # Own /\ Gone(call[t], "in", "r") /\ ~env.sigpipe
       \/ pc[t] = "read" /\ end[t].ex.r = NoEnd
    /\ Dies("killed")

\* The characters that fgets has so far.
Got(t) == IF text[t] = Null THEN <<>> ELSE text[t]

\* read(2), called by fgets.
Read(t) ==
    /\ pc[t] = "read" /\ ~ IsLine(Got(t))
    /\ IF end[t].ex.r = Own
       THEN text' = [text EXCEPT ![t] = <<"d", "nl">>] /\ UNCHANGED answer
       ELSE /\ end[t].ex.r # NoEnd /\ answer[call[t]] # <<>>
            /\ text' = [text EXCEPT ![t] = Got(t) \o answer[call[t]]]
            /\ answer' = [answer EXCEPT ![call[t]] = <<>>]
    /\ UNCHANGED <<env, held, pc, call, end, asked, said, waited, status, made>>

\* fgets returns a line, or what there is, without its end; or nothing.
ReadEnds(t) ==
    /\ pc[t] = "read"
    /\ \/ IsLine(Got(t))
       \/ /\ end[t].ex.r \notin Garbage
          /\ answer[call[t]] = <<>> /\ Gone(call[t], "ex", "w")
    /\ text' = [text EXCEPT ![t] = IF Got(t) = <<>> THEN Null
                                   ELSE FirstLine(Got(t))]
    /\ Goto(t, "close_er")
    /\ UNCHANGED <<env, held, call, end, asked, said, answer, waited, status,
                   made>>

\* A signal: fgets fails.
ReadFails(t) ==
    /\ pc[t] = "read" /\ "eintr" \in env.faults /\ ~ IsLine(Got(t))
    /\ text' = [text EXCEPT ![t] = Null]
    /\ Goto(t, "close_er")
    /\ UNCHANGED <<env, held, call, end, asked, said, answer, waited, status,
                   made>>

\* Slip: the status is not looked at.
WaitAnyStatus(t) ==
    /\ pc[t] = "wait" /\ pc[call[t]] = "zombie"
    /\ pc' = [pc EXCEPT ![t] = "returned", ![call[t]] = "reaped"]
    /\ waited' = waited \cup {t}
    /\ UNCHANGED <<env, held, call, end, asked, said, answer, text, status,
                   made>>

\* WEXITSTATUS of a process that a signal has ended is 0.
Wait(t) ==
    /\ pc[t] = "wait" /\ pc[call[t]] = "zombie"
    /\ pc' = [pc EXCEPT ![t] = "returned", ![call[t]] = "reaped"]
    /\ waited' = waited \cup {t}
    /\ text' = IF status[call[t]] = "bad" THEN [text EXCEPT ![t] = Null]
               ELSE text
    /\ UNCHANGED <<env, held, call, end, asked, said, answer, status, made>>

\* EINTR, or ECHILD when the program itself has reaped the process.
WaitFails(t) ==
    /\ pc[t] = "wait"
    /\ "eintr" \in env.faults \/ pc[call[t]] = "reaped"
    /\ Goto(t, "returned")
    /\ UNCHANGED <<env, held, call, end, asked, said, answer, text, waited,
                   status, made>>

\* A handler of SIGCHLD in the program.
Reap(n) ==
    /\ pc[n] = "zombie" /\ "sigchld" \in env.faults
    /\ Goto(n, "reaped")
    /\ UNCHANGED <<env, held, call, end, asked, said, answer, text, waited,
                   status, made>>

-----------------------------------------------------------------------------
(* The askpass process *)

Dead(n, how) ==
    /\ status' = [status EXCEPT ![n] = how]
    /\ held' = [held EXCEPT ![n] = {}]
    /\ Goto(n, "zombie")
    /\ end' = [end EXCEPT ![n] = [in |-> NoPipe, ex |-> NoPipe]]
    /\ UNCHANGED <<env, call, asked, said, text, waited, made>>

Wire(n) ==
    /\ pc[n] = "forked"
    /\ held' = [held EXCEPT ![n] = @ \ {end[n].in.w, end[n].ex.r}]
    /\ Goto(n, "wired")
    /\ UNCHANGED <<env, call, end, asked, said, answer, text, waited, status,
                   made>>

\* Every descriptor stays open: none of them is closed on exec.
Exec(n) ==
    /\ pc[n] = "wired"
    /\ Goto(n, "asking")
    /\ UNCHANGED <<env, held, call, end, asked, said, answer, text, waited,
                   status, made>>

\* exit writes what the program had printed, to the answer.
ExecFails(n) ==
    /\ pc[n] = "wired" /\ "exec" \in env.faults
    /\ answer' = IF env.printed /\ end[n].ex.w \notin Garbage
                 THEN [answer EXCEPT ![n] = <<"u">>] ELSE answer
    /\ Dead(n, "bad")

\* The program reads its input as it does.
Reads(n) ==
    /\ pc[n] = "asking"
    /\ \/ env.askpass = "nothing" \/ end[n].in.r \in Garbage
       \/ env.askpass = "prompt" /\ n \in asked
       \/ Gone(n, "in", "w")
    /\ Goto(n, "running")
    /\ UNCHANGED <<env, held, call, end, asked, said, answer, text, waited,
                   status, made>>

\* It writes a character, or waits for room.
Writes(n) ==
    /\ pc[n] = "running" /\ Len(said[n]) < env.says
    /\ end[n].ex.w \notin Garbage /\ ~ Gone(n, "ex", "r")
    /\ IF Full(n) THEN Goto(n, "blocked") /\ UNCHANGED <<said, answer>>
       ELSE /\ \E ch \in {"c", "nl"} :
                    /\ said' = [said EXCEPT ![n] = Append(@, ch)]
                    /\ answer' = [answer EXCEPT ![n] = Append(@, ch)]
            /\ UNCHANGED pc
    /\ UNCHANGED <<env, held, call, end, asked, text, waited, status, made>>

Unblocks(n) ==
    /\ pc[n] = "blocked" /\ ~ Full(n)
    /\ Goto(n, "running")
    /\ UNCHANGED <<env, held, call, end, asked, said, answer, text, waited,
                   status, made>>

\* SIGPIPE, or somebody kills it.
Killed(n) ==
    /\ \/ pc[n] \in {"running", "blocked"} /\ end[n].ex.w \notin Garbage
          /\ Gone(n, "ex", "r")
       \/ pc[n] \in {"asking", "running", "blocked"} /\ "kill" \in env.faults
    /\ Dead(n, "killed") /\ UNCHANGED answer

AskEnds(n) ==
    /\ pc[n] = "running"
    /\ \E how \in {"ok", "bad"} : Dead(n, how)
    /\ UNCHANGED answer

-----------------------------------------------------------------------------
(* The whole *)

Library(t) ==
    \/ RealGetpass(t)
    \/ PipeIn(t)
    \/ PipeEx(t)
    \/ PipeFails(t)
    \/ Fork(t)
    \/ ForkFails(t)
    \/ CloseInR(t)
    \/ CloseExW(t)
    \/ Prompt(t)
    \/ Crashes(t)
    \/ CloseInW(t)
    \/ Read(t)
    \/ ReadEnds(t)
    \/ ReadFails(t)
    \/ CloseExR(t)
    \/ Wait(t)
    \/ WaitFails(t)

Askpass(n) ==
    \/ Wire(n)
    \/ Exec(n)
    \/ ExecFails(n)
    \/ Reads(n)
    \/ Unblocks(n)
    \/ Killed(n)
    \/ AskEnds(n)

Next ==
    \/ \E t \in Threads : Getpass(t) \/ GetpassExits(t) \/ Library(t)
    \/ \E n \in Helpers : Askpass(n) \/ Writes(n) \/ Reap(n)

\* System calls return, and an askpass program goes on: it reads what is there
\* and ends.  Nobody has to call getpass.
Fairness ==
    /\ \A t \in Threads : WF_vars(Library(t))
    /\ \A n \in Helpers : WF_vars(Askpass(n))

Spec == Init /\ [][Next]_vars /\ Fairness

-----------------------------------------------------------------------------
(* Properties *)

Calling == {"real", "pipe_in", "pipe_ex", "fork", "close_ir", "close_ew",
            "prompt", "close_iw", "read", "close_er", "wait"}
AskStates == {"unborn", "forked", "wired", "asking", "running", "blocked",
              "zombie", "reaped"}
Ended == {"idle", "returned", "killed", "exited"}

\* Every variable has its type, and a thread that waits has a child.
TypeOK ==
    /\ env \in Envs
    /\ held \in [Procs -> SUBSET (Ends \cup {Own})]
    /\ pc \in [Tasks -> Calling \cup Ended \cup AskStates]
    /\ call \in [Threads -> 0..MaxCalls]
    /\ end \in [Tasks -> [in : Pipe, ex : Pipe]]
    /\ asked \subseteq Helpers
    /\ said \in [Helpers -> Seq(Chars)]
    /\ answer \in [Helpers -> Seq(Chars)]
    /\ \A n \in Helpers : Len(answer[n]) <= Capacity
    /\ text \in [Threads -> Seq(Chars) \cup {Null, Overrun}]
    /\ waited \subseteq Threads
    /\ status \in [Helpers -> {"none", "ok", "bad", "killed"}]
    /\ made \in 0..MaxCalls
    /\ \A t \in Threads : pc[t] = "wait" => pc[call[t]] # "unborn"

\* What getpass returns of an askpass program that it waited for is the first
\* line of what that program has written, up to PASS_MAX characters, and the
\* program has ended well or by a signal.  Without the program's status, or
\* without a pipe, nothing of the kind holds.
PasswordIsAnswer ==
    \A t \in Threads :
        /\ text[t] = Overrun => Len(env.password) >= PassMax
        /\ pc[t] = "returned" /\ t \in waited /\ text[t] # Null
           /\ end[t].ex = PipeOf(call[t], "ex")
           => /\ text[t] = FirstLine(said[call[t]])
              /\ status[call[t]] \in {"ok", "killed"}

\* A call that has returned has left no end of its pipes open in the program.
EndsAccounted ==
    \A t \in Threads : pc[t] = "returned" =>
        \A e \in held[Program] : e.call # call[t] \/ e = Own

\* Askpass process n goes on only when m, which has inherited an end of n's
\* pipe from a fork of another thread, ends.
Hangs(n, m) ==
    \/ pc[n] = "asking" /\ env.askpass = "all"
       /\ End(n, "in", "w") \in held[m] \ held[Program]
    \/ pc[n] = "blocked" /\ End(n, "ex", "r") \in held[m] \ held[Program]
Crossed ==
    \E S \in SUBSET Helpers \ {{}} : \A n \in S : \E m \in S : Hangs(n, m)

\* Every call of getpass returns, whatever fails, unless the askpass processes
\* of several threads wait for each other.
CallsReturn ==
    \A t \in Threads : pc[t] \in Calling ~> pc[t] \in Ended \/ Crossed
=============================================================================
