--------------------------- MODULE MCCupsGetpass ---------------------------
(* The password in the environment, short or too long; nothing there; and  *)
(* an askpass program of each kind: one thread that asks twice with every  *)
(* failure, two threads that ask at once with some.                        *)
EXTENDS CupsGetpass
CONSTANT t1

Plain == [callers |-> Threads, password |-> Null, askpass |-> "unset",
          says |-> 0, libc |-> TRUE, printed |-> FALSE, sigpipe |-> FALSE,
          faults |-> {}]

Asks(callers, askpass, says, faults) ==
    [Plain EXCEPT !.callers = callers, !.askpass = askpass, !.says = says,
                  !.printed = (askpass = "nothing"),
                  !.sigpipe = (askpass = "prompt"), !.faults = faults]

MCEnvs ==
    {[Plain EXCEPT !.password = p] : p \in {<<"c">>, <<"c", "c", "c">>}}
    \cup {Plain, [Plain EXCEPT !.libc = FALSE]}
    \cup {Asks({t1}, a, 2, {"fork", "exec", "eintr", "sigchld", "kill"}) :
              a \in {"nothing", "prompt", "all"}}
    \cup {Asks({t1}, "nothing", 1, {"pipe", "exec"}),
          Asks(Threads, "nothing", 1, {}),
          Asks(Threads, "all", 2, {"fork", "exec"})}
=============================================================================
