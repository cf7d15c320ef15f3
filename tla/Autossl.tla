------------------------------ MODULE Autossl ------------------------------
(***************************************************************************)
(* autossl.so (src/src/autossl.c): the connect wrapper of a client program *)
(* and of the helper processes it starts, one action per system call, with *)
(* the descriptor tables that fork copies; autossl-conn, which the helpers *)
(* execute, and the environment the autossl wrapper script gives them.     *)
(*                                                                         *)
(* A task is a thread of the client or a helper process.  Pair number n of *)
(* sockets is made for helper n; the library is preloaded into the helpers *)
(* too, so that a helper's own connect may start another one.              *)
(***************************************************************************)
EXTENDS Integers, Sequences, FiniteSetsExt

CONSTANTS Threads,   \* threads of the client program
          MaxPairs,  \* pairs of sockets the system has room for
          MaxFd,     \* the largest descriptor a process may open
          Stdio,     \* descriptors 0..2 the client was started with
          Dests,     \* what the client connects to: [inet, ip, port]
          Envs,      \* environments of the client
          PortBits,  \* width in bits of in_port_t
          Faults     \* system calls that may fail though nothing is wrong

Helpers == 1..MaxPairs
Tasks == Threads \cup Helpers
Fds == 0..MaxFd
Ports == 0..(2^PortBits - 1)

\* ports, ips: AUTOSSL_UPGRADE_PORTS and _IPS as lists of words, 0 and "bad"
\* for a word that cannot be parsed; noports, anyip: the list is not set.
\* cmd, errno: AUTOSSL_TLS_CMD and AUTOSSL_ERRNO are set.
\* map: AUTOSSL_TLS_PORT_MAP.
Env == [noports : BOOLEAN, ports : Seq(Nat), anyip : BOOLEAN,
        ips : Seq(STRING), cmd : BOOLEAN, errno : BOOLEAN,
        map : Seq(Ports \X Ports)]

\* Where a socket connects; without an address, ip is empty.
Destination == [inet : BOOLEAN, ip : STRING \cup {""}, port : Ports]

ASSUME AutosslAssumption ==
    /\ MaxPairs \in Nat /\ MaxFd \in Nat \ {0, 1}
    /\ PortBits \in Nat /\ 0 \in Ports
    /\ Threads \cap Helpers = {}
    /\ Stdio \subseteq {0, 1, 2} \cap Fds
    /\ Dests \subseteq Destination
    /\ Envs \subseteq Env
    /\ Faults \subseteq {"socketpair", "fork", "dup2", "exec", "connect"}

VARIABLES env,    \* the environment
          upgrade,\* processes that have AUTOSSL_UPGRADE_PORTS
          fds,    \* descriptor table of each process
          pc,     \* the next system call of each task, or how connect ended
          sock,   \* sockfd of each task
          dest,   \* what each task connects to
          pair,   \* the pair of sockets each task has made
          end,    \* its descriptors, sockpair
          made    \* number of pairs of sockets made so far

vars == <<env, upgrade, fds, pc, sock, dest, pair, end, made>>

\* What a descriptor refers to.
Closed == [kind |-> "closed"]
Std == [kind |-> "std"]
Tcp(t) == [kind |-> "tcp", task |-> t]
End(n, side) == [kind |-> "end", pair |-> n, side |-> side]
File == {Closed, Std} \cup {Tcp(t) : t \in Tasks}
            \cup {End(n, side) : n \in Helpers, side \in {0, 1}}

Client == 0
Procs == {Client} \cup Helpers
Proc(t) == IF t \in Threads THEN Client ELSE t

Connecting == {"socketpair", "fork", "close", "dup2", "stdlib"}
Ended == {"upgraded", "plain", "failed"}
Starting == {"forked", "wired", "closed", "socket"}
Gone == {"unborn", "ended", "exited"}

-----------------------------------------------------------------------------
(* Reading the environment *)

\* The environment that the wrapper script makes of the user's.
DefaultMap == << <<21, 990>>, <<23, 992>>, <<25, 465>>, <<80, 443>>,
                 <<110, 995>>, <<119, 563>>, <<143, 993>>, <<194, 994>>,
                 <<389, 636>> >>
Wrapped(user) ==
    [user EXCEPT !.noports = FALSE, !.ports = <<80>> \o @, !.cmd = TRUE,
                 !.errno = TRUE, !.map = DefaultMap \o @]

\* How the scan of a list of words ends: at the first that matches or that
\* cannot be parsed, or without either.
Scan(bad, matching) ==
    IF bad \cup matching = {} THEN "none"
    ELSE IF Min(bad \cup matching) \in bad THEN "error" ELSE "match"

InPort(word) == word % 2^PortBits

ScanPorts(e, port) ==
    Scan({i \in DOMAIN e.ports : InPort(e.ports[i]) = 0},
         {i \in DOMAIN e.ports : InPort(e.ports[i]) = port})

ScanIps(e, ip) ==
    IF e.anyip THEN "match"
    ELSE Scan({i \in DOMAIN e.ips : e.ips[i] = "bad"},
              {i \in DOMAIN e.ips : e.ips[i] = ip})

\* Slip: the error number is set but not returned.
ErrorCaseFallsThrough(e) == "stdlib"

\* error_case, then maybe stdlib.
ErrorCase(e) == IF e.errno THEN "failed" ELSE "stdlib"

\* What connect does before its first system call.
Decision(e, up, d) ==
    LET p == ScanPorts(e, d.port)
        i == ScanIps(e, d.ip)
    IN  CASE ~d.inet \/ ~up \/ p = "none" -> "stdlib"
          [] d.inet /\ up /\ p = "error"  -> ErrorCase(e)
          [] OTHER -> CASE i = "none"  -> "stdlib"
                        [] i = "error" -> ErrorCase(e)
                        [] i = "match" -> IF e.cmd THEN "socketpair"
                                          ELSE "stdlib"

\* Slip: a port that is not in the map is -1.
TlsPortMinusOne(e, port) ==
    LET at == {i \in DOMAIN e.map : e.map[i][1] = port}
    IN  IF at = {} THEN -1 ELSE e.map[Max(at)][2]

\* autossl-conn: the last pair of the map for a port counts, 0 if none does.
TlsPort(e, port) ==
    LET at == {i \in DOMAIN e.map : e.map[i][1] = port}
    IN  IF at = {} THEN 0 ELSE e.map[Max(at)][2]

-----------------------------------------------------------------------------
(* Descriptors *)

FreeFds(p) == {fd \in Fds : fds[p][fd] = Closed}
Lowest(p) == Min(FreeFds(p))

Nowhere == [inet |-> FALSE, ip |-> "", port |-> 0]
NoFds == [fd \in Fds |-> Closed]

Init ==
    /\ env \in Envs
    /\ upgrade = IF env.noports THEN {} ELSE {Client}
    /\ fds = [p \in Procs |->
                IF p = Client
                THEN [fd \in Fds |-> IF fd \in Stdio THEN Std ELSE Closed]
                ELSE NoFds]
    /\ pc = [t \in Tasks |-> IF t \in Threads THEN "idle" ELSE "unborn"]
    /\ sock = [t \in Tasks |-> 0]
    /\ dest = [t \in Tasks |-> Nowhere]
    /\ pair = [t \in Tasks |-> 0]
    /\ end = [t \in Tasks |-> <<0, 0>>]
    /\ made = 0

Goto(t, label) == pc' = [pc EXCEPT ![t] = label]
SetFd(p, fd, file) == fds' = [fds EXCEPT ![p][fd] = file]

\* The local variables of these tasks are gone.
Forget(ts) ==
    /\ sock' = [t \in Tasks |-> IF t \in ts THEN 0 ELSE sock[t]]
    /\ dest' = [t \in Tasks |-> IF t \in ts THEN Nowhere ELSE dest[t]]
    /\ end' = [t \in Tasks |-> IF t \in ts THEN <<0, 0>> ELSE end[t]]

-----------------------------------------------------------------------------
(* connect, in the client and in the helpers *)

\* socket(2) of the program that is going to connect.
Open(t) ==
    /\ pc[t] \in {"idle", "socket"}
    /\ IF FreeFds(Proc(t)) = {}
       THEN /\ t \in Helpers
            /\ Goto(t, "failed") /\ UNCHANGED <<fds, sock>>
       ELSE /\ sock' = [sock EXCEPT ![t] = Lowest(Proc(t))]
            /\ SetFd(Proc(t), Lowest(Proc(t)), Tcp(t))
            /\ Goto(t, "open")
    /\ UNCHANGED <<env, upgrade, dest, pair, end, made>>

Connect(t) ==
    /\ pc[t] = "open"
    /\ \E d \in IF t \in Threads THEN Dests ELSE {dest[t]} :
            /\ dest' = [dest EXCEPT ![t] = d]
            /\ Goto(t, Decision(env, Proc(t) \in upgrade, d))
    /\ UNCHANGED <<env, upgrade, fds, sock, pair, end, made>>

\* Slip: sockpair is a static variable.
SocketpairStatic(t) ==
    /\ pc[t] = "socketpair"
    /\ LET p == Proc(t)
           a == Lowest(p)
           b == Min(FreeFds(p) \ {a})
           n == made + 1
       IN  /\ Cardinality(FreeFds(p)) >= 2 /\ made < MaxPairs
           /\ fds' = [fds EXCEPT ![p][a] = End(n, 0), ![p][b] = End(n, 1)]
           /\ end' = [u \in Tasks |-> IF Proc(u) = p THEN <<a, b>> ELSE end[u]]
           /\ pair' = [pair EXCEPT ![t] = n]
           /\ made' = n
    /\ Goto(t, "fork")
    /\ UNCHANGED <<env, upgrade, sock, dest>>

\* socketpair(2) takes the two lowest descriptors.
Socketpair(t) ==
    /\ pc[t] = "socketpair"
    /\ LET p == Proc(t)
           a == Lowest(p)
           b == Min(FreeFds(p) \ {a})
           n == made + 1
       IN  /\ Cardinality(FreeFds(p)) >= 2 /\ made < MaxPairs
           /\ fds' = [fds EXCEPT ![p][a] = End(n, 0), ![p][b] = End(n, 1)]
           /\ end' = [end EXCEPT ![t] = <<a, b>>]
           /\ pair' = [pair EXCEPT ![t] = n]
           /\ made' = n
    /\ Goto(t, "fork")
    /\ UNCHANGED <<env, upgrade, sock, dest>>

\* EMFILE in the process, ENFILE in the system, or ENOMEM.
SocketpairFails(t) ==
    /\ pc[t] = "socketpair"
    /\ \/ Cardinality(FreeFds(Proc(t))) < 2
       \/ made = MaxPairs
       \/ "socketpair" \in Faults
    /\ Goto(t, ErrorCase(env))
    /\ UNCHANGED <<env, upgrade, fds, sock, dest, pair, end, made>>

\* The child has copies of the descriptors, the variables and the environment.
Fork(t) ==
    /\ pc[t] = "fork"
    /\ LET n == pair[t]
       IN  /\ pc' = [pc EXCEPT ![t] = "close", ![n] = "forked"]
           /\ fds' = [fds EXCEPT ![n] = fds[Proc(t)]]
           /\ end' = [end EXCEPT ![n] = end[t]]
           /\ dest' = [dest EXCEPT ![n] = dest[t]]
           /\ upgrade' = IF Proc(t) \in upgrade THEN upgrade \cup {n}
                         ELSE upgrade
    /\ UNCHANGED <<env, sock, pair, made>>

\* The two ends stay open.
ForkFails(t) ==
    /\ pc[t] = "fork"
    /\ "fork" \in Faults
    /\ Goto(t, ErrorCase(env))
    /\ UNCHANGED <<env, upgrade, fds, sock, dest, pair, end, made>>

CloseEnd(t) ==
    /\ pc[t] = "close"
    /\ SetFd(Proc(t), end[t][2], Closed)
    /\ Goto(t, "dup2")
    /\ UNCHANGED <<env, upgrade, sock, dest, pair, end, made>>

Dup2(t) ==
    /\ pc[t] = "dup2"
    /\ SetFd(Proc(t), sock[t], fds[Proc(t)][end[t][1]])
    /\ Goto(t, "upgraded")
    /\ UNCHANGED <<env, upgrade, sock, dest, pair, end, made>>

\* Slip: the caller's socket is closed in place of the end.
Dup2FailsCloses(t) ==
    /\ pc[t] = "dup2"
    /\ "dup2" \in Faults
    /\ SetFd(Proc(t), sock[t], Closed)
    /\ Goto(t, ErrorCase(env))
    /\ UNCHANGED <<env, upgrade, sock, dest, pair, end, made>>

\* EBUSY or EINTR.
Dup2Fails(t) ==
    /\ pc[t] = "dup2"
    /\ "dup2" \in Faults
    /\ SetFd(Proc(t), end[t][1], Closed)
    /\ Goto(t, ErrorCase(env))
    /\ UNCHANGED <<env, upgrade, sock, dest, pair, end, made>>

\* The system's connect.
StdConnect(t) ==
    /\ pc[t] = "stdlib"
    /\ Goto(t, "plain")
    /\ UNCHANGED <<env, upgrade, fds, sock, dest, pair, end, made>>

StdConnectFails(t) ==
    /\ pc[t] = "stdlib"
    /\ "connect" \in Faults
    /\ Goto(t, "failed")
    /\ UNCHANGED <<env, upgrade, fds, sock, dest, pair, end, made>>

-----------------------------------------------------------------------------
(* A helper, from fork to autossl-conn and what it executes *)

\* Standard input and output become the helper's end of the pair.
Wire(h) ==
    /\ pc[h] = "forked"
    /\ LET mine == fds[h][end[h][2]]
       IN  fds' = [fds EXCEPT ![h][0] = mine, ![h][1] = mine]
    /\ Goto(h, "wired")
    /\ UNCHANGED <<env, upgrade, sock, dest, pair, end, made>>

\* Slip: the child closes the two descriptors of the pair only.
CloseFromPair(h) ==
    /\ pc[h] = "wired"
    /\ fds' = [fds EXCEPT ![h][end[h][1]] = Closed, ![h][end[h][2]] = Closed]
    /\ Goto(h, "closed")
    /\ UNCHANGED <<env, upgrade, sock, dest, pair, end, made>>

\* Slip: nothing is closed.
CloseFromNothing(h) ==
    /\ pc[h] = "wired"
    /\ Goto(h, "closed")
    /\ UNCHANGED <<env, upgrade, fds, sock, dest, pair, end, made>>

\* closefrom(3): standard error is left open.
CloseFrom(h) ==
    /\ pc[h] = "wired"
    /\ fds' = [fds EXCEPT ![h] = [fd \in Fds |-> IF fd >= 3 THEN Closed
                                                 ELSE fds[h][fd]]]
    /\ Goto(h, "closed")
    /\ UNCHANGED <<env, upgrade, sock, dest, pair, end, made>>

\* autossl-conn executes a TLS client for the port the map has, or nc with
\* the library told to leave it alone.
Exec(h) ==
    /\ pc[h] = "closed"
    /\ LET port == TlsPort(env, dest[h].port)
       IN  IF port = 0
           THEN upgrade' = upgrade \ {h} /\ UNCHANGED dest
           ELSE dest' = [dest EXCEPT ![h].port = port] /\ UNCHANGED upgrade
    /\ Goto(h, "socket")
    /\ UNCHANGED <<env, fds, sock, pair, end, made>>

\* A process that ends closes its descriptors.
Exits(h) ==
    /\ fds' = [fds EXCEPT ![h] = NoFds]
    /\ Goto(h, "ended")
    /\ Forget({h})
    /\ UNCHANGED <<env, upgrade, pair, made>>

ExecFails(h) == pc[h] = "closed" /\ "exec" \in Faults /\ Exits(h)

\* The program that autossl-conn executes ends: it cannot connect, or its
\* server or its client has closed the channel.  It need not: at the end of its
\* input nc goes on, and so does s_client with the -quiet that the wrapper adds.
HelperEnds(h) == pc[h] \in Ended /\ Exits(h)

-----------------------------------------------------------------------------
(* The client program *)

Close(t) ==
    /\ t \in Threads /\ pc[t] \in Ended
    /\ SetFd(Client, sock[t], Closed)
    /\ Goto(t, "idle")
    /\ Forget({t})
    /\ UNCHANGED <<env, upgrade, pair, made>>

ClientExits ==
    /\ \E t \in Threads : pc[t] # "exited"
    /\ fds' = [fds EXCEPT ![Client] = NoFds]
    /\ pc' = [t \in Tasks |-> IF t \in Threads THEN "exited" ELSE pc[t]]
    /\ Forget(Threads)
    /\ UNCHANGED <<env, upgrade, pair, made>>

Library(t) ==
    \/ Socketpair(t)
    \/ SocketpairFails(t)
    \/ Fork(t)
    \/ ForkFails(t)
    \/ CloseEnd(t)
    \/ Dup2(t)
    \/ Dup2Fails(t)
    \/ StdConnect(t)
    \/ StdConnectFails(t)

Helper(h) ==
    \/ Wire(h)
    \/ CloseFrom(h)
    \/ Exec(h)
    \/ ExecFails(h)
    \/ Open(h)
    \/ Connect(h)

Next ==
    \/ \E t \in Threads : Open(t) \/ Connect(t) \/ Close(t)
    \/ \E t \in Tasks : Library(t)
    \/ \E h \in Helpers : Helper(h) \/ HelperEnds(h)
    \/ ClientExits

\* System calls return, and a helper gets to execute its program and that to
\* connect.  Nothing has the client or a program that has connected end.
Fairness ==
    /\ \A t \in Tasks : WF_vars(Library(t))
    /\ \A h \in Helpers : WF_vars(Helper(h))

Spec == Init /\ [][Next]_vars /\ Fairness

-----------------------------------------------------------------------------
(* Properties *)

\* Every variable has its type: ports keep their width, descriptors and pairs
\* exist.
TypeOK ==
    /\ env \in Envs
    /\ upgrade \subseteq Procs
    /\ fds \in [Procs -> [Fds -> File]]
    /\ pc \in [Tasks -> Connecting \cup Ended \cup Starting \cup Gone
                            \cup {"idle", "open"}]
    /\ sock \in [Tasks -> Fds]
    /\ dest \in [Tasks -> Destination]
    /\ pair \in [Tasks -> 0..MaxPairs]
    /\ end \in [Tasks -> Fds \X Fds]
    /\ made \in 0..MaxPairs

\* A helper program has nothing open but its end of its own pair, the standard
\* error it was left, its own socket and the pairs it has made itself, however
\* the calls of the client's threads and their forks are mixed.
HelperIsIsolated ==
    \A h \in Helpers, fd \in Fds :
        LET f == fds[h][fd]
        IN  pc[h] \notin {"forked", "wired"} =>
                /\ f.kind = "tcp" => f.task = h
                /\ f.kind = "end" => \/ f = End(h, 1)
                                     \/ f.pair = pair[h]

\* A redirected socket is connected to the helper that was started for it,
\* and that helper connects for the address the caller gave.
RedirectedToOwnHelper ==
    \A t \in Tasks : pc[t] = "upgraded" =>
        LET h == pair[t]
            tls == TlsPort(env, dest[t].port)
        IN  /\ fds[Proc(t)][sock[t]] = End(h, 0)
            /\ pc[h] # "ended" =>
                    /\ dest[h].ip = dest[t].ip
                    /\ dest[h].port = IF tls = 0 \/ pc[h] \in Starting \ {"socket"}
                                      THEN dest[t].port ELSE tls

\* A connect that was not redirected leaves the caller the socket it had.
SocketKept ==
    \A t \in Tasks : pc[t] \in {"plain", "failed"} /\ t \in Threads =>
        fds[Proc(t)][sock[t]] = Tcp(t)

Listed(d) ==
    /\ d.inet
    /\ \E i \in DOMAIN env.ports : env.ports[i] = d.port
    /\ env.anyip \/ \E i \in DOMAIN env.ips : env.ips[i] = d.ip

\* With a helper command and an error number set, as the wrapper script does,
\* no call that fails on the way has the library send a connection out in plain
\* that is listed to be upgraded, neither the client's nor a helper's own.  The
\* helper of a port that the map leaves out is not one that has the list any
\* more: autossl-conn takes it away and connects in plain on purpose.
NoDowngrade ==
    env.cmd /\ env.errno =>
        \A t \in Tasks : pc[t] = "plain" =>
            ~(Proc(t) \in upgrade /\ Listed(dest[t]))

ClientGone == \A t \in Threads : pc[t] = "exited"

\* The client's end of helper h's pair is open in nobody but the process whose
\* connect has made the pair.
OnlyMakerHolds(h) ==
    \A p \in Procs, fd \in Fds :
        fds[p][fd] = End(h, 0) => p # Client /\ pair[p] = h

\* Once the client has exited, and all the children its threads were forking
\* have come to their programs, nobody keeps a helper's input open: each is
\* told of the end of its input, except by a helper that goes on, which keeps
\* the channel of the helper it has itself started.
HelpersAreTold == ClientGone ~> [](\A h \in Helpers : OnlyMakerHolds(h))
=============================================================================
