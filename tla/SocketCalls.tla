---------------------------- MODULE SocketCalls ----------------------------
(***************************************************************************)
(* The libraries that wrap socket, bind and connect: forcebindiface.so and *)
(* ip_dscp.so on socket, uds_chmod.so on bind, forcebindip.so and          *)
(* connredir.so on connect.  LD_PRELOAD may name several of them: each one *)
(* calls the next, and the last calls the kernel.  One action per library  *)
(* and per call of the kernel, for every thread of the program.            *)
(***************************************************************************)
EXTENDS Integers, Sequences

CONSTANTS Sockers,  \* threads of the program
          Fds,      \* descriptors of the program, without its standard ones
          MaxSocks, \* sockets that may be made
          Nets      \* environments of the program

Closed == -1
Given == 0 \* the file that is open before the program starts
Foreign == -2 \* a file of another process
NoDest == [inet |-> FALSE, ip |-> "", port |-> 0]
PortNumbers == {n \in Nat : n < 65536}
Dest == [inet : BOOLEAN, ip : STRING \cup {""}, port : PortNumbers]
Libraries == {"connredir", "forcebindip", "forcebindiface", "ip_dscp",
              "uds_chmod"}

\* callers: threads that make calls; dests: where they connect; preload: the
\* libraries in the order of LD_PRELOAD; source: BIND_ADDRESS; iface, dscp:
\* BIND_INTERFACE and SOCKET_IP_DSCP are set; orig, origport, tofd, toip,
\* toport, errno: CONNREDIR_*, a port that is not set being 0; mode:
\* UDS_CHMOD_MODE, UDS_CHMOD_PATH being the path in question; faults: system
\* calls that may fail.
Net == [callers : SUBSET Sockers,
        dests : SUBSET Dest,
        preload : Seq(Libraries), source : {"unset", "bad", "good"},
        iface : BOOLEAN, dscp : BOOLEAN, orig : STRING, origport : Nat,
        tofd : Fds \cup {Closed}, toip : STRING, toport : Nat,
        errno : BOOLEAN, mode : {"unset", "bad", "good"},
        faults : SUBSET {"setsockopt", "bind", "connect", "chmod"}]

ASSUME SocketCallsAssumption ==
    Fds \subseteq Nat /\ MaxSocks \in Nat /\ Nets \subseteq Net

VARIABLES net,   \* the environment
          fd,    \* what each descriptor refers to
          sock,  \* the sockets
          job,   \* what each thread is calling
          told,  \* descriptors that socket has returned
          given, \* the file of CONNREDIR_TO_FD has not been closed
          name   \* what the path of UDS_CHMOD_PATH names

socketVars == <<net, fd, sock, job, told, given, name>>

Unused == [used |-> FALSE, inet |-> FALSE, local |-> "any", dev |-> FALSE,
           tos |-> FALSE, mode |-> FALSE, peer |-> NoDest, failed |-> {}]
Idle == [op |-> "none", fd |-> Closed, dest |-> NoDest, libs |-> {},
         ok |-> FALSE]

SocketsInit ==
    /\ net \in Nets
    /\ fd = [x \in Fds |-> IF x = net.tofd THEN Given ELSE Closed]
    /\ sock = [n \in 1..MaxSocks |-> Unused]
    /\ job = [t \in Sockers |-> Idle]
    /\ told = {}
    /\ given = (net.tofd # Closed)
    /\ name = Closed

-----------------------------------------------------------------------------
(* The chain of libraries *)

Loaded(lib) == \E i \in DOMAIN net.preload : net.preload[i] = lib
Before(l, m) ==
    \E i, j \in DOMAIN net.preload :
        i < j /\ net.preload[i] = l /\ net.preload[j] = m

\* The libraries of a call; each acts once, those that act before the call of
\* the kernel from the first of LD_PRELOAD to the last, those that act when it
\* has returned from the last to the first.
Chain(libs) == {l \in libs : Loaded(l)}
At(t, op, lib) ==
    /\ job[t].op = op /\ lib \in job[t].libs
    /\ \A l \in job[t].libs \ {lib} :
          IF op = "connect" THEN Before(lib, l) ELSE Before(l, lib)
Kernel(t, op) == job[t].op = op /\ job[t].libs = {}
Continue(t, lib) == job' = [job EXCEPT ![t].libs = @ \ {lib}]
Done(t, ok) == job' = [job EXCEPT ![t].op = "done", ![t].ok = ok,
                                  ![t].libs = {}]

\* The socket a descriptor refers to, if it is one.
IsSocket(x) == x \in Fds /\ fd[x] \in 1..MaxSocks
May(call) == call \in net.faults

\* Nobody closes or uses a descriptor that another thread is calling with.
Free(x) == \A t \in Sockers : job[t].fd # x

-----------------------------------------------------------------------------
(* socket *)

OfSocket == {"forcebindiface", "ip_dscp"}

IsLowest(x, S) == x \in S /\ \A y \in S : x <= y

Socket(t) ==
    /\ job[t].op = "none" /\ t \in net.callers
    /\ \E inet \in BOOLEAN, x \in Fds, n \in 1..MaxSocks :
          /\ IsLowest(x, {y \in Fds : fd[y] = Closed})
          /\ IsLowest(n, {i \in 1..MaxSocks : ~ sock[i].used})
          /\ fd' = [fd EXCEPT ![x] = n]
          /\ sock' = [sock EXCEPT ![n].used = TRUE, ![n].inet = inet]
          /\ job' = [job EXCEPT ![t] =
                [Idle EXCEPT !.op = "socket", !.fd = x,
                             !.libs = Chain(OfSocket)]]
    /\ UNCHANGED <<net, told, given, name>>

\* There is no descriptor left.  The libraries get -1.
SocketFails(t) ==
    /\ job[t].op = "none" /\ t \in net.callers
    /\ \A y \in Fds : fd[y] # Closed
    /\ job' = [job EXCEPT ![t] = [Idle EXCEPT !.op = "socket",
                                             !.libs = Chain(OfSocket)]]
    /\ UNCHANGED <<net, fd, sock, told, given, name>>

\* The result of setsockopt is not looked at.
IpDscp(t) ==
    /\ At(t, "socket", "ip_dscp")
    /\ \/ /\ net.dscp /\ IsSocket(job[t].fd)
          /\ sock' = [sock EXCEPT ![fd[job[t].fd]].tos = TRUE]
       \/ /\ net.dscp /\ IsSocket(job[t].fd) => May("setsockopt")
          /\ UNCHANGED sock
    /\ Continue(t, "ip_dscp")
    /\ UNCHANGED <<net, fd, told, given, name>>

\* Slip: the socket is returned although it could not be bound.
ForceBindIfaceWarns(t) ==
    /\ At(t, "socket", "forcebindiface")
    /\ \/ /\ net.iface /\ IsSocket(job[t].fd)
          /\ sock' = [sock EXCEPT ![fd[job[t].fd]].dev = TRUE]
       \/ /\ net.iface /\ IsSocket(job[t].fd) => May("setsockopt")
          /\ UNCHANGED sock
    /\ Continue(t, "forcebindiface")
    /\ UNCHANGED <<net, fd, told, given, name>>

\* When setsockopt fails the caller gets -1 and the socket stays open.
ForceBindIface(t) ==
    /\ At(t, "socket", "forcebindiface")
    /\ \/ ~ net.iface /\ Continue(t, "forcebindiface") /\ UNCHANGED sock
       \/ /\ net.iface /\ IsSocket(job[t].fd)
          /\ sock' = [sock EXCEPT ![fd[job[t].fd]].dev = TRUE]
          /\ Continue(t, "forcebindiface")
       \/ /\ net.iface /\ (IsSocket(job[t].fd) => May("setsockopt"))
          /\ job' = [job EXCEPT ![t].fd = Closed,
                                ![t].libs = @ \ {"forcebindiface"}]
          /\ UNCHANGED sock
    /\ UNCHANGED <<net, fd, told, given, name>>

SocketReturns(t) ==
    /\ Kernel(t, "socket")
    /\ told' = told \cup ({job[t].fd} \ {Closed})
    /\ Done(t, job[t].fd # Closed)
    /\ UNCHANGED <<net, fd, sock, given, name>>

-----------------------------------------------------------------------------
(* bind *)

\* The kernel can bind the socket, to the path or to an address of its own.
Bindable(s) ==
    /\ s.local = "any" /\ s.peer = NoDest
    /\ s.inet \/ name = Closed

\* The program binds a socket.
Bind(t) ==
    /\ job[t].op = "none" /\ t \in net.callers
    /\ \E x \in told :
          /\ Free(x) /\ IsSocket(x)
          /\ LET n == fd[x] IN
             /\ Bindable(sock[n])
             /\ sock' = [sock EXCEPT ![n].local = "own"]
             /\ name' = IF sock[n].inet THEN name ELSE n
             /\ job' = [job EXCEPT ![t] =
                   [Idle EXCEPT !.op = "bind", !.fd = x,
                                !.libs = Chain({"uds_chmod"})]]
    /\ UNCHANGED <<net, fd, told, given>>

\* The caller gets -1, and uds_chmod.so leaves the path alone, whatever has this
\* name.
BindFails(t) ==
    /\ job[t].op = "none" /\ t \in net.callers
    /\ \E x \in told :
          /\ Free(x) /\ IsSocket(x)
          /\ Bindable(sock[fd[x]]) => May("bind")
          /\ job' = [job EXCEPT ![t] = [Idle EXCEPT !.op = "done", !.fd = x]]
    /\ UNCHANGED <<net, fd, sock, told, given, name>>

\* chmod of the path, whatever has this name by now; its result is not looked
\* at.
Chmod(t) ==
    /\ At(t, "bind", "uds_chmod")
    /\ LET n == fd[job[t].fd]
           asked == ~ sock[n].inet /\ net.mode = "good"
       IN  \/ /\ asked /\ name \in 1..MaxSocks
              /\ sock' = [sock EXCEPT ![name].mode = TRUE]
           \/ /\ asked /\ (name = Foreign \/ May("chmod"))
              /\ sock' = [sock EXCEPT ![n].failed = @ \cup {"chmod"}]
           \/ ~ asked /\ UNCHANGED sock
    /\ Continue(t, "uds_chmod")
    /\ UNCHANGED <<net, fd, told, given, name>>

BindReturns(t) ==
    Kernel(t, "bind") /\ Done(t, TRUE)
    /\ UNCHANGED <<net, fd, sock, told, given, name>>

\* Another process gives the name to a file of its own.
TakesName ==
    /\ name \in 1..MaxSocks
    /\ name' = Foreign
    /\ UNCHANGED <<net, fd, sock, job, told, given>>

-----------------------------------------------------------------------------
(* connect *)

Connect(t) ==
    /\ job[t].op = "none" /\ t \in net.callers
    /\ \E x \in told, d \in net.dests :
          /\ Free(x) /\ IsSocket(x) /\ sock[fd[x]].inet = d.inet
          /\ job' = [job EXCEPT ![t] =
                [Idle EXCEPT !.op = "connect", !.fd = x, !.dest = d,
                             !.libs = Chain({"connredir", "forcebindip"})]]
    /\ UNCHANGED <<net, fd, sock, told, given, name>>

\* bind to the address, whether connect is called for the first time or again,
\* of whatever family; its result is not looked at.  uds_chmod.so, whose bind
\* this may be, finds port 0 in the place of a path and does nothing.
ForceBindIp(t) ==
    /\ At(t, "connect", "forcebindip")
    /\ LET x == job[t].fd
           binds == /\ net.source = "good" /\ IsSocket(x) /\ sock[fd[x]].inet
                    /\ sock[fd[x]].local = "any" /\ sock[fd[x]].peer = NoDest
       IN  \/ binds /\ sock' = [sock EXCEPT ![fd[x]].local = "forced"]
           \/ /\ binds /\ May("bind")
              /\ sock' = [sock EXCEPT ![fd[x]].failed = @ \cup {"bind"}]
           \/ ~ binds /\ UNCHANGED sock
    /\ Continue(t, "forcebindip")
    /\ UNCHANGED <<net, fd, told, given, name>>

\* atoi into in_port_t.
Port(n) == n % 65536

IsIp(s) == s \notin {"unset", "bad"}

\* The destination is the one to be replaced.
Matches(d) ==
    /\ d.inet /\ IsIp(net.orig) /\ d.ip = net.orig
    /\ Port(net.origport) \in {0, d.port}

\* Slip: an address that cannot be read is one that is not set.
BreaksNot(d) ==
    Matches(d) /\ net.tofd # Closed /\ fd[net.tofd] = Closed

\* inet_aton or dup2 fails.
Breaks(d) ==
    /\ d.inet
    /\ \/ net.orig = "bad"
       \/ /\ Matches(d)
          /\ IF net.tofd # Closed THEN fd[net.tofd] = Closed
                                  ELSE net.toip = "bad"

NewDest(d) ==
    IF Matches(d) /\ net.tofd = Closed /\ IsIp(net.toip)
    THEN [inet |-> TRUE, ip |-> net.toip,
          port |-> IF Port(net.toport) = 0 THEN d.port ELSE Port(net.toport)]
    ELSE d

ConnRedir(t) ==
    /\ At(t, "connect", "connredir")
    /\ LET d == job[t].dest IN
       \/ /\ Breaks(d) /\ net.errno
          /\ Done(t, FALSE) /\ UNCHANGED fd
       \/ /\ Matches(d) /\ net.tofd # Closed /\ ~ Breaks(d)
          /\ fd' = [fd EXCEPT ![job[t].fd] = fd[net.tofd]]
          /\ Done(t, TRUE)
       \/ /\ Breaks(d) /\ ~ net.errno
          /\ Continue(t, "connredir") /\ UNCHANGED fd
       \/ /\ ~ Breaks(d) /\ (Matches(d) => net.tofd = Closed)
          /\ job' = [job EXCEPT ![t].dest = NewDest(d),
                                ![t].libs = @ \ {"connredir"}]
          /\ UNCHANGED fd
    /\ UNCHANGED <<net, sock, told, given, name>>

\* A connection that goes on when connect was interrupted succeeds all the
\* same.
KernelConnect(t) ==
    /\ Kernel(t, "connect")
    /\ LET x == job[t].fd
           connects == IsSocket(x) /\ sock[fd[x]].peer = NoDest
       IN  \/ /\ connects /\ \E ok \in {TRUE, ~ May("connect")} : Done(t, ok)
              /\ sock' = [sock EXCEPT ![fd[x]].peer = job[t].dest]
           \/ /\ connects => May("connect")
              /\ Done(t, FALSE) /\ UNCHANGED sock
    /\ UNCHANGED <<net, fd, told, given, name>>

-----------------------------------------------------------------------------
(* The program *)

Returns(t) ==
    /\ job[t].op = "done"
    /\ job' = [job EXCEPT ![t] = Idle]
    /\ UNCHANGED <<net, fd, sock, told, given, name>>

\* The program may close what it was given, too.
Close(t) ==
    /\ job[t].op = "none" /\ t \in net.callers
    /\ \E x \in Fds :
          /\ Free(x) /\ fd[x] # Closed /\ x \in told \cup {net.tofd}
          /\ fd' = [fd EXCEPT ![x] = Closed]
          /\ told' = told \ {x}
          /\ given' = (given /\ x # net.tofd)
    /\ UNCHANGED <<net, sock, job, name>>

SocketsNext ==
    \/ \E t \in Sockers :
          \/ Socket(t) \/ SocketFails(t) \/ IpDscp(t) \/ ForceBindIface(t)
          \/ SocketReturns(t)
          \/ Bind(t) \/ BindFails(t) \/ Chmod(t) \/ BindReturns(t)
          \/ Connect(t) \/ ForceBindIp(t) \/ ConnRedir(t) \/ KernelConnect(t)
          \/ Returns(t) \/ Close(t)
    \/ TakesName

-----------------------------------------------------------------------------
(* Properties *)

SocketsTypeOK ==
    /\ net \in Nets
    /\ fd \in [Fds -> {Closed, Given} \cup 1..MaxSocks]
    /\ \A n \in 1..MaxSocks :
          /\ sock[n].local \in {"any", "own", "forced"}
          /\ sock[n].failed \subseteq {"bind", "chmod"}
    /\ \A t \in Sockers :
          /\ job[t].op \in {"none", "socket", "bind", "connect", "done"}
          /\ job[t].fd \in Fds \cup {Closed}
    /\ told \subseteq Fds /\ given \in BOOLEAN
    /\ name \in {Closed, Foreign} \cup 1..MaxSocks

\* A program that has closed CONNREDIR_TO_FD may have given the number to a
\* socket of its own, which dup2 then puts in the place of others.
Reused == Loaded("connredir") /\ net.tofd # Closed /\ ~ given

\* The numbers of CONNREDIR_ORIG_PORT and _TO_PORT are those of ports, or 0.  Of
\* others the header says that they are an error case; the code has none for
\* them and takes what is left of the number in 16 bits.
PortsAreValid == {net.origport, net.toport} \subseteq PortNumbers

\* With valid ports, a socket is connected to an address of CONNREDIR_ORIG_IP
\* and _PORT only if that is where it was sent, there is nothing to put in its
\* place, or something is wrong with it and CONNREDIR_ERRNO is not set.  And
\* connect says that a descriptor is connected only if it is, or the number of
\* CONNREDIR_TO_FD was reused.
Broken == IF net.tofd # Closed THEN Reused ELSE net.toip = "bad"
Sent(d) ==
    /\ net.tofd = Closed /\ d.ip = net.toip
    /\ Port(net.toport) \in {0, d.port}
Unreplaced ==
    \/ net.tofd = Closed /\ net.toip = "unset"
    \/ Broken /\ ~ net.errno
Redirected ==
    Loaded("connredir") =>
        /\ PortsAreValid => \A n \in 1..MaxSocks :
              LET d == sock[n].peer IN
              /\ Matches(d) => Sent(d) \/ Unreplaced
              /\ d.inet => net.orig # "bad" \/ ~ net.errno
        /\ \A t \in Sockers :
              job[t].op = "done" /\ job[t].dest # NoDest /\ job[t].ok =>
                  \/ IsSocket(job[t].fd) /\ sock[fd[job[t].fd]].peer # NoDest
                  \/ fd[job[t].fd] = Given
                  \/ Reused

\* What the program can use is as the environment wants it, in spite of retries
\* and of the other libraries: an internet socket is connected from
\* BIND_ADDRESS, from an address of its own choice, or after bind has failed; a
\* socket that was returned is bound to BIND_INTERFACE, unless another one was
\* put in its place; and one with the path of UDS_CHMOD_PATH has its mode once
\* bind has returned, unless chmod has failed or found another file.
AsConfigured ==
    /\ Loaded("forcebindip") /\ net.source = "good" =>
          \A n \in 1..MaxSocks : sock[n].peer.inet =>
              sock[n].local # "any" \/ "bind" \in sock[n].failed
    /\ Loaded("forcebindiface") /\ net.iface =>
          \A x \in told : IsSocket(x) => sock[fd[x]].dev \/ Reused
    /\ Loaded("uds_chmod") /\ net.mode = "good" =>
          \A t \in Sockers : Kernel(t, "bind") /\ ~ sock[fd[job[t].fd]].inet =>
              LET s == sock[fd[job[t].fd]] IN s.mode \/ "chmod" \in s.failed
=============================================================================
