------------------------- MODULE SocketCallsProofs -------------------------
(***************************************************************************)
(* Proofs about the libraries that wrap socket, bind and connect, for any  *)
(* environment and order of LD_PRELOAD, any number of threads, descriptors *)
(* and sockets, and whatever fails: an address that is to be replaced is   *)
(* not connected to, connect does not tell of a connection that there is   *)
(* not, and the sockets that a program gets are as the environment wants   *)
(* them.                                                                   *)
(***************************************************************************)
EXTENDS Wrappers, TLAPS

Ops == {"none", "socket", "bind", "connect", "done"}
SocketRecord == [used : BOOLEAN, inet : BOOLEAN,
                 local : {"any", "own", "forced"}, dev : BOOLEAN,
                 tos : BOOLEAN, mode : BOOLEAN, peer : Dest,
                 failed : SUBSET {"bind", "chmod"}]
JobRecord == [op : Ops, fd : Fds \cup {Closed}, dest : Dest,
              libs : SUBSET Libraries, ok : BOOLEAN]

SocketTypes ==
    /\ net \in Net /\ net \in Nets
    /\ fd \in [Fds -> {Closed, Given} \cup 1..MaxSocks]
    /\ sock \in [1..MaxSocks -> SocketRecord]
    /\ job \in [Sockers -> JobRecord]
    /\ told \subseteq Fds /\ given \in BOOLEAN
    /\ name \in {Closed, Foreign} \cup 1..MaxSocks

\* A descriptor that is in use stays what it is: no two threads are calling
\* with it, nothing that is open is given out again.
Tables ==
    /\ \A x \in Fds : fd[x] \in 1..MaxSocks => sock[fd[x]].used
    /\ \A t \in Sockers : job[t].fd # Closed => fd[job[t].fd] # Closed
    /\ \A t, u \in Sockers :
          job[t].fd = job[u].fd /\ job[t].fd # Closed => t = u
    /\ \A x \in told : fd[x] # Closed
    /\ given => net.tofd # Closed /\ fd[net.tofd] = Given

\* A library that is loaded and has something to do has done it.
Acted(t, lib) == Loaded(lib) /\ lib \notin job[t].libs

\* An address that a socket may be connected to.
DestOk(d) ==
    /\ Matches(d) => Sent(d) \/ Unreplaced
    /\ d.inet => net.orig # "bad" \/ ~ net.errno

BoundOk(s) == s.local # "any" \/ "bind" \in s.failed
ModeOk(s) == s.mode \/ "chmod" \in s.failed

\* What the socket of a call has by now.
SocketOk(t) ==
    Acted(t, "forcebindiface") /\ net.iface /\ IsSocket(job[t].fd) =>
        sock[fd[job[t].fd]].dev
BindOk(t) ==
    LET n == fd[job[t].fd] IN
    /\ IsSocket(job[t].fd)
    /\ ~ sock[n].inet => name \in {n, Foreign}
    /\ Acted(t, "uds_chmod") /\ net.mode = "good" /\ ~ sock[n].inet =>
          ModeOk(sock[n])
ConnectOk(t) ==
    LET n == fd[job[t].fd] IN
    /\ IsSocket(job[t].fd)
    /\ sock[n].inet = job[t].dest.inet
    /\ Acted(t, "forcebindip") /\ net.source = "good" /\ sock[n].inet =>
          BoundOk(sock[n]) \/ sock[n].peer # NoDest
    /\ Acted(t, "connredir") => DestOk(job[t].dest)
DoneOk(t) ==
    job[t].dest # NoDest =>
        /\ job[t].fd \in Fds
        /\ Loaded("connredir") /\ job[t].ok =>
              \/ IsSocket(job[t].fd) /\ sock[fd[job[t].fd]].peer # NoDest
              \/ fd[job[t].fd] = Given
              \/ Reused

JobOk(t) ==
    /\ job[t].op \in {"socket", "bind"} => job[t].dest = NoDest
    /\ \A l \in job[t].libs : Loaded(l)
    /\ job[t].op = "socket" => SocketOk(t)
    /\ job[t].op = "bind" => BindOk(t)
    /\ job[t].op = "connect" => ConnectOk(t)
    /\ job[t].op = "done" => DoneOk(t)

\* What a socket that is connected, and a descriptor that was returned, has.
PeerOk(n) ==
    /\ Loaded("connredir") => DestOk(sock[n].peer)
    /\ Loaded("forcebindip") /\ net.source = "good" /\ sock[n].peer.inet =>
          BoundOk(sock[n])
ToldOk(x) ==
    Loaded("forcebindiface") /\ net.iface /\ IsSocket(x) =>
        sock[fd[x]].dev \/ Reused

SocketInv ==
    /\ SocketTypes /\ Tables
    /\ \A t \in Sockers : JobOk(t)
    /\ \A n \in 1..MaxSocks : PeerOk(n)
    /\ \A x \in told : ToldOk(x)

-----------------------------------------------------------------------------
(* What a step does to one job and one socket *)

\* The numbers that stand for what a descriptor or a name refers to differ.
LEMMA NumbersApart ==
    /\ Closed \notin Fds /\ Closed \notin 1..MaxSocks
    /\ Given \notin 1..MaxSocks /\ Foreign \notin 1..MaxSocks
    /\ Closed # Given /\ Closed # Foreign /\ Fds \subseteq Nat
    /\ MaxSocks \in Nat
BY SocketCallsAssumption DEF Closed, Given, Foreign

\* The environment.
LEMMA NetTyped ==
    ASSUME SocketTypes
    PROVE  /\ net.tofd \in Fds \cup {Closed} /\ net.toport \in Nat
           /\ net.toip \in STRING /\ net.dests \subseteq Dest
           /\ net.errno \in BOOLEAN
<1>1. net \in Net
    BY DEF SocketTypes
<1>2. net.tofd \in Fds \cup {Closed}
    BY <1>1, Zenon DEF Net
<1>3. net.toport \in Nat /\ net.toip \in STRING
    BY <1>1, Zenon DEF Net
<1>4. net.dests \in SUBSET Dest
    BY <1>1, Zenon DEF Net
<1>5. net.errno \in BOOLEAN
    BY <1>1, Zenon DEF Net
<1> QED BY <1>2, <1>3, <1>4, <1>5

\* A thread that makes no call, and a socket that is not used.
LEMMA RecordsTyped ==
    /\ NoDest \in Dest /\ Idle \in JobRecord /\ Unused \in SocketRecord
    /\ NoDest.inet = FALSE /\ Unused.peer = NoDest
    /\ Idle.op = "none" /\ Idle.fd = Closed /\ Idle.dest = NoDest
    /\ Idle.libs = {}
<1>1. NoDest \in Dest /\ NoDest.inet = FALSE
    BY SMT DEF NoDest, Dest, PortNumbers
<1>2. Idle \in JobRecord
    BY <1>1, SMT DEF Idle, JobRecord, Ops
<1>3. Unused \in SocketRecord
    BY <1>1, SMT DEF Unused, SocketRecord
<1>4. Unused.peer = NoDest
    BY DEF Unused
<1>5. /\ Idle.op = "none" /\ Idle.fd = Closed /\ Idle.dest = NoDest
      /\ Idle.libs = {}
    BY Zenon DEF Idle
<1> QED BY <1>1, <1>2, <1>3, <1>4, <1>5

\* One job is another, the others stay.
JobIs(t, r) ==
    /\ job' \in [Sockers -> JobRecord] /\ job'[t] = r
    /\ \A u \in Sockers \ {t} : job'[u] = job[u]

LEMMA JobMoves ==
    ASSUME SocketTypes, NEW t \in Sockers, NEW r \in JobRecord,
           job' = [job EXCEPT ![t] = r]
    PROVE  JobIs(t, r)
BY DEF SocketTypes, JobIs

\* A job is over.
LEMMA DoneMoves ==
    ASSUME SocketTypes, NEW t \in Sockers, NEW ok \in BOOLEAN, Done(t, ok)
    PROVE  /\ JobIs(t, job'[t])
           /\ job'[t].op = "done" /\ job'[t].ok = ok /\ job'[t].libs = {}
           /\ job'[t].fd = job[t].fd /\ job'[t].dest = job[t].dest
<1> DEFINE r == [job[t] EXCEPT !.op = "done", !.ok = ok, !.libs = {}]
<1>1. job[t] \in JobRecord
    BY DEF SocketTypes
<1>2. "done" \in Ops /\ {} \in SUBSET Libraries
    BY DEF Ops
<1>3. r \in JobRecord
    BY <1>1, <1>2, Zenon DEF JobRecord
<1>4. /\ r.op = "done" /\ r.ok = ok /\ r.libs = {}
      /\ r.fd = job[t].fd /\ r.dest = job[t].dest
    BY <1>1, Zenon DEF JobRecord
<1>5. job' = [job EXCEPT ![t] = r]
    BY Zenon DEF Done
<1> HIDE DEF r
<1>6. JobIs(t, r)
    BY <1>3, <1>5, JobMoves
<1> QED BY <1>4, <1>6 DEF JobIs

\* A library of a job has acted.
LEMMA ContinueMoves ==
    ASSUME SocketTypes, NEW t \in Sockers, NEW lib, Continue(t, lib)
    PROVE  /\ JobIs(t, job'[t])
           /\ job'[t].op = job[t].op /\ job'[t].fd = job[t].fd
           /\ job'[t].dest = job[t].dest
           /\ job'[t].libs = job[t].libs \ {lib}
<1> DEFINE r == [job[t] EXCEPT !.libs = @ \ {lib}]
<1>1. job[t] \in JobRecord
    BY DEF SocketTypes
<1>2. job[t].libs \ {lib} \in SUBSET Libraries
    BY <1>1 DEF JobRecord
<1>3. r \in JobRecord
    BY <1>1, <1>2, Zenon DEF JobRecord
<1>4. /\ r.op = job[t].op /\ r.libs = job[t].libs \ {lib}
      /\ r.fd = job[t].fd /\ r.dest = job[t].dest
    BY <1>1, Zenon DEF JobRecord
<1>5. job' = [job EXCEPT ![t] = r]
    BY Zenon DEF Continue
<1> HIDE DEF r
<1>6. JobIs(t, r)
    BY <1>3, <1>5, JobMoves
<1> QED BY <1>4, <1>6 DEF JobIs

\* What a step may do to a socket that is used, and to nothing else of it.
Grows(n) ==
    /\ sock'[n].used /\ sock'[n].inet = sock[n].inet
    /\ sock[n].local # "any" => sock'[n].local # "any"
    /\ sock[n].dev => sock'[n].dev
    /\ sock[n].mode => sock'[n].mode
    /\ sock[n].failed \subseteq sock'[n].failed
    /\ sock[n].peer # NoDest => sock'[n].peer = sock[n].peer

\* A call of thread t leaves the calls of others as they are.
Beside(t) ==
    /\ net' = net /\ (given' => given)
    /\ name # Closed => name' \in {name, Foreign}
    /\ \A n \in 1..MaxSocks : sock[n].used => Grows(n)
    /\ \A u \in Sockers \ {t} : job'[u] = job[u]
    /\ \A u \in Sockers \ {t} : job[u].fd \in Fds =>
          fd'[job[u].fd] = fd[job[u].fd]

\* What does not depend on the call that makes the step.
LEMMA EnvStays ==
    ASSUME net' = net, given' => given
    PROVE  /\ \A l : Loaded(l)' = Loaded(l)
           /\ Reused => Reused'
           /\ \A d : DestOk(d) => DestOk(d)'
<1>1. \A l : Loaded(l)' = Loaded(l)
    BY DEF Loaded
<1>2. Reused => Reused'
    BY <1>1 DEF Reused
<1>3. \A d : Matches(d)' = Matches(d) /\ Sent(d)' = Sent(d)
    BY DEF Matches, Sent, Port, IsIp
<1>4. Unreplaced => Unreplaced'
    BY <1>2 DEF Unreplaced, Broken
<1> QED BY <1>1, <1>2, <1>3, <1>4 DEF DestOk

\* The job of another thread stays as it should be.
LEMMA OthersOk ==
    ASSUME SocketInv, NEW t \in Sockers, Beside(t), NEW u \in Sockers \ {t}
    PROVE  JobOk(u)'
<1> DEFINE x == job[u].fd
           n == fd[x]
<1>1. /\ job'[u] = job[u] /\ job[u] \in JobRecord /\ JobOk(u)
      /\ x \in Fds \cup {Closed} /\ Closed \notin Fds
      /\ x \in Fds => fd'[x] = n
    BY NumbersApart DEF SocketInv, SocketTypes, Beside, JobRecord
<1>2. /\ \A l : Loaded(l)' = Loaded(l)
      /\ Reused => Reused'
      /\ \A d : DestOk(d) => DestOk(d)'
      /\ net' = net
    BY EnvStays DEF Beside
<1>3. IsSocket(x) => n \in 1..MaxSocks /\ Grows(n)
    BY <1>1 DEF SocketInv, Tables, IsSocket, Beside
<1>4. /\ IsSocket(job[u].fd)' = IsSocket(x)
      /\ IsSocket(x) => fd'[job'[u].fd] = n
    BY <1>1 DEF IsSocket
<1>5. \A l : Acted(u, l)' = Acted(u, l)
    BY <1>1, <1>2 DEF Acted
<1>6. ASSUME job[u].op = "socket", SocketOk(u)
      PROVE  SocketOk(u)'
    BY <1>1, <1>2, <1>3, <1>4, <1>5, <1>6 DEF SocketOk, Grows
<1>7. ASSUME job[u].op = "bind", BindOk(u)
      PROVE  BindOk(u)'
    <2>1. name # Closed => name' \in {name, Foreign}
        BY DEF Beside
    <2> QED BY <1>1, <1>2, <1>3, <1>4, <1>5, <1>7, <2>1, NumbersApart
            DEF BindOk, Grows, ModeOk
<1>8. ASSUME job[u].op = "connect", ConnectOk(u)
      PROVE  ConnectOk(u)'
    BY <1>1, <1>2, <1>3, <1>4, <1>5, <1>8 DEF ConnectOk, Grows, BoundOk
<1>9. ASSUME job[u].op = "done", DoneOk(u)
      PROVE  DoneOk(u)'
    BY <1>1, <1>2, <1>3, <1>4, <1>9 DEF DoneOk, Grows
<1> QED BY <1>1, <1>2, <1>6, <1>7, <1>8, <1>9 DEF JobOk

\* The sockets keep what they have, and are not connected.
Keep ==
    /\ sock' \in [1..MaxSocks -> SocketRecord]
    /\ \A n \in 1..MaxSocks :
          /\ sock[n].used => Grows(n)
          /\ sock'[n].peer = sock[n].peer
          /\ BoundOk(sock[n]) => BoundOk(sock'[n])

\* A socket gets something in addition to what it has.
LEMMA SocketGets ==
    ASSUME SocketTypes, NEW n \in 1..MaxSocks, NEW r \in SocketRecord,
           sock' = [sock EXCEPT ![n] = r],
           r.used = sock[n].used, r.inet = sock[n].inet, r.peer = sock[n].peer,
           sock[n].local \in {"any", r.local}, sock[n].dev => r.dev,
           sock[n].mode => r.mode, sock[n].failed \subseteq r.failed
    PROVE  Keep /\ sock'[n] = r
<1>1. /\ sock' \in [1..MaxSocks -> SocketRecord] /\ sock'[n] = r
      /\ \A m \in 1..MaxSocks : m # n => sock'[m] = sock[m]
    BY DEF SocketTypes
<1>2. \A m \in 1..MaxSocks : /\ sock'[m].used = sock[m].used
                             /\ sock'[m].inet = sock[m].inet
                             /\ sock'[m].peer = sock[m].peer
    BY <1>1
<1>3. \A m \in 1..MaxSocks : /\ sock[m].local \in {"any", sock'[m].local}
                             /\ sock[m].failed \subseteq sock'[m].failed
    BY <1>1
<1>4. \A m \in 1..MaxSocks : /\ sock[m].dev => sock'[m].dev
                             /\ sock[m].mode => sock'[m].mode
    BY <1>1
<1> QED BY <1>1, <1>2, <1>3, <1>4 DEF Keep, Grows, BoundOk

\* Nothing happens to the sockets.
LEMMA NothingGets ==
    ASSUME SocketTypes, sock' = sock
    PROVE  Keep
BY DEF SocketTypes, Keep, Grows, BoundOk

\* setsockopt, bind and chmod have succeeded or failed.
LEMMA TosGets ==
    ASSUME SocketTypes, NEW n \in 1..MaxSocks,
           sock' = [sock EXCEPT ![n].tos = TRUE]
    PROVE  Keep
<1> DEFINE r == [sock[n] EXCEPT !.tos = TRUE]
<1>1. sock[n] \in SocketRecord
    BY DEF SocketTypes
<1>2. r \in SocketRecord
    BY <1>1, Zenon DEF SocketRecord
<1>3. /\ r.used = sock[n].used /\ r.inet = sock[n].inet
      /\ r.peer = sock[n].peer /\ r.local = sock[n].local
      /\ r.dev = sock[n].dev /\ r.mode = sock[n].mode
      /\ r.failed = sock[n].failed
    BY <1>1, Zenon DEF SocketRecord
<1> HIDE DEF r
<1> QED BY <1>2, <1>3, SocketGets DEF r

LEMMA DevGets ==
    ASSUME SocketTypes, NEW n \in 1..MaxSocks,
           sock' = [sock EXCEPT ![n].dev = TRUE]
    PROVE  Keep /\ sock'[n].dev
<1> DEFINE r == [sock[n] EXCEPT !.dev = TRUE]
<1>1. sock[n] \in SocketRecord
    BY DEF SocketTypes
<1>2. r \in SocketRecord
    BY <1>1, Zenon DEF SocketRecord
<1>3. /\ r.used = sock[n].used /\ r.inet = sock[n].inet
      /\ r.peer = sock[n].peer /\ r.local = sock[n].local
      /\ r.dev = TRUE /\ r.mode = sock[n].mode
      /\ r.failed = sock[n].failed
    BY <1>1, Zenon DEF SocketRecord
<1>4. sock' = [sock EXCEPT ![n] = r]
    BY Zenon
<1> HIDE DEF r
<1>5. Keep /\ sock'[n] = r
    BY <1>2, <1>3, <1>4, SocketGets
<1> QED BY <1>3, <1>5

LEMMA ModeGets ==
    ASSUME SocketTypes, NEW n \in 1..MaxSocks,
           sock' = [sock EXCEPT ![n].mode = TRUE]
    PROVE  Keep /\ ModeOk(sock'[n])
<1> DEFINE r == [sock[n] EXCEPT !.mode = TRUE]
<1>1. sock[n] \in SocketRecord
    BY DEF SocketTypes
<1>2. r \in SocketRecord
    BY <1>1, Zenon DEF SocketRecord
<1>3. /\ r.used = sock[n].used /\ r.inet = sock[n].inet
      /\ r.peer = sock[n].peer /\ r.local = sock[n].local
      /\ r.dev = sock[n].dev /\ r.mode = TRUE
      /\ r.failed = sock[n].failed
    BY <1>1, Zenon DEF SocketRecord
<1>4. sock' = [sock EXCEPT ![n] = r]
    BY Zenon
<1> HIDE DEF r
<1>5. Keep /\ sock'[n] = r
    BY <1>2, <1>3, <1>4, SocketGets
<1> QED BY <1>3, <1>5 DEF ModeOk

LEMMA FailureGets ==
    ASSUME SocketTypes, NEW n \in 1..MaxSocks, NEW f \in {"bind", "chmod"},
           sock' = [sock EXCEPT ![n].failed = @ \cup {f}]
    PROVE  Keep /\ f \in sock'[n].failed
<1> DEFINE r == [sock[n] EXCEPT !.failed = @ \cup {f}]
<1>1. sock[n] \in SocketRecord
    BY DEF SocketTypes
<1>2. sock[n].failed \cup {f} \in SUBSET {"bind", "chmod"}
    BY <1>1 DEF SocketRecord
<1>3. r \in SocketRecord
    BY <1>1, <1>2, Zenon DEF SocketRecord
<1>4. /\ r.used = sock[n].used /\ r.inet = sock[n].inet
      /\ r.peer = sock[n].peer /\ r.local = sock[n].local
      /\ r.dev = sock[n].dev /\ r.mode = sock[n].mode
      /\ r.failed = sock[n].failed \cup {f}
    BY <1>1, Zenon DEF SocketRecord
<1>5. sock' = [sock EXCEPT ![n] = r]
    BY Zenon
<1> HIDE DEF r
<1>6. /\ sock[n].local \in {"any", r.local}
      /\ sock[n].dev => r.dev
      /\ sock[n].mode => r.mode
      /\ sock[n].failed \subseteq r.failed
    BY <1>4
<1>7. Keep /\ sock'[n] = r
    BY <1>3, <1>4, <1>5, <1>6, SocketGets
<1> QED BY <1>4, <1>7

LEMMA LocalGets ==
    ASSUME SocketTypes, NEW n \in 1..MaxSocks, NEW l \in {"own", "forced"},
           sock[n].local = "any", sock' = [sock EXCEPT ![n].local = l]
    PROVE  Keep /\ BoundOk(sock'[n])
<1> DEFINE r == [sock[n] EXCEPT !.local = l]
<1>1. sock[n] \in SocketRecord
    BY DEF SocketTypes
<1>2. r \in SocketRecord
    BY <1>1, Zenon DEF SocketRecord
<1>3. /\ r.used = sock[n].used /\ r.inet = sock[n].inet
      /\ r.peer = sock[n].peer /\ r.local = l
      /\ r.dev = sock[n].dev /\ r.mode = sock[n].mode
      /\ r.failed = sock[n].failed
    BY <1>1, Zenon DEF SocketRecord
<1>4. sock' = [sock EXCEPT ![n] = r]
    BY Zenon
<1> HIDE DEF r
<1>5. /\ sock[n].local \in {"any", r.local}
      /\ sock[n].dev => r.dev
      /\ sock[n].mode => r.mode
      /\ sock[n].failed \subseteq r.failed
    BY <1>3
<1>6. Keep /\ sock'[n] = r
    BY <1>2, <1>3, <1>4, <1>5, SocketGets
<1> QED BY <1>3, <1>6 DEF BoundOk

-----------------------------------------------------------------------------
(* A step keeps the invariant if it keeps the job of its thread *)

\* A connected socket is as it should be if it gets no other peer.
LEMMA PeersStay ==
    ASSUME SocketInv, net' = net, given' => given, Keep
    PROVE  \A n \in 1..MaxSocks : PeerOk(n)'
<1>1. /\ \A l : Loaded(l)' = Loaded(l)
      /\ \A d : DestOk(d) => DestOk(d)'
    BY EnvStays
<1> QED BY <1>1 DEF SocketInv, Keep, PeerOk, BoundOk

\* So is a descriptor that is not closed or taken by another.
LEMMA ReturnedStays ==
    ASSUME SocketInv, NEW t \in Sockers, Beside(t), NEW x \in told,
           fd'[x] = fd[x]
    PROVE  ToldOk(x)'
<1>1. /\ \A l : Loaded(l)' = Loaded(l)
      /\ Reused => Reused'
      /\ net' = net
    BY EnvStays DEF Beside
<1>2. IsSocket(x)' = IsSocket(x) /\ ToldOk(x)
    BY DEF IsSocket, SocketInv
<1>3. IsSocket(x) => fd[x] \in 1..MaxSocks /\ Grows(fd[x])
    BY DEF IsSocket, SocketInv, Tables, Beside
<1> QED BY <1>1, <1>2, <1>3 DEF ToldOk, Grows

LEMMA StepOk ==
    ASSUME SocketInv, NEW t \in Sockers, Beside(t), SocketTypes', Tables',
           JobOk(t)', \A n \in 1..MaxSocks : PeerOk(n)',
           \A x \in told' : ToldOk(x)'
    PROVE  SocketInv'
<1>1. \A u \in Sockers : JobOk(u)'
    BY OthersOk
<1> QED BY <1>1 DEF SocketInv

\* A step of a library that changes no descriptor.
Quiet(t) ==
    /\ UNCHANGED <<net, fd, told, given, name>> /\ Keep
    /\ JobIs(t, job'[t]) /\ job'[t].fd \in {job[t].fd, Closed}

LEMMA QuietStep ==
    ASSUME SocketInv, NEW t \in Sockers, Quiet(t), JobOk(t)'
    PROVE  SocketInv'
<1>1. SocketTypes'
    BY DEF SocketInv, SocketTypes, Quiet, Keep, JobIs
<1>2. \A n \in 1..MaxSocks : sock[n].used => Grows(n)
    BY DEF Quiet, Keep
<1>3. Beside(t)
    BY <1>2 DEF Quiet, Beside, JobIs
<1>4. Tables'
    <2>1. \A u \in Sockers : job'[u].fd \in {job[u].fd, Closed}
        BY DEF Quiet, JobIs
    <2>2. \A x \in Fds : fd[x] \in 1..MaxSocks => sock'[fd[x]].used
        BY <1>2 DEF SocketInv, Tables, Grows
    <2> QED BY <2>1, <2>2 DEF SocketInv, Tables, Quiet
<1>5. \A n \in 1..MaxSocks : PeerOk(n)'
    BY PeersStay DEF Quiet
<1>6. \A x \in told' : ToldOk(x)'
    BY <1>3, ReturnedStays DEF Quiet
<1> QED BY <1>1, <1>3, <1>4, <1>5, <1>6, StepOk

-----------------------------------------------------------------------------
(* socket *)

\* The libraries of a call are those that are loaded.
LEMMA ChainIsLoaded ==
    /\ \A S : \A l \in Chain(S) : Loaded(l)
    /\ \A S, l : l \in S /\ Loaded(l) => l \in Chain(S)
    /\ \A S : S \subseteq Libraries => Chain(S) \subseteq Libraries
BY DEF Chain

\* The job that a call begins with.
LEMMA JobBegins ==
    ASSUME SocketTypes, NEW t \in Sockers, NEW o \in Ops,
           NEW x \in Fds \cup {Closed}, NEW d \in Dest,
           NEW S \in SUBSET Libraries,
           job' = [job EXCEPT ![t] = [Idle EXCEPT !.op = o, !.fd = x,
                                        !.dest = d, !.libs = Chain(S)]]
    PROVE  /\ JobIs(t, job'[t])
           /\ job'[t].op = o /\ job'[t].fd = x /\ job'[t].dest = d
           /\ job'[t].libs = Chain(S)
<1> DEFINE r == [Idle EXCEPT !.op = o, !.fd = x, !.dest = d, !.libs = Chain(S)]
<1>1. Idle \in JobRecord
    BY RecordsTyped
<1>2. Chain(S) \in SUBSET Libraries
    BY ChainIsLoaded
<1>3. r \in JobRecord
    BY <1>1, <1>2, Zenon DEF JobRecord
<1>4. r.op = o /\ r.fd = x /\ r.dest = d /\ r.libs = Chain(S)
    BY <1>1, Zenon DEF JobRecord
<1> HIDE DEF r
<1>5. JobIs(t, r)
    BY <1>3, JobMoves DEF r
<1> QED BY <1>4, <1>5 DEF JobIs

\* A descriptor is made for a socket.
LEMMA SocketKeeps ==
    ASSUME SocketInv, NEW t \in Sockers, Socket(t)
    PROVE  SocketInv'
<1>1. PICK inet \in BOOLEAN, x \in Fds, n \in 1..MaxSocks :
          /\ IsLowest(x, {y \in Fds : fd[y] = Closed})
          /\ IsLowest(n, {i \in 1..MaxSocks : ~ sock[i].used})
          /\ fd' = [fd EXCEPT ![x] = n]
          /\ sock' = [sock EXCEPT ![n].used = TRUE, ![n].inet = inet]
          /\ job' = [job EXCEPT ![t] =
                [Idle EXCEPT !.op = "socket", !.fd = x,
                             !.libs = Chain(OfSocket)]]
    BY Zenon DEF Socket
<1>2. fd[x] = Closed /\ ~ sock[n].used
    BY <1>1 DEF IsLowest
<1>3. UNCHANGED <<net, told, given, name>> /\ job[t].op = "none"
    BY DEF Socket
<1>4. /\ fd' \in [Fds -> {Closed, Given} \cup 1..MaxSocks] /\ fd'[x] = n
      /\ \A y \in Fds : y # x => fd'[y] = fd[y]
    BY <1>1 DEF SocketInv, SocketTypes
<1>5. /\ sock' \in [1..MaxSocks -> SocketRecord] /\ sock'[n].used
      /\ sock'[n].peer = sock[n].peer /\ sock'[n].local = sock[n].local
      /\ sock'[n].failed = sock[n].failed
      /\ \A m \in 1..MaxSocks : m # n => sock'[m] = sock[m]
    <2> DEFINE r == [sock[n] EXCEPT !.used = TRUE, !.inet = inet]
    <2>1. sock[n] \in SocketRecord
        BY DEF SocketInv, SocketTypes
    <2>2. r \in SocketRecord
        BY <2>1, Zenon DEF SocketRecord
    <2>3. /\ r.used = TRUE /\ r.peer = sock[n].peer
          /\ r.local = sock[n].local /\ r.failed = sock[n].failed
        BY <2>1, Zenon DEF SocketRecord
    <2>4. sock' = [sock EXCEPT ![n] = r]
        BY <1>1, Zenon
    <2> HIDE DEF r
    <2> QED BY <2>2, <2>3, <2>4 DEF SocketInv, SocketTypes
<1>6. \A m \in 1..MaxSocks : sock[m].used => m # n /\ sock'[m] = sock[m]
    BY <1>2, <1>5
<1>7. \A m \in 1..MaxSocks : sock[m].used => Grows(m)
    BY <1>6 DEF Grows
<1>8. Keep
    BY <1>5, <1>7 DEF Keep, BoundOk
<1>9. /\ JobIs(t, job'[t])
      /\ job'[t].op = "socket" /\ job'[t].fd = x /\ job'[t].dest = NoDest
      /\ job'[t].libs = Chain(OfSocket)
    <2>1. job' = [job EXCEPT ![t] =
                [Idle EXCEPT !.op = "socket", !.fd = x, !.dest = NoDest,
                             !.libs = Chain(OfSocket)]]
        BY <1>1, RecordsTyped, Zenon DEF Idle
    <2>2. "socket" \in Ops /\ OfSocket \in SUBSET Libraries
        BY DEF Ops, OfSocket, Libraries
    <2>3. x \in Fds \cup {Closed} /\ NoDest \in Dest /\ SocketTypes
        BY RecordsTyped DEF SocketInv
    <2> QED BY <2>1, <2>2, <2>3, JobBegins
<1>10. \A u \in Sockers \ {t} : job[u].fd \in Fds => job[u].fd # x
    BY <1>2, NumbersApart DEF SocketInv, Tables
<1>11. Beside(t)
    BY <1>3, <1>4, <1>7, <1>9, <1>10 DEF Beside, JobIs
<1>12. SocketTypes'
    BY <1>3, <1>4, <1>5, <1>9 DEF SocketInv, SocketTypes, JobIs
<1>13. Tables'
    <2>1. \A y \in Fds : fd'[y] \in 1..MaxSocks => sock'[fd'[y]].used
        BY <1>4, <1>5, <1>6 DEF SocketInv, Tables
    <2>2. \A u \in Sockers : job'[u].fd # Closed => fd'[job'[u].fd] # Closed
        <3>1. job'[t].fd # Closed /\ fd'[job'[t].fd] # Closed
            BY <1>4, <1>9, NumbersApart
        <3>2. \A u \in Sockers \ {t} : /\ job'[u] = job[u]
                                       /\ job[u].fd \in Fds \cup {Closed}
            BY <1>9 DEF JobIs, SocketInv, SocketTypes, JobRecord
        <3> QED BY <1>4, <1>10, <3>1, <3>2 DEF SocketInv, Tables
    <2>3. \A u, v \in Sockers : job'[u].fd = job'[v].fd /\ job'[u].fd # Closed
                => u = v
        <3>1. \A u \in Sockers \ {t} :
                  job'[u] = job[u] /\ job[u].fd # job'[t].fd
            BY <1>9, <1>10 DEF JobIs
        <3> QED BY <3>1 DEF SocketInv, Tables
    <2>4. \A y \in told' : fd'[y] # Closed
        BY <1>3, <1>4, NumbersApart DEF SocketInv, Tables, SocketTypes
    <2>5. given' => net'.tofd # Closed /\ fd'[net'.tofd] = Given
        <3>1. ASSUME given PROVE net.tofd # x /\ net.tofd \in Fds
            BY <1>2, <3>1, NumbersApart, NetTyped DEF SocketInv, Tables
        <3> QED BY <1>3, <1>4, <3>1 DEF SocketInv, Tables
    <2> QED BY <2>1, <2>2, <2>3, <2>4, <2>5 DEF Tables
<1>14. JobOk(t)'
    <2>1. (\A l \in job[t].libs : Loaded(l))' /\ Loaded("forcebindiface")' =
              Loaded("forcebindiface")
        BY <1>3, <1>9, ChainIsLoaded, EnvStays
    <2>2. ~ Acted(t, "forcebindiface")'
        BY <1>3, <1>9, <2>1, ChainIsLoaded, EnvStays DEF Acted, OfSocket
    <2> QED BY <1>9, <2>1, <2>2 DEF JobOk, SocketOk
<1>15. \A m \in 1..MaxSocks : PeerOk(m)'
    BY <1>3, <1>8, PeersStay
<1>16. \A y \in told' : ToldOk(y)'
    <2>1. \A y \in told : y # x /\ fd'[y] = fd[y]
        BY <1>2, <1>4 DEF SocketInv, Tables, SocketTypes
    <2> QED BY <1>3, <1>11, <2>1, ReturnedStays
<1> QED BY <1>11, <1>12, <1>13, <1>14, <1>15, <1>16, StepOk

\* What a library of a call leaves to the others.
LEMMA LibraryActs ==
    ASSUME SocketInv, NEW t \in Sockers, NEW lib, Continue(t, lib), net' = net,
           Keep
    PROVE  /\ \A l \in job'[t].libs : Loaded(l)'
           /\ \A l : l # lib => Acted(t, l)' = Acted(t, l)
           /\ \A l : Loaded(l)' = Loaded(l)
           /\ IsSocket(job[t].fd) =>
                 fd[job[t].fd] \in 1..MaxSocks /\ Grows(fd[job[t].fd])
<1>1. job'[t].libs = job[t].libs \ {lib}
    BY ContinueMoves DEF SocketInv
<1>2. \A l : Loaded(l)' = Loaded(l)
    BY DEF Loaded
<1>3. \A l \in job[t].libs : Loaded(l)
    BY DEF SocketInv, JobOk
<1>4. IsSocket(job[t].fd) =>
          fd[job[t].fd] \in 1..MaxSocks /\ Grows(fd[job[t].fd])
    BY DEF IsSocket, Keep, SocketInv, Tables
<1> QED BY <1>1, <1>2, <1>3, <1>4 DEF Acted

\* No descriptor is left: the libraries get -1.
LEMMA SocketFailsKeeps ==
    ASSUME SocketInv, NEW t \in Sockers, SocketFails(t)
    PROVE  SocketInv'
<1>1. /\ JobIs(t, job'[t])
      /\ job'[t].op = "socket" /\ job'[t].fd = Closed /\ job'[t].dest = NoDest
      /\ job'[t].libs = Chain(OfSocket)
    <2>1. job' = [job EXCEPT ![t] =
                [Idle EXCEPT !.op = "socket", !.fd = Closed, !.dest = NoDest,
                             !.libs = Chain(OfSocket)]]
        BY RecordsTyped, Zenon DEF SocketFails, Idle
    <2>2. "socket" \in Ops /\ OfSocket \in SUBSET Libraries
        BY DEF Ops, OfSocket, Libraries
    <2>3. Closed \in Fds \cup {Closed} /\ NoDest \in Dest
        BY RecordsTyped
    <2> QED BY <2>1, <2>2, <2>3, JobBegins DEF SocketInv
<1>2. UNCHANGED <<net, fd, sock, told, given, name>>
    BY DEF SocketFails
<1>3. Quiet(t)
    BY <1>1, <1>2, NothingGets DEF Quiet, SocketInv
<1>4. \A l : Loaded(l)' = Loaded(l)
    BY <1>2 DEF Loaded
<1>5. JobOk(t)'
    BY <1>1, <1>4, ChainIsLoaded, NumbersApart DEF JobOk, SocketOk, IsSocket
<1> QED BY <1>3, <1>5, QuietStep

\* ip_dscp.so changes nothing that is looked at.
LEMMA IpDscpKeeps ==
    ASSUME SocketInv, NEW t \in Sockers, IpDscp(t)
    PROVE  SocketInv'
<1>1. /\ UNCHANGED <<net, fd, told, given, name>>
      /\ job[t].op = "socket" /\ Continue(t, "ip_dscp")
    BY DEF IpDscp, At
<1>2. Keep
    <2>1. CASE IsSocket(job[t].fd)
               /\ sock' = [sock EXCEPT ![fd[job[t].fd]].tos = TRUE]
        BY <2>1, TosGets DEF IsSocket, SocketInv
    <2>2. CASE UNCHANGED sock
        BY <2>2, NothingGets DEF SocketInv
    <2> QED BY <2>1, <2>2 DEF IpDscp
<1>3. /\ JobIs(t, job'[t])
      /\ job'[t].op = "socket" /\ job'[t].fd = job[t].fd
      /\ job'[t].dest = job[t].dest
    BY <1>1, ContinueMoves DEF SocketInv
<1>4. Quiet(t)
    BY <1>1, <1>2, <1>3 DEF Quiet
<1>5. /\ \A l \in job'[t].libs : Loaded(l)'
      /\ \A l : l # "ip_dscp" => Acted(t, l)' = Acted(t, l)
      /\ IsSocket(job[t].fd) =>
            fd[job[t].fd] \in 1..MaxSocks /\ Grows(fd[job[t].fd])
    BY <1>1, <1>2, LibraryActs
<1>6. JobOk(t)'
    BY <1>1, <1>3, <1>5 DEF JobOk, SocketOk, SocketInv, IsSocket, Grows
<1> QED BY <1>4, <1>6, QuietStep

\* forcebindiface.so binds the socket or gives up the descriptor.
LEMMA ForceBindIfaceKeeps ==
    ASSUME SocketInv, NEW t \in Sockers, ForceBindIface(t)
    PROVE  SocketInv'
<1>1. /\ UNCHANGED <<net, fd, told, given, name>>
      /\ job[t].op = "socket"
    BY DEF ForceBindIface, At
<1>2. CASE /\ Continue(t, "forcebindiface")
           /\ \/ ~ net.iface /\ UNCHANGED sock
              \/ /\ IsSocket(job[t].fd)
                 /\ sock' = [sock EXCEPT ![fd[job[t].fd]].dev = TRUE]
    <2>1. Keep /\ (net.iface => sock'[fd[job[t].fd]].dev)
        <3>1. CASE ~ net.iface /\ UNCHANGED sock
            BY <3>1, NothingGets DEF SocketInv
        <3>2. CASE IsSocket(job[t].fd)
                   /\ sock' = [sock EXCEPT ![fd[job[t].fd]].dev = TRUE]
            BY <3>2, DevGets DEF IsSocket, SocketInv
        <3> QED BY <1>2, <3>1, <3>2
    <2>2. /\ JobIs(t, job'[t])
          /\ job'[t].op = "socket" /\ job'[t].fd = job[t].fd
          /\ job'[t].dest = job[t].dest
        BY <1>1, <1>2, ContinueMoves DEF SocketInv
    <2>3. Quiet(t)
        BY <1>1, <2>1, <2>2 DEF Quiet
    <2>4. \A l \in job'[t].libs : Loaded(l)'
        BY <1>1, <1>2, <2>1, LibraryActs
    <2>5. JobOk(t)'
        BY <1>1, <2>1, <2>2, <2>4 DEF JobOk, SocketOk, SocketInv
    <2> QED BY <2>3, <2>5, QuietStep
<1>3. CASE /\ job' = [job EXCEPT ![t].fd = Closed,
                                 ![t].libs = @ \ {"forcebindiface"}]
           /\ UNCHANGED sock
    <2> DEFINE r == [job[t] EXCEPT !.fd = Closed,
                                   !.libs = @ \ {"forcebindiface"}]
    <2>1. job[t] \in JobRecord
        BY DEF SocketInv, SocketTypes
    <2>2. job[t].libs \ {"forcebindiface"} \in SUBSET Libraries
          /\ Closed \in Fds \cup {Closed}
        BY <2>1 DEF JobRecord
    <2>3. r \in JobRecord
        BY <2>1, <2>2, Zenon DEF JobRecord
    <2>4. /\ r.op = job[t].op /\ r.fd = Closed /\ r.dest = job[t].dest
          /\ r.libs = job[t].libs \ {"forcebindiface"}
        BY <2>1, Zenon DEF JobRecord
    <2>5. job' = [job EXCEPT ![t] = r]
        BY <1>3, Zenon
    <2> HIDE DEF r
    <2>6. JobIs(t, r)
        BY <2>3, <2>5, JobMoves DEF SocketInv
    <2>7. Quiet(t) /\ job'[t] = r
        BY <1>1, <1>3, <2>4, <2>6, NothingGets DEF Quiet, SocketInv, JobIs
    <2>8. \A l : Loaded(l)' = Loaded(l)
        BY <1>1 DEF Loaded
    <2>9. JobOk(t)'
        BY <1>1, <2>4, <2>7, <2>8, NumbersApart
           DEF JobOk, SocketOk, SocketInv, IsSocket
    <2> QED BY <2>7, <2>9, QuietStep
<1> QED BY <1>2, <1>3, Zenon DEF ForceBindIface

\* socket returns a descriptor that all libraries have seen.
LEMMA SocketReturnsKeeps ==
    ASSUME SocketInv, NEW t \in Sockers, SocketReturns(t)
    PROVE  SocketInv'
<1>0. PICK x : x = job[t].fd
    OBVIOUS
<1>1. /\ UNCHANGED <<net, fd, sock, given, name>>
      /\ told' = told \cup ({x} \ {Closed})
      /\ job[t].op = "socket" /\ job[t].libs = {}
      /\ Done(t, x # Closed)
    BY <1>0 DEF SocketReturns, Kernel
<1>2. /\ JobIs(t, job'[t])
      /\ job'[t].op = "done" /\ job'[t].libs = {}
      /\ job'[t].fd = x /\ job'[t].dest = job[t].dest
    BY <1>0, <1>1, DoneMoves DEF SocketInv
<1>3. Keep
    BY <1>1, NothingGets DEF SocketInv
<1>4. Beside(t)
    BY <1>1, <1>2, <1>3 DEF Beside, Keep, JobIs
<1>5. x \in Fds \cup {Closed} /\ JobOk(t)
    BY <1>0 DEF SocketInv, SocketTypes, JobRecord
<1>6. SocketTypes'
    BY <1>1, <1>2, <1>5 DEF SocketInv, SocketTypes, JobIs
<1>7. Tables'
    <2>1. \A u \in Sockers : job'[u].fd = job[u].fd
        BY <1>0, <1>2 DEF JobIs
    <2>2. \A y \in told' : fd[y] # Closed
        BY <1>0, <1>1 DEF SocketInv, Tables
    <2> QED BY <1>1, <2>1, <2>2 DEF SocketInv, Tables
<1>8. JobOk(t)'
    BY <1>1, <1>2, <1>5 DEF JobOk, DoneOk
<1>9. \A n \in 1..MaxSocks : PeerOk(n)'
    BY <1>1, <1>3, PeersStay
<1>10. \A y \in told' : ToldOk(y)'
    <2>1. ASSUME NEW y \in told PROVE ToldOk(y)'
        BY <1>1, <1>4, <2>1, ReturnedStays
    <2>2. ToldOk(x)'
        <3>1. \A l : Loaded(l)' = Loaded(l)
            BY <1>1 DEF Loaded
        <3>2. Loaded("forcebindiface") => Acted(t, "forcebindiface")
            BY <1>1 DEF Acted
        <3>3. SocketOk(t)
            BY <1>1, <1>5 DEF JobOk
        <3> QED BY <1>0, <1>1, <3>1, <3>2, <3>3 DEF ToldOk, SocketOk, IsSocket
    <2> QED BY <1>1, <2>1, <2>2
<1> QED BY <1>4, <1>6, <1>7, <1>8, <1>9, <1>10, StepOk

-----------------------------------------------------------------------------
(* bind *)

\* A call begins with a descriptor that no other call has.
LEMMA NewCall ==
    ASSUME SocketInv, NEW t \in Sockers, NEW x \in told, Free(x),
           UNCHANGED <<net, fd, told, given>>, Keep, JobIs(t, job'[t]),
           job'[t].fd = x, name' \in {Closed, Foreign} \cup 1..MaxSocks,
           name # Closed => name' \in {name, Foreign}, JobOk(t)'
    PROVE  SocketInv'
<1>1. SocketTypes'
    BY DEF SocketInv, SocketTypes, Keep, JobIs
<1>2. \A n \in 1..MaxSocks : sock[n].used => Grows(n)
    BY DEF Keep
<1>3. Beside(t)
    BY <1>2 DEF Beside, JobIs
<1>4. Tables'
    <2>1. \A u \in Sockers \ {t} : job'[u].fd = job[u].fd /\ job[u].fd # x
        BY DEF JobIs, Free
    <2>2. \A y \in Fds : fd[y] \in 1..MaxSocks => sock'[fd[y]].used
        BY <1>2 DEF SocketInv, Tables, Grows
    <2>3. fd[x] # Closed
        BY DEF SocketInv, Tables
    <2> QED BY <2>1, <2>2, <2>3 DEF SocketInv, Tables
<1>5. \A n \in 1..MaxSocks : PeerOk(n)'
    BY PeersStay
<1>6. \A y \in told' : ToldOk(y)'
    BY <1>3, ReturnedStays
<1> QED BY <1>1, <1>3, <1>4, <1>5, <1>6, StepOk

\* The program binds a socket.
LEMMA BindKeeps ==
    ASSUME SocketInv, NEW t \in Sockers, Bind(t)
    PROVE  SocketInv'
<1>1. PICK x \in told :
          /\ Free(x) /\ IsSocket(x)
          /\ Bindable(sock[fd[x]])
          /\ sock' = [sock EXCEPT ![fd[x]].local = "own"]
          /\ name' = IF sock[fd[x]].inet THEN name ELSE fd[x]
          /\ job' = [job EXCEPT ![t] =
                [Idle EXCEPT !.op = "bind", !.fd = x,
                             !.libs = Chain({"uds_chmod"})]]
    BY Zenon DEF Bind
<1>2. PICK n : n = fd[x]
    OBVIOUS
<1>3. n \in 1..MaxSocks /\ x \in Fds
    BY <1>1, <1>2 DEF IsSocket
<1>4. UNCHANGED <<net, fd, told, given>>
    BY DEF Bind
<1>5. Keep
    BY <1>1, <1>2, <1>3, LocalGets DEF SocketInv, Bindable
<1>6. Grows(n)
    BY <1>2, <1>3, <1>5 DEF Keep, SocketInv, Tables
<1>7. /\ JobIs(t, job'[t])
      /\ job'[t].op = "bind" /\ job'[t].fd = x /\ job'[t].dest = NoDest
      /\ job'[t].libs = Chain({"uds_chmod"})
    <2>1. job' = [job EXCEPT ![t] =
                [Idle EXCEPT !.op = "bind", !.fd = x, !.dest = NoDest,
                             !.libs = Chain({"uds_chmod"})]]
        BY <1>1, RecordsTyped, Zenon DEF Idle
    <2>2. "bind" \in Ops /\ {"uds_chmod"} \in SUBSET Libraries
        BY DEF Ops, Libraries
    <2>3. x \in Fds \cup {Closed} /\ NoDest \in Dest
        BY <1>3, RecordsTyped
    <2> QED BY <2>1, <2>2, <2>3, JobBegins DEF SocketInv
<1>8. /\ name' \in {Closed, Foreign} \cup 1..MaxSocks
      /\ name # Closed => name' \in {name, Foreign}
      /\ ~ sock[n].inet => name' = n
    BY <1>1, <1>2, <1>3 DEF SocketInv, SocketTypes, Bindable
<1>9. \A l : Loaded(l)' = Loaded(l)
    BY <1>4 DEF Loaded
<1>10. JobOk(t)'
    <2>1. ~ Acted(t, "uds_chmod")'
        BY <1>7, <1>9, ChainIsLoaded DEF Acted
    <2>2. \A l \in job'[t].libs : Loaded(l)'
        BY <1>7, <1>9, ChainIsLoaded
    <2>3. IsSocket(x)' /\ fd'[job'[t].fd] = n
        BY <1>1, <1>2, <1>4, <1>7 DEF IsSocket
    <2>4. sock'[n].inet = sock[n].inet
        BY <1>6 DEF Grows
    <2> QED BY <1>7, <1>8, <2>1, <2>2, <2>3, <2>4 DEF JobOk, BindOk, IsSocket
<1> QED BY <1>1, <1>4, <1>5, <1>7, <1>8, <1>10, NewCall

\* A bind that fails leaves everything as it is.
LEMMA BindFailsKeeps ==
    ASSUME SocketInv, NEW t \in Sockers, BindFails(t)
    PROVE  SocketInv'
<1>1. PICK x \in told :
          /\ Free(x) /\ IsSocket(x)
          /\ job' = [job EXCEPT ![t] = [Idle EXCEPT !.op = "done", !.fd = x]]
    BY Zenon DEF BindFails
<1>2. UNCHANGED <<net, fd, sock, told, given, name>>
    BY DEF BindFails
<1>3. x \in Fds
    BY <1>1 DEF IsSocket
<1>4. Keep
    BY <1>2, NothingGets DEF SocketInv
<1>5. /\ JobIs(t, job'[t])
      /\ job'[t].op = "done" /\ job'[t].fd = x /\ job'[t].dest = NoDest
      /\ job'[t].libs = {}
    <2> DEFINE r == [Idle EXCEPT !.op = "done", !.fd = x]
    <2>1. Idle \in JobRecord /\ Idle.dest = NoDest /\ Idle.libs = {}
        BY RecordsTyped
    <2>2. "done" \in Ops /\ x \in Fds \cup {Closed}
        BY <1>3 DEF Ops
    <2>3. r \in JobRecord
        BY <2>1, <2>2, Zenon DEF JobRecord
    <2>4. r.op = "done" /\ r.fd = x /\ r.dest = NoDest /\ r.libs = {}
        BY <2>1, Zenon DEF JobRecord
    <2>5. job' = [job EXCEPT ![t] = r]
        BY <1>1
    <2> HIDE DEF r
    <2> QED BY <2>3, <2>4, <2>5, JobMoves DEF SocketInv, JobIs
<1>6. JobOk(t)'
    BY <1>5 DEF JobOk, DoneOk
<1>7. /\ name' \in {Closed, Foreign} \cup 1..MaxSocks
      /\ name # Closed => name' \in {name, Foreign}
    BY <1>2 DEF SocketInv, SocketTypes
<1> QED BY <1>1, <1>2, <1>4, <1>5, <1>6, <1>7, NewCall

\* chmod finds the socket, or another process's file.
LEMMA ChmodKeeps ==
    ASSUME SocketInv, NEW t \in Sockers, Chmod(t)
    PROVE  SocketInv'
<1>0. PICK n : n = fd[job[t].fd]
    OBVIOUS
<1>1. /\ UNCHANGED <<net, fd, told, given, name>>
      /\ job[t].op = "bind" /\ Continue(t, "uds_chmod")
    BY DEF Chmod, At
<1>2. BindOk(t) /\ n \in 1..MaxSocks
    BY <1>0, <1>1 DEF SocketInv, JobOk, BindOk, IsSocket
<1>3. /\ Keep
      /\ ~ sock[n].inet /\ net.mode = "good" => ModeOk(sock'[n])
    <2>1. CASE /\ ~ sock[n].inet /\ name \in 1..MaxSocks
               /\ sock' = [sock EXCEPT ![name].mode = TRUE]
        <3>1. name = n
            BY <1>0, <1>2, <2>1, NumbersApart DEF BindOk
        <3> QED BY <1>2, <2>1, <3>1, ModeGets DEF SocketInv
    <2>2. CASE sock' = [sock EXCEPT ![n].failed = @ \cup {"chmod"}]
        <3>1. Keep /\ "chmod" \in sock'[n].failed
            BY <1>2, <2>2, FailureGets DEF SocketInv
        <3> QED BY <3>1 DEF ModeOk
    <2>3. CASE ~ (~ sock[n].inet /\ net.mode = "good") /\ UNCHANGED sock
        BY <2>3, NothingGets DEF SocketInv
    <2> QED BY <1>0, <2>1, <2>2, <2>3 DEF Chmod
<1>4. /\ JobIs(t, job'[t])
      /\ job'[t].op = "bind" /\ job'[t].fd = job[t].fd
      /\ job'[t].dest = job[t].dest
    BY <1>1, ContinueMoves DEF SocketInv
<1>5. Quiet(t)
    BY <1>1, <1>3, <1>4 DEF Quiet
<1>6. /\ \A l \in job'[t].libs : Loaded(l)'
      /\ IsSocket(job[t].fd) => Grows(n)
    BY <1>0, <1>1, <1>3, LibraryActs
<1>7. JobOk(t)'
    <2>1. IsSocket(job[t].fd) /\ (IsSocket(job[t].fd))'
          /\ fd'[job'[t].fd] = n
        BY <1>0, <1>1, <1>2, <1>4 DEF BindOk, IsSocket
    <2>2. sock'[n].inet = sock[n].inet /\ ModeOk(sock'[n]) = ModeOk(sock[n])'
        BY <1>6, <2>1 DEF Grows, ModeOk
    <2>3. ~ sock[n].inet => name \in {n, Foreign}
        BY <1>0, <1>2 DEF BindOk
    <2> QED BY <1>1, <1>3, <1>4, <1>6, <2>1, <2>2, <2>3
            DEF JobOk, BindOk, SocketInv
<1> QED BY <1>5, <1>7, QuietStep

\* bind returns.
LEMMA BindReturnsKeeps ==
    ASSUME SocketInv, NEW t \in Sockers, BindReturns(t)
    PROVE  SocketInv'
<1>1. /\ UNCHANGED <<net, fd, sock, told, given, name>>
      /\ job[t].op = "bind" /\ Done(t, TRUE)
    BY DEF BindReturns, Kernel
<1>2. /\ JobIs(t, job'[t])
      /\ job'[t].op = "done" /\ job'[t].libs = {}
      /\ job'[t].fd = job[t].fd /\ job'[t].dest = job[t].dest
    BY <1>1, DoneMoves DEF SocketInv
<1>3. Quiet(t)
    BY <1>1, <1>2, NothingGets DEF Quiet, SocketInv
<1>4. JobOk(t)'
    BY <1>1, <1>2 DEF SocketInv, JobOk, DoneOk
<1> QED BY <1>3, <1>4, QuietStep

\* Another process takes the name.
LEMMA TakesNameKeeps ==
    ASSUME SocketInv, TakesName
    PROVE  SocketInv'
<1>1. UNCHANGED <<net, fd, sock, job, told, given>> /\ name' = Foreign
    BY DEF TakesName
<1>2. SocketTypes'
    BY <1>1 DEF SocketInv, SocketTypes
<1>3. Tables'
    BY <1>1 DEF SocketInv, Tables
<1>4. /\ \A l : Loaded(l)' = Loaded(l)
      /\ Reused' = Reused
      /\ \A d : DestOk(d) => DestOk(d)'
      /\ \A t, l : Acted(t, l)' = Acted(t, l)
    BY <1>1, EnvStays DEF Loaded, Reused, Acted
<1>5. \A x : IsSocket(x)' = IsSocket(x)
    BY <1>1 DEF IsSocket
<1>6. ASSUME NEW t \in Sockers
      PROVE  JobOk(t)'
    <2>1. JobOk(t)
        BY DEF SocketInv
    <2>2. SocketOk(t) => SocketOk(t)'
        BY <1>1, <1>4, <1>5 DEF SocketOk, IsSocket
    <2>3. BindOk(t) => BindOk(t)'
        BY <1>1, <1>4, <1>5 DEF BindOk, ModeOk, IsSocket
    <2>4. ConnectOk(t) => ConnectOk(t)'
        BY <1>1, <1>4, <1>5 DEF ConnectOk, BoundOk, IsSocket
    <2>5. DoneOk(t) => DoneOk(t)'
        BY <1>1, <1>4, <1>5 DEF DoneOk, IsSocket
    <2> QED BY <1>1, <1>4, <2>1, <2>2, <2>3, <2>4, <2>5 DEF JobOk
<1>7. ASSUME NEW n \in 1..MaxSocks
      PROVE  PeerOk(n)'
    BY <1>1, <1>4 DEF SocketInv, PeerOk, BoundOk
<1>8. ASSUME NEW x \in told
      PROVE  ToldOk(x)'
    BY <1>1, <1>4, <1>5 DEF SocketInv, ToldOk, IsSocket
<1> QED BY <1>1, <1>2, <1>3, <1>6, <1>7, <1>8 DEF SocketInv

-----------------------------------------------------------------------------
(* connect *)

\* The program connects a socket.
LEMMA ConnectKeeps ==
    ASSUME SocketInv, NEW t \in Sockers, Connect(t)
    PROVE  SocketInv'
<1>1. PICK x \in told, d \in net.dests :
          /\ Free(x) /\ IsSocket(x) /\ sock[fd[x]].inet = d.inet
          /\ job' = [job EXCEPT ![t] =
                [Idle EXCEPT !.op = "connect", !.fd = x, !.dest = d,
                             !.libs = Chain({"connredir", "forcebindip"})]]
    BY Zenon DEF Connect
<1>2. UNCHANGED <<net, fd, sock, told, given, name>>
    BY DEF Connect
<1>3. x \in Fds /\ d \in Dest
    BY <1>1, NetTyped DEF IsSocket, SocketInv
<1>4. Keep
    BY <1>2, NothingGets DEF SocketInv
<1>5. /\ JobIs(t, job'[t])
      /\ job'[t].op = "connect" /\ job'[t].fd = x /\ job'[t].dest = d
      /\ job'[t].libs = Chain({"connredir", "forcebindip"})
    <2>1. /\ "connect" \in Ops
          /\ {"connredir", "forcebindip"} \in SUBSET Libraries
        BY DEF Ops, Libraries
    <2>2. x \in Fds \cup {Closed} /\ SocketTypes
        BY <1>3 DEF SocketInv
    <2>3. job' = [job EXCEPT ![t] =
                [Idle EXCEPT !.op = "connect", !.fd = x, !.dest = d,
                             !.libs = Chain({"connredir", "forcebindip"})]]
        BY <1>1
    <2> QED BY <1>3, <2>1, <2>2, <2>3, JobBegins
<1>6. \A l : Loaded(l)' = Loaded(l)
    BY <1>2 DEF Loaded
<1>7. JobOk(t)'
    <2>1. ~ Acted(t, "connredir")' /\ ~ Acted(t, "forcebindip")'
        BY <1>5, <1>6, ChainIsLoaded DEF Acted
    <2>2. \A l \in job'[t].libs : Loaded(l)'
        BY <1>5, <1>6, ChainIsLoaded
    <2>3. IsSocket(x)' /\ sock'[fd'[x]].inet = d.inet
        BY <1>1, <1>2 DEF IsSocket
    <2> QED BY <1>5, <2>1, <2>2, <2>3 DEF JobOk, ConnectOk, IsSocket
<1>8. /\ name' \in {Closed, Foreign} \cup 1..MaxSocks
      /\ name # Closed => name' \in {name, Foreign}
    BY <1>2 DEF SocketInv, SocketTypes
<1> QED BY <1>1, <1>2, <1>4, <1>5, <1>7, <1>8, NewCall

\* forcebindip.so binds a socket, has failed to, or finds it bound or
\* connected.
LEMMA ForceBindIpKeeps ==
    ASSUME SocketInv, NEW t \in Sockers, ForceBindIp(t)
    PROVE  SocketInv'
<1>0. PICK x, n : x = job[t].fd /\ n = fd[x]
    OBVIOUS
<1>1. /\ UNCHANGED <<net, fd, told, given, name>>
      /\ job[t].op = "connect" /\ Continue(t, "forcebindip")
    BY DEF ForceBindIp, At
<1>2. ConnectOk(t) /\ IsSocket(x) /\ n \in 1..MaxSocks
    BY <1>0, <1>1 DEF SocketInv, JobOk, ConnectOk, IsSocket
<1> DEFINE binds == /\ net.source = "good" /\ sock[n].inet
                    /\ sock[n].local = "any" /\ sock[n].peer = NoDest
<1>3. /\ Keep
      /\ net.source = "good" /\ sock[n].inet =>
            BoundOk(sock'[n]) \/ sock[n].peer # NoDest
    <2>1. CASE binds /\ sock' = [sock EXCEPT ![n].local = "forced"]
        BY <1>2, <2>1, LocalGets DEF SocketInv
    <2>2. CASE sock' = [sock EXCEPT ![n].failed = @ \cup {"bind"}]
        BY <1>2, <2>2, FailureGets DEF SocketInv, BoundOk
    <2>3. CASE ~ binds /\ UNCHANGED sock
        BY <2>3, NothingGets DEF SocketInv, BoundOk
    <2> QED BY <1>0, <1>2, <2>1, <2>2, <2>3 DEF ForceBindIp
<1>4. /\ JobIs(t, job'[t])
      /\ job'[t].op = "connect" /\ job'[t].fd = x
      /\ job'[t].dest = job[t].dest
    BY <1>0, <1>1, ContinueMoves DEF SocketInv
<1>5. Quiet(t)
    BY <1>0, <1>1, <1>3, <1>4 DEF Quiet
<1>6. /\ \A l \in job'[t].libs : Loaded(l)'
      /\ \A l : l # "forcebindip" => Acted(t, l)' = Acted(t, l)
      /\ Grows(n)
    BY <1>0, <1>1, <1>2, <1>3, LibraryActs
<1>7. \A d : DestOk(d) => DestOk(d)'
    BY <1>1, EnvStays
<1>8. JobOk(t)'
    <2>1. (IsSocket(job[t].fd))' /\ fd'[job'[t].fd] = n
        BY <1>0, <1>1, <1>2, <1>4 DEF IsSocket
    <2>2. sock'[n].inet = sock[n].inet /\ sock'[n].peer = sock[n].peer
        BY <1>2, <1>3, <1>6 DEF Grows, Keep
    <2>3. BoundOk(sock'[n]) = BoundOk(sock[n])'
        BY DEF BoundOk
    <2>4. ConnectOk(t)'
        BY <1>0, <1>1, <1>2, <1>3, <1>4, <1>6, <1>7, <2>1, <2>2
           DEF ConnectOk, BoundOk
    <2> QED BY <1>4, <1>6, <2>4 DEF JobOk
<1> QED BY <1>5, <1>8, QuietStep

\* A port is a number of 16 bits.
LEMMA PortTyped ==
    \A n \in Nat : Port(n) \in PortNumbers
BY DEF Port, PortNumbers

\* The address that connredir.so gives to connect is one that it may be.
LEMMA NewDestOk ==
    ASSUME SocketInv, NEW d \in Dest, Loaded("connredir")
    PROVE  /\ NewDest(d) \in Dest /\ NewDest(d).inet = d.inet
           /\ Breaks(d) /\ ~ net.errno => DestOk(d)
           /\ ~ Breaks(d) /\ (Matches(d) => net.tofd = Closed) =>
                 DestOk(NewDest(d))
<1>1. /\ net.toport \in Nat /\ net.toip \in STRING
      /\ net.tofd \in Fds \cup {Closed}
    BY NetTyped DEF SocketInv
<1>2. Port(net.toport) \in PortNumbers
    BY <1>1, PortTyped, Zenon
<1>3. d.inet \in BOOLEAN /\ d.port \in PortNumbers
    <2>1. d \in Dest
        OBVIOUS
    <2>2. d.inet \in BOOLEAN
        BY <2>1, Zenon DEF Dest
    <2>3. d.port \in PortNumbers
        BY <2>1, Zenon DEF Dest
    <2> QED BY <2>2, <2>3, Zenon
<1>4. ASSUME Breaks(d), ~ net.errno
      PROVE  DestOk(d)
    <2>1. ASSUME Matches(d)
          PROVE  Unreplaced
        <3>1. IF net.tofd # Closed THEN fd[net.tofd] = Closed
                                   ELSE net.toip = "bad"
            BY <1>4, <2>1 DEF Breaks, Matches, IsIp
        <3>2. net.tofd # Closed /\ fd[net.tofd] = Closed => Reused
            BY NumbersApart DEF SocketInv, Tables, Reused
        <3> QED BY <1>4, <3>1, <3>2 DEF Unreplaced, Broken
    <2> QED BY <1>4, <2>1 DEF DestOk
<1>5. CASE Matches(d) /\ net.tofd = Closed /\ IsIp(net.toip)
    <2> DEFINE p == IF Port(net.toport) = 0 THEN d.port ELSE Port(net.toport)
    <2>1. p \in PortNumbers /\ Port(net.toport) \in {0, p}
        BY <1>2, <1>3, Zenon
    <2>2. PICK e : e = [inet |-> TRUE, ip |-> net.toip, port |-> p]
        OBVIOUS
    <2>3. e = NewDest(d)
        BY <1>5, <2>2, Zenon DEF NewDest
    <2>4. e.inet = TRUE /\ e.ip = net.toip /\ e.port = p
        BY <2>2
    <2> HIDE DEF p
    <2>5. e \in Dest
        <3>1. net.toip \in STRING \cup {""} /\ TRUE \in BOOLEAN
            BY <1>1
        <3> QED BY <2>1, <2>2, <3>1, Zenon DEF Dest
    <2>6. Sent(e) /\ d.inet
        BY <1>5, <2>1, <2>4 DEF Sent, Matches
    <2>7. ~ Breaks(d) => DestOk(e)
        BY <2>6 DEF DestOk, Breaks
    <2> QED BY <1>4, <1>5, <2>3, <2>4, <2>5, <2>6, <2>7 DEF Matches
<1>6. CASE ~ (Matches(d) /\ net.tofd = Closed /\ IsIp(net.toip))
    <2>1. NewDest(d) = d
        BY <1>6, Zenon DEF NewDest
    <2>2. ASSUME ~ Breaks(d), Matches(d) => net.tofd = Closed
          PROVE  DestOk(d)
        <3>1. Matches(d) => net.toip = "unset" /\ net.tofd = Closed
            BY <1>6, <2>2 DEF Breaks, IsIp, Matches
        <3>2. d.inet => net.orig # "bad"
            BY <2>2 DEF Breaks
        <3> QED BY <3>1, <3>2 DEF DestOk, Unreplaced
    <2> QED BY <1>4, <2>1, <2>2
<1> QED BY <1>5, <1>6

\* A library that has ended the call, or has left it to the others.
LEMMA ConnRedirContinues ==
    ASSUME SocketInv, NEW t \in Sockers, job[t].op = "connect",
           "connredir" \in job[t].libs, NEW d \in Dest, DestOk(d),
           d.inet = job[t].dest.inet,
           UNCHANGED <<net, fd, sock, told, given, name>>,
           job' = [job EXCEPT ![t].dest = d, ![t].libs = @ \ {"connredir"}]
    PROVE  SocketInv'
<1>1. PICK r : r = [job[t] EXCEPT !.dest = d, !.libs = @ \ {"connredir"}]
    OBVIOUS
<1>2. job[t] \in JobRecord /\ JobOk(t)
    BY DEF SocketInv, SocketTypes
<1>3. job[t].libs \ {"connredir"} \in SUBSET Libraries /\ d \in Dest
    BY <1>2 DEF JobRecord
<1>4. r \in JobRecord
    BY <1>1, <1>2, <1>3, Zenon DEF JobRecord
<1>5. /\ r.op = job[t].op /\ r.fd = job[t].fd /\ r.dest = d
      /\ r.libs = job[t].libs \ {"connredir"}
    BY <1>1, <1>2, Zenon DEF JobRecord
<1>6. job' = [job EXCEPT ![t] = r]
    BY <1>1, Zenon
<1>7. JobIs(t, r)
    BY <1>4, <1>6, JobMoves DEF SocketInv
<1>8. Quiet(t) /\ job'[t] = r
    BY <1>5, <1>7, NothingGets DEF Quiet, SocketInv, JobIs
<1>9. /\ \A l : Loaded(l)' = Loaded(l)
      /\ \A e : DestOk(e) => DestOk(e)'
    BY EnvStays
<1>10. JobOk(t)'
    <2>1. \A l : l # "connredir" => Acted(t, l)' = Acted(t, l)
        BY <1>5, <1>8, <1>9 DEF Acted
    <2>2. ConnectOk(t)
        BY <1>2 DEF JobOk
    <2>3. ConnectOk(t)'
        BY <1>5, <1>8, <1>9, <2>1, <2>2 DEF ConnectOk, IsSocket, BoundOk
    <2> QED BY <1>2, <1>5, <1>8, <1>9, <2>3 DEF JobOk
<1> QED BY <1>8, <1>10, QuietStep

\* The file of CONNREDIR_TO_FD takes the place of the socket.
LEMMA ConnRedirReplaces ==
    ASSUME SocketInv, NEW t \in Sockers, job[t].op = "connect",
           Loaded("connredir"), net.tofd # Closed, fd[net.tofd] # Closed,
           fd' = [fd EXCEPT ![job[t].fd] = fd[net.tofd]], Done(t, TRUE),
           UNCHANGED <<net, sock, told, given, name>>
    PROVE  SocketInv'
<1>0. PICK x : x = job[t].fd
    OBVIOUS
<1>1. x \in Fds /\ net.tofd \in Fds /\ fd[x] # Closed
    BY <1>0, NetTyped, NumbersApart
       DEF SocketInv, JobOk, ConnectOk, IsSocket
<1>2. /\ JobIs(t, job'[t])
      /\ job'[t].op = "done" /\ job'[t].libs = {} /\ job'[t].fd = x
    BY <1>0, DoneMoves DEF SocketInv
<1>3. /\ fd' \in [Fds -> {Closed, Given} \cup 1..MaxSocks]
      /\ fd'[x] = fd[net.tofd]
      /\ \A y \in Fds : y # x => fd'[y] = fd[y]
    BY <1>0, <1>1 DEF SocketInv, SocketTypes
<1>4. \A u \in Sockers \ {t} : job[u].fd \in Fds => job[u].fd # x
    BY <1>0, <1>1, NumbersApart DEF SocketInv, Tables
<1>5. Keep
    BY NothingGets DEF SocketInv
<1>6. Beside(t)
    BY <1>2, <1>3, <1>4, <1>5 DEF Beside, Keep, JobIs
<1>7. SocketTypes'
    BY <1>2, <1>3 DEF SocketInv, SocketTypes, JobIs
<1>8. fd[net.tofd] = Given \/ Reused
    BY DEF SocketInv, Tables, Reused
<1>9. Tables'
    <2>1. \A u \in Sockers : /\ job'[u].fd = job[u].fd
                             /\ job[u].fd \in Fds \cup {Closed}
        BY <1>0, <1>2 DEF JobIs, SocketInv, SocketTypes, JobRecord
    <2>2. \A y \in Fds : fd'[y] = fd[y] \/ fd'[y] = fd[net.tofd]
        BY <1>3
    <2>3. \A y \in Fds : fd[y] # Closed => fd'[y] # Closed
        BY <2>2
    <2>4. \A y \in Fds : fd'[y] \in 1..MaxSocks => sock'[fd'[y]].used
        BY <1>1, <2>2 DEF SocketInv, Tables
    <2>5. given' => net'.tofd # Closed /\ fd'[net'.tofd] = Given
        BY <1>1, <2>2 DEF SocketInv, Tables
    <2>6. \A y \in told' : fd'[y] # Closed
        BY <2>3 DEF SocketInv, SocketTypes, Tables
    <2>7. \A u \in Sockers : job'[u].fd # Closed => fd'[job'[u].fd] # Closed
        BY <2>1, <2>3 DEF SocketInv, Tables
    <2>8. \A u, v \in Sockers : job'[u].fd = job'[v].fd /\ job'[u].fd # Closed
                => u = v
        BY <2>1 DEF SocketInv, Tables
    <2> QED BY <2>4, <2>5, <2>6, <2>7, <2>8 DEF Tables
<1>10. \A l : Loaded(l)' = Loaded(l)
    BY DEF Loaded
<1>11. Reused => Reused'
    BY EnvStays
<1>12. JobOk(t)'
    BY <1>1, <1>2, <1>3, <1>8, <1>11 DEF JobOk, DoneOk
<1>13. \A n \in 1..MaxSocks : PeerOk(n)'
    BY <1>5, PeersStay
<1>14. \A y \in told' : ToldOk(y)'
    <2>1. ASSUME NEW y \in told, y # x
          PROVE  ToldOk(y)'
        BY <1>3, <1>6, <2>1, ReturnedStays DEF SocketInv, SocketTypes
    <2>2. ToldOk(x)'
        BY <1>3, <1>8, <1>11, NumbersApart DEF ToldOk, IsSocket
    <2> QED BY <2>1, <2>2
<1> QED BY <1>6, <1>7, <1>9, <1>12, <1>13, <1>14, StepOk

\* connredir.so ends the call with an error or with another file, leaves the
\* address as it is, or gives another one to the next library.
LEMMA ConnRedirKeeps ==
    ASSUME SocketInv, NEW t \in Sockers, ConnRedir(t)
    PROVE  SocketInv'
<1>0. PICK d : d = job[t].dest
    OBVIOUS
<1>1. /\ UNCHANGED <<net, sock, told, given, name>>
      /\ job[t].op = "connect" /\ "connredir" \in job[t].libs
    BY DEF ConnRedir, At
<1>2. /\ d \in Dest /\ Loaded("connredir") /\ JobOk(t)
      /\ job[t] \in JobRecord
    BY <1>0, <1>1 DEF SocketInv, SocketTypes, JobRecord, JobOk
<1>3. CASE Done(t, FALSE) /\ UNCHANGED fd
    <2>1. /\ JobIs(t, job'[t])
          /\ job'[t].op = "done" /\ job'[t].ok = FALSE /\ job'[t].libs = {}
          /\ job'[t].fd = job[t].fd
        BY <1>3, DoneMoves DEF SocketInv
    <2>2. Quiet(t)
        BY <1>1, <1>3, <2>1, NothingGets DEF Quiet, SocketInv
    <2>3. job[t].fd \in Fds
        BY <1>1, <1>2 DEF JobOk, ConnectOk, IsSocket
    <2>4. JobOk(t)'
        BY <2>1, <2>3 DEF JobOk, DoneOk
    <2> QED BY <2>2, <2>4, QuietStep
<1>4. CASE /\ Matches(d) /\ net.tofd # Closed /\ ~ Breaks(d)
           /\ fd' = [fd EXCEPT ![job[t].fd] = fd[net.tofd]]
           /\ Done(t, TRUE)
    <2>1. fd[net.tofd] # Closed
        BY <1>4 DEF Breaks, Matches
    <2> QED BY <1>1, <1>2, <1>4, <2>1, ConnRedirReplaces
<1>5. CASE /\ Breaks(d) /\ ~ net.errno
           /\ Continue(t, "connredir") /\ UNCHANGED fd
    <2>1. job' = [job EXCEPT ![t].dest = d, ![t].libs = @ \ {"connredir"}]
        <3>1. [job[t] EXCEPT !.libs = @ \ {"connredir"}] =
                  [job[t] EXCEPT !.dest = d, !.libs = @ \ {"connredir"}]
            BY <1>0, <1>2, Zenon DEF JobRecord
        <3> QED BY <1>5, <3>1, Zenon DEF Continue
    <2>2. DestOk(d)
        BY <1>2, <1>5, NewDestOk
    <2> QED BY <1>0, <1>1, <1>2, <1>5, <2>1, <2>2, ConnRedirContinues
<1>6. CASE /\ ~ Breaks(d) /\ (Matches(d) => net.tofd = Closed)
           /\ job' = [job EXCEPT ![t].dest = NewDest(d),
                                 ![t].libs = @ \ {"connredir"}]
           /\ UNCHANGED fd
    <2>1. PICK e : e = NewDest(d)
        OBVIOUS
    <2>2. e \in Dest /\ e.inet = d.inet /\ DestOk(e)
        BY <1>2, <1>6, <2>1, NewDestOk
    <2>3. job' = [job EXCEPT ![t].dest = e, ![t].libs = @ \ {"connredir"}]
        BY <1>6, <2>1, Zenon
    <2> QED BY <1>0, <1>1, <1>6, <2>2, <2>3, ConnRedirContinues
<1> QED BY <1>0, <1>3, <1>4, <1>5, <1>6, Zenon DEF ConnRedir

\* The socket is connected to the address that the last library has left, or
\* connect fails.
LEMMA KernelConnectKeeps ==
    ASSUME SocketInv, NEW t \in Sockers, KernelConnect(t)
    PROVE  SocketInv'
<1>0. PICK x, n, d : x = job[t].fd /\ n = fd[x] /\ d = job[t].dest
    OBVIOUS
<1>1. /\ UNCHANGED <<net, fd, told, given, name>>
      /\ job[t].op = "connect" /\ job[t].libs = {}
    BY DEF KernelConnect, Kernel
<1>2. /\ ConnectOk(t) /\ IsSocket(x) /\ n \in 1..MaxSocks /\ x \in Fds
      /\ d \in Dest /\ sock[n].inet = d.inet /\ sock[n].used
    BY <1>0, <1>1 DEF SocketInv, SocketTypes, JobRecord, JobOk, ConnectOk,
                      IsSocket, Tables
<1>3. CASE Done(t, FALSE) /\ UNCHANGED sock
    <2>1. /\ JobIs(t, job'[t])
          /\ job'[t].op = "done" /\ job'[t].ok = FALSE /\ job'[t].libs = {}
          /\ job'[t].fd = job[t].fd
        BY <1>3, DoneMoves DEF SocketInv
    <2>2. Quiet(t)
        BY <1>1, <1>3, <2>1, NothingGets DEF Quiet, SocketInv
    <2>3. JobOk(t)'
        BY <1>0, <1>2, <2>1 DEF JobOk, DoneOk
    <2> QED BY <2>2, <2>3, QuietStep
<1>4. ASSUME sock[n].peer = NoDest, sock' = [sock EXCEPT ![n].peer = d],
             NEW ok \in BOOLEAN, Done(t, ok)
      PROVE  SocketInv'
    <2>1. /\ JobIs(t, job'[t])
          /\ job'[t].op = "done" /\ job'[t].libs = {}
          /\ job'[t].fd = x /\ job'[t].dest = d
        BY <1>0, <1>4, DoneMoves DEF SocketInv
    <2>2. /\ sock' \in [1..MaxSocks -> SocketRecord] /\ sock'[n].used
          /\ sock'[n].peer = d /\ sock'[n].inet = sock[n].inet
          /\ sock'[n].local = sock[n].local /\ sock'[n].dev = sock[n].dev
          /\ sock'[n].mode = sock[n].mode /\ sock'[n].failed = sock[n].failed
          /\ \A m \in 1..MaxSocks : m # n => sock'[m] = sock[m]
        <3>1. PICK r : r = [sock[n] EXCEPT !.peer = d]
            OBVIOUS
        <3>2. sock[n] \in SocketRecord
            BY <1>2 DEF SocketInv, SocketTypes
        <3>3. r \in SocketRecord
            BY <1>2, <3>1, <3>2, Zenon DEF SocketRecord
        <3>4. /\ r.used = sock[n].used /\ r.inet = sock[n].inet
              /\ r.peer = d /\ r.local = sock[n].local
              /\ r.dev = sock[n].dev /\ r.mode = sock[n].mode
              /\ r.failed = sock[n].failed
            BY <3>1, <3>2, Zenon DEF SocketRecord
        <3>5. sock' = [sock EXCEPT ![n] = r]
            BY <1>4, <3>1, Zenon
        <3> QED BY <1>2, <3>3, <3>4, <3>5 DEF SocketInv, SocketTypes
    <2>3. \A m \in 1..MaxSocks : sock[m].used => Grows(m)
        BY <1>4, <2>2 DEF Grows
    <2>4. Beside(t)
        BY <1>1, <2>1, <2>3 DEF Beside, JobIs
    <2>5. SocketTypes'
        BY <1>1, <2>1, <2>2 DEF SocketInv, SocketTypes, JobIs
    <2>6. Tables'
        <3>1. \A u \in Sockers : job'[u].fd = job[u].fd
            BY <1>0, <2>1 DEF JobIs
        <3>2. \A y \in Fds : fd[y] \in 1..MaxSocks => sock'[fd[y]].used
            BY <2>3 DEF SocketInv, Tables, Grows
        <3> QED BY <1>1, <3>1, <3>2 DEF SocketInv, Tables
    <2>7. JobOk(t)'
        <3>1. d # NoDest => IsSocket(x)' /\ sock'[fd'[x]].peer # NoDest
            BY <1>0, <1>1, <1>2, <2>2 DEF IsSocket
        <3> QED BY <1>2, <2>1, <3>1 DEF JobOk, DoneOk, IsSocket
    <2>8. ASSUME NEW m \in 1..MaxSocks
          PROVE  PeerOk(m)'
        <3>1. /\ \A l : Loaded(l)' = Loaded(l)
              /\ \A e : DestOk(e) => DestOk(e)'
            BY <1>1, EnvStays
        <3>2. \A l : Loaded(l) => Acted(t, l)
            BY <1>1 DEF Acted
        <3>3. CASE m = n
            <4>1. /\ Loaded("connredir") => DestOk(d)
                  /\ Loaded("forcebindip") /\ net.source = "good" /\ d.inet =>
                        BoundOk(sock[n])
                BY <1>0, <1>2, <1>4, <3>2 DEF ConnectOk
            <4> QED BY <1>1, <2>2, <3>1, <3>3, <4>1 DEF PeerOk, BoundOk
        <3>4. CASE m # n
            BY <1>1, <2>2, <3>1, <3>4 DEF SocketInv, PeerOk, BoundOk
        <3> QED BY <3>3, <3>4
    <2>9. \A y \in told' : ToldOk(y)'
        BY <1>1, <2>4, ReturnedStays
    <2> QED BY <2>4, <2>5, <2>6, <2>7, <2>8, <2>9, StepOk
<1>5. \A ok \in {TRUE, ~ May("connect")} : ok \in BOOLEAN
    BY DEF May
<1> QED BY <1>0, <1>3, <1>4, <1>5 DEF KernelConnect

-----------------------------------------------------------------------------
(* The program *)

\* A call is over.
LEMMA ReturnsKeeps ==
    ASSUME SocketInv, NEW t \in Sockers, Returns(t)
    PROVE  SocketInv'
<1>1. /\ UNCHANGED <<net, fd, sock, told, given, name>>
      /\ job' = [job EXCEPT ![t] = Idle]
    BY DEF Returns
<1>2. JobIs(t, Idle)
    BY <1>1, RecordsTyped, JobMoves DEF SocketInv
<1>3. Quiet(t) /\ job'[t] = Idle
    BY <1>1, <1>2, RecordsTyped, NothingGets DEF Quiet, SocketInv, JobIs
<1>4. JobOk(t)'
    BY <1>3, RecordsTyped DEF JobOk
<1> QED BY <1>3, <1>4, QuietStep

\* The program closes a descriptor that no thread is calling with.
LEMMA CloseKeeps ==
    ASSUME SocketInv, NEW t \in Sockers, Close(t)
    PROVE  SocketInv'
<1>1. PICK x \in Fds :
          /\ Free(x)
          /\ fd' = [fd EXCEPT ![x] = Closed]
          /\ told' = told \ {x}
          /\ given' = (given /\ x # net.tofd)
    BY DEF Close
<1>2. UNCHANGED <<net, sock, job, name>> /\ job[t].op = "none"
    BY DEF Close
<1>3. /\ fd' \in [Fds -> {Closed, Given} \cup 1..MaxSocks]
      /\ fd'[x] = Closed /\ \A y \in Fds : y # x => fd'[y] = fd[y]
    BY <1>1 DEF SocketInv, SocketTypes
<1>4. \A u \in Sockers : job[u].fd # x
    BY <1>1 DEF Free
<1>5. given' => given
    BY <1>1
<1>6. Keep
    BY <1>2, NothingGets DEF SocketInv
<1>7. Beside(t)
    BY <1>2, <1>3, <1>4, <1>5, <1>6 DEF Beside, Keep
<1>8. SocketTypes'
    BY <1>1, <1>2, <1>3 DEF SocketInv, SocketTypes
<1>9. Tables'
    <2>1. \A y \in Fds : fd'[y] \in 1..MaxSocks => sock'[fd'[y]].used
        BY <1>2, <1>3, NumbersApart DEF SocketInv, Tables
    <2>2. \A u \in Sockers : job'[u].fd # Closed => fd'[job'[u].fd] # Closed
        <3>1. \A u \in Sockers : job[u].fd \in Fds \cup {Closed}
            BY DEF SocketInv, SocketTypes, JobRecord
        <3> QED BY <1>2, <1>3, <1>4, <3>1 DEF SocketInv, Tables
    <2>3. \A y \in told' : fd'[y] # Closed
        BY <1>1, <1>3 DEF SocketInv, SocketTypes, Tables
    <2>4. given' => net'.tofd # Closed /\ fd'[net'.tofd] = Given
        BY <1>1, <1>2, <1>3, NetTyped DEF SocketInv, Tables
    <2>5. \A u, v \in Sockers : job'[u].fd = job'[v].fd /\ job'[u].fd # Closed
                => u = v
        BY <1>2 DEF SocketInv, Tables
    <2> QED BY <2>1, <2>2, <2>3, <2>4, <2>5 DEF Tables
<1>10. \A l : Loaded(l)' = Loaded(l)
    BY <1>2 DEF Loaded
<1>11. JobOk(t)'
    BY <1>2, <1>10 DEF SocketInv, JobOk
<1>12. \A n \in 1..MaxSocks : PeerOk(n)'
    BY <1>2, <1>5, <1>6, PeersStay
<1>13. \A y \in told' : ToldOk(y)'
    BY <1>1, <1>3, <1>7, ReturnedStays DEF SocketInv, SocketTypes
<1> QED BY <1>7, <1>8, <1>9, <1>11, <1>12, <1>13, StepOk

-----------------------------------------------------------------------------
(* The invariant and what follows from it *)

LEMMA SocketsInitInv == SocketsInit => SocketInv
<1> SUFFICES ASSUME SocketsInit PROVE SocketInv
    OBVIOUS
<1>1. net \in Net /\ net \in Nets
    BY SocketCallsAssumption DEF SocketsInit
<1>2. /\ \A x \in Fds : fd[x] = IF x = net.tofd THEN Given ELSE Closed
      /\ fd \in [Fds -> {Closed, Given} \cup 1..MaxSocks]
    BY DEF SocketsInit
<1>3. /\ \A n \in 1..MaxSocks : sock[n] = Unused
      /\ sock \in [1..MaxSocks -> SocketRecord]
    BY RecordsTyped DEF SocketsInit
<1>4. /\ \A t \in Sockers : job[t] = Idle
      /\ job \in [Sockers -> JobRecord]
    BY RecordsTyped DEF SocketsInit
<1>5. told = {} /\ given = (net.tofd # Closed) /\ name = Closed
    BY DEF SocketsInit
<1>6. net.tofd \in Fds \cup {Closed}
    BY <1>1, Zenon DEF Net
<1>7. SocketTypes
    BY <1>1, <1>2, <1>3, <1>4, <1>5 DEF SocketTypes
<1>8. Tables
    BY <1>2, <1>4, <1>5, <1>6, RecordsTyped, NumbersApart DEF Tables
<1>9. ASSUME NEW t \in Sockers
      PROVE  JobOk(t)
    BY <1>4, RecordsTyped DEF JobOk
<1>10. ASSUME NEW n \in 1..MaxSocks
       PROVE  PeerOk(n)
    BY <1>3, RecordsTyped DEF PeerOk, DestOk, Matches
<1> QED BY <1>5, <1>7, <1>8, <1>9, <1>10 DEF SocketInv

LEMMA SocketInvInductive ==
    SocketInv /\ (SocketsNext \/ UNCHANGED socketVars) => SocketInv'
<1> SUFFICES ASSUME SocketInv, SocketsNext \/ UNCHANGED socketVars
             PROVE  SocketInv'
    OBVIOUS
<1>1. CASE UNCHANGED socketVars
    <2>1. UNCHANGED <<net, fd, sock, job, told, given, name>>
        BY <1>1 DEF socketVars
    <2>2. /\ \A l : Loaded(l)' = Loaded(l)
          /\ Reused => Reused'
          /\ \A d : DestOk(d) => DestOk(d)'
        BY <2>1, EnvStays
    <2>3. SocketTypes' /\ Tables'
        BY <2>1 DEF SocketInv, SocketTypes, Tables
    <2>4. ASSUME NEW t \in Sockers
          PROVE  JobOk(t)'
        <3>1. \A l : Acted(t, l)' = Acted(t, l)
            BY <2>1, <2>2 DEF Acted
        <3>2. JobOk(t)
            BY DEF SocketInv
        <3>3. SocketOk(t) => SocketOk(t)'
            BY <2>1, <3>1 DEF SocketOk, IsSocket
        <3>4. BindOk(t) => BindOk(t)'
            BY <2>1, <3>1 DEF BindOk, ModeOk, IsSocket
        <3>5. ConnectOk(t) => ConnectOk(t)'
            BY <2>1, <2>2, <3>1 DEF ConnectOk, BoundOk, IsSocket
        <3>6. DoneOk(t) => DoneOk(t)'
            BY <2>1, <2>2 DEF DoneOk, IsSocket
        <3> QED BY <2>1, <2>2, <3>2, <3>3, <3>4, <3>5, <3>6 DEF JobOk
    <2>5. ASSUME NEW n \in 1..MaxSocks
          PROVE  PeerOk(n)'
        BY <2>1, <2>2 DEF SocketInv, PeerOk, BoundOk
    <2>6. ASSUME NEW x \in told
          PROVE  ToldOk(x)'
        BY <2>1, <2>2 DEF SocketInv, ToldOk, IsSocket
    <2> QED BY <2>1, <2>3, <2>4, <2>5, <2>6 DEF SocketInv
<1>2. ASSUME NEW t \in Sockers,
             Socket(t) \/ SocketFails(t) \/ IpDscp(t) \/ ForceBindIface(t)
                \/ SocketReturns(t) \/ Bind(t) \/ BindFails(t) \/ Chmod(t)
                \/ BindReturns(t)
      PROVE  SocketInv'
    BY <1>2, SocketKeeps, SocketFailsKeeps, IpDscpKeeps, ForceBindIfaceKeeps,
       SocketReturnsKeeps, BindKeeps, BindFailsKeeps, ChmodKeeps, BindReturnsKeeps
<1>3. ASSUME NEW t \in Sockers,
             Connect(t) \/ ForceBindIp(t) \/ ConnRedir(t) \/ KernelConnect(t)
                \/ Returns(t) \/ Close(t)
      PROVE  SocketInv'
    BY <1>3, ConnectKeeps, ForceBindIpKeeps, ConnRedirKeeps, KernelConnectKeeps,
       ReturnsKeeps, CloseKeeps
<1> QED BY <1>1, <1>2, <1>3, TakesNameKeeps DEF SocketsNext

\* In all that the program and its libraries do.
LEMMA SocketInvHolds == Spec => []SocketInv
<1>1. Init => SocketInv
    BY SocketsInitInv DEF Init
<1>2. SocketInv /\ [Next]_vars => SocketInv'
    BY SocketInvInductive DEF Next, vars
<1> QED BY <1>1, <1>2, PTL DEF Spec

\* The state of the socket calls has its types.
THEOREM SocketsTypeCorrect == Spec => []SocketsTypeOK
<1>1. ASSUME SocketTypes
      PROVE  SocketsTypeOK
    <2>1. ASSUME NEW n \in 1..MaxSocks
          PROVE  /\ sock[n].local \in {"any", "own", "forced"}
                 /\ sock[n].failed \subseteq {"bind", "chmod"}
        <3>1. sock[n] \in SocketRecord
            BY <1>1 DEF SocketTypes
        <3> QED BY <3>1, Zenon DEF SocketRecord
    <2>2. ASSUME NEW t \in Sockers
          PROVE  job[t].op \in Ops /\ job[t].fd \in Fds \cup {Closed}
        <3>1. job[t] \in JobRecord
            BY <1>1 DEF SocketTypes
        <3> QED BY <3>1, Zenon DEF JobRecord
    <2> QED BY <1>1, <2>1, <2>2 DEF SocketTypes, SocketsTypeOK, Ops
<1>2. SocketInv => SocketTypes
    BY DEF SocketInv
<1> QED BY <1>1, <1>2, SocketInvHolds, PTL

\* Whatever the order of LD_PRELOAD, whatever fails and whoever closes: under
\* connredir.so no socket is connected to an address that is to be replaced,
\* and connect does not tell of a connection that there is not.
THEOREM RedirectedCorrect == Spec => []Redirected
<1>1. ASSUME SocketInv
      PROVE  Redirected
    <2>1. ASSUME NEW n \in 1..MaxSocks, Loaded("connredir")
          PROVE  DestOk(sock[n].peer)
        BY <1>1, <2>1 DEF SocketInv, PeerOk
    <2>2. ASSUME NEW t \in Sockers, job[t].op = "done"
          PROVE  DoneOk(t)
        BY <1>1, <2>2 DEF SocketInv, JobOk
    <2> QED BY <2>1, <2>2 DEF Redirected, DestOk, DoneOk
<1> QED BY <1>1, SocketInvHolds, PTL

\* Whatever the order of LD_PRELOAD, whatever fails and is tried again: sockets
\* are connected from BIND_ADDRESS, returned with BIND_INTERFACE, and bound to
\* a path with its mode.
THEOREM ConfiguredCorrect == Spec => []AsConfigured
<1>1. ASSUME SocketInv
      PROVE  AsConfigured
    <2>1. ASSUME NEW n \in 1..MaxSocks, Loaded("forcebindip"),
                 net.source = "good", sock[n].peer.inet
          PROVE  sock[n].local # "any" \/ "bind" \in sock[n].failed
        BY <1>1, <2>1 DEF SocketInv, PeerOk, BoundOk
    <2>2. ASSUME NEW x \in told, Loaded("forcebindiface"), net.iface,
                 IsSocket(x)
          PROVE  sock[fd[x]].dev \/ Reused
        BY <1>1, <2>2 DEF SocketInv, ToldOk
    <2>3. ASSUME NEW t \in Sockers, Loaded("uds_chmod"), net.mode = "good",
                 Kernel(t, "bind"), ~ sock[fd[job[t].fd]].inet
          PROVE  ModeOk(sock[fd[job[t].fd]])
        <3>1. BindOk(t) /\ Acted(t, "uds_chmod")
            BY <1>1, <2>3 DEF SocketInv, JobOk, Kernel, Acted
        <3> QED BY <2>3, <3>1 DEF BindOk
    <2> QED BY <2>1, <2>2, <2>3 DEF AsConfigured, ModeOk
<1> QED BY <1>1, SocketInvHolds, PTL
=============================================================================
