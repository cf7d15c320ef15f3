--------------------------- MODULE AutosslProofs ---------------------------
(***************************************************************************)
(* Proofs about autossl.so, for any number of threads, helpers and         *)
(* descriptors, any environment and whatever fails: each redirected socket *)
(* is connected to the helper that was started for it, a socket that was   *)
(* not redirected is the caller's own, a helper program has no descriptor  *)
(* of another call, and no failure makes a listed connection go out in     *)
(* plain.                                                                  *)
(***************************************************************************)
EXTENDS Autossl, LeastProofs, FiniteSetTheorems, TLAPS

\* Where a task has its own socket, a pair of sockets, or a helper.
HasSocket == {"open", "socketpair", "fork", "close", "dup2", "stdlib", "plain"}
HasPair == {"fork", "close", "dup2", "upgraded"}
HasHelper == {"close", "dup2", "upgraded"}
NoPairYet == Starting \cup {"unborn", "open", "socketpair"}

ThreadStates == {"idle", "open", "exited"} \cup Connecting \cup Ended
HelperStates == Starting \cup {"unborn", "open", "ended"} \cup Connecting
                    \cup Ended

Types ==
    /\ TypeOK
    /\ \A t \in Threads : pc[t] \in ThreadStates
    /\ \A h \in Helpers : pc[h] \in HelperStates

\* A pair of sockets has a number of its own.
PairsApart ==
    /\ \A t \in Tasks : pair[t] <= made
    /\ \A t, u \in Tasks : pair[t] = pair[u] /\ pair[t] # 0 => t = u
    /\ \A t \in Tasks : pc[t] \in HasPair => pair[t] # 0
    /\ \A h \in Helpers : pc[h] \in NoPairYet => pair[h] = 0

\* The helper of a pair is forked once, by the task that has made the pair.
ForkedOnce ==
    /\ \A h \in Helpers : h > made => pc[h] = "unborn"
    /\ \A t \in Tasks : pc[t] = "fork" => pc[pair[t]] = "unborn"
    /\ \A t \in Tasks : pc[t] \in HasHelper => pc[pair[t]] # "unborn"

\* Every descriptor that a task remembers is the one it was given, and the
\* helper's end of the pair is on its way to its standard input and output.
SocketInPlace(t) ==
    /\ pc[t] \in HasSocket => fds[Proc(t)][sock[t]] = Tcp(t)
    /\ t \in Threads /\ pc[t] = "failed" => fds[Proc(t)][sock[t]] = Tcp(t)
    /\ pc[t] = "upgraded" => fds[Proc(t)][sock[t]] = End(pair[t], 0)
PairInPlace(t) ==
    /\ pc[t] \in {"fork", "close", "dup2"} =>
          fds[Proc(t)][end[t][1]] = End(pair[t], 0)
    /\ pc[t] \in {"fork", "close"} =>
          fds[Proc(t)][end[t][2]] = End(pair[t], 1)
    /\ pc[t] = "forked" => fds[Proc(t)][end[t][2]] = End(t, 1)
    /\ pc[t] = "wired" =>
          fds[Proc(t)][0] = End(t, 1) /\ fds[Proc(t)][1] = End(t, 1)
InPlace == \A t \in Tasks : SocketInPlace(t) /\ PairInPlace(t)

\* Standard error stays what it was, and so a helper that has closed all but
\* its first three descriptors has nothing of anybody else.
StderrKept ==
    /\ \A t \in Threads : pc[t] # "exited" => fds[Client][2] = Std
    /\ \A h \in Helpers : pc[h] \notin {"unborn", "ended"} => fds[h][2] = Std
Mine(h) == {Closed, Std, Tcp(h), End(h, 1), End(pair[h], 0), End(pair[h], 1)}
OnlyMine ==
    \A h \in Helpers, fd \in Fds :
        pc[h] \notin {"forked", "wired"} => fds[h][fd] \in Mine(h)
Isolated == 2 \in Stdio => StderrKept /\ OnlyMine

\* A helper connects for the address that its caller has given.
AddressOf(t) ==
    pc[t] \in HasHelper =>
        LET h == pair[t]
            tls == TlsPort(env, dest[t].port)
        IN  pc[h] # "ended" =>
                /\ dest[h].ip = dest[t].ip
                /\ dest[h].port = IF tls = 0 \/ pc[h] \in Starting \ {"socket"}
                                  THEN dest[t].port ELSE tls
SameAddress == \A t \in Tasks : AddressOf(t)

\* What is going out in plain, or has, is not listed.
Unlisted(t) ==
    env.cmd /\ env.errno /\ pc[t] \in {"stdlib", "plain"} =>
        ~(Proc(t) \in upgrade /\ Listed(dest[t]))
PlainUnlisted == \A t \in Tasks : Unlisted(t)

IInv == /\ Types /\ PairsApart /\ ForkedOnce /\ InPlace /\ Isolated
        /\ SameAddress /\ PlainUnlisted

-----------------------------------------------------------------------------
(* What the states are made of *)

\* Descriptors that refer to different things are different values.
LEMMA FilesApart ==
    /\ \A t, u : Tcp(t) = Tcp(u) => t = u
    /\ \A n, m, i, j : End(n, i) = End(m, j) => n = m /\ i = j
    /\ \A t, n, i : Tcp(t) # End(n, i)
    /\ \A t : Tcp(t) # Closed /\ Tcp(t) # Std
    /\ \A n, i : End(n, i) # Closed /\ End(n, i) # Std
    /\ Closed # Std
<1>1. \A t, u : Tcp(t) = Tcp(u) => t = u
    BY DEF Tcp
<1>2. \A n, m, i, j : End(n, i) = End(m, j) => n = m /\ i = j
    BY DEF End
<1>3. \A t, n, i : Tcp(t).kind = "tcp" /\ End(n, i).kind = "end"
    BY DEF Tcp, End
<1>4. Closed.kind = "closed" /\ Std.kind = "std"
    BY DEF Closed, Std
<1> QED BY <1>1, <1>2, <1>3, <1>4

\* Every such value is one that a descriptor may have.
LEMMA FilesTyped ==
    /\ Closed \in File /\ Std \in File
    /\ \A t \in Tasks : Tcp(t) \in File
    /\ \A n \in Helpers : End(n, 0) \in File /\ End(n, 1) \in File
BY DEF File

\* A task runs in a process, the threads in the client and each helper in its
\* own.
LEMMA TasksApart ==
    /\ Tasks = Threads \cup Helpers /\ Procs = {Client} \cup Helpers
    /\ \A t \in Threads : Proc(t) = Client
    /\ \A h \in Helpers : h # Client /\ h \notin Threads /\ Proc(h) = h
    /\ \A t \in Tasks : Proc(t) \in Procs
BY AutosslAssumption DEF Tasks, Procs, Proc, Client, Helpers

\* Two tasks of one process are threads of the client.
LEMMA SameProcess ==
    ASSUME NEW t \in Tasks, NEW u \in Tasks, Proc(t) = Proc(u), t # u
    PROVE  t \in Threads /\ u \in Threads
BY TasksApart

\* Processes have room for their standard descriptors.
LEMMA Numbers ==
    /\ Helpers = 1..MaxPairs /\ MaxPairs \in Nat
    /\ 0 \in Fds /\ 1 \in Fds /\ 2 \in Fds /\ Fds \subseteq Nat
BY AutosslAssumption DEF Helpers, Fds

\* The address of a socket that is not there is one.
LEMMA NowhereTyped == Nowhere \in Destination
<1>1. 0 \in Ports /\ "" \in STRING \cup {""} /\ FALSE \in BOOLEAN
    BY AutosslAssumption
<1> QED BY <1>1, Zenon DEF Nowhere, Destination

\* The lowest free descriptor of a process is one of its own that is free.
LEMMA LowestIsFree ==
    ASSUME NEW p, FreeFds(p) # {}
    PROVE  Lowest(p) \in Fds /\ fds[p][Lowest(p)] = Closed
<1>1. FreeFds(p) \in SUBSET Nat
    BY Numbers DEF FreeFds
<1>2. Lowest(p) \in FreeFds(p)
    BY <1>1, MinIsLeast DEF Lowest
<1> QED BY <1>2 DEF FreeFds

\* A descriptor of one process changes, and nothing else that is open.
LEMMA SetFdChanges ==
    ASSUME Types, NEW p \in Procs, NEW g \in Fds, NEW f \in File,
           SetFd(p, g, f)
    PROVE  /\ fds' \in [Procs -> [Fds -> File]]
           /\ fds'[p][g] = f
           /\ \A k \in Fds : k # g => fds'[p][k] = fds[p][k]
           /\ \A q \in Procs : q # p => fds'[q] = fds[q]
<1>1. fds \in [Procs -> [Fds -> File]]
    BY DEF Types, TypeOK
<1>2. fds' = [fds EXCEPT ![p][g] = f]
    BY DEF SetFd
<1> QED BY <1>1, <1>2

\* One task goes on, to a state that such tasks have.
LEMMA GotoChanges ==
    ASSUME Types, NEW t \in Tasks, NEW label, Goto(t, label),
           t \in Threads => label \in ThreadStates,
           t \in Helpers => label \in HelperStates
    PROVE  /\ pc' \in [Tasks -> Connecting \cup Ended \cup Starting \cup Gone
                                   \cup {"idle", "open"}]
           /\ \A u \in Threads : pc'[u] \in ThreadStates
           /\ \A h \in Helpers : pc'[h] \in HelperStates
           /\ pc'[t] = label
           /\ \A u \in Tasks : u # t => pc'[u] = pc[u]
<1>1. pc \in [Tasks -> Connecting \cup Ended \cup Starting \cup Gone
                          \cup {"idle", "open"}]
    BY DEF Types, TypeOK
<1>2. pc' = [pc EXCEPT ![t] = label]
    BY DEF Goto
<1>3. label \in Connecting \cup Ended \cup Starting \cup Gone
                   \cup {"idle", "open"}
    BY TasksApart DEF ThreadStates, HelperStates, Gone
<1> QED BY <1>1, <1>2, <1>3, TasksApart DEF Types

\* A task with a pair has the number of a helper.
LEMMA PairsHaveHelpers ==
    ASSUME IInv, NEW t \in Tasks
    PROVE  /\ made \in Nat /\ pair[t] \in Nat /\ pair[t] <= made
           /\ pc[t] \in HasPair \/ pair[t] # 0 =>
                 pair[t] \in Helpers /\ pair[t] \notin Threads
<1>1. pair[t] \in 0..MaxPairs /\ made \in 0..MaxPairs
    BY DEF IInv, Types, TypeOK
<1>2. pc[t] \in HasPair => pair[t] # 0
    BY DEF IInv, PairsApart
<1>3. pair[t] # 0 => pair[t] \in Helpers
    BY <1>1, Numbers
<1> QED BY <1>1, <1>2, <1>3, Numbers, TasksApart DEF IInv, PairsApart

-----------------------------------------------------------------------------
(* What a step of one task leaves alone *)

\* The values that only task t may have on its descriptors, or that are free.
OwnFiles(t) == {Closed, Tcp(t), End(pair[t], 0), End(pair[t], 1)}

\* A task that writes over its own files leaves the others' where they are.
LEMMA OthersInPlace ==
    ASSUME IInv, NEW t \in Tasks, NEW u \in Tasks, u # t,
           \A k \in Fds :
              \/ fds'[Proc(u)][k] = fds[Proc(u)][k]
              \/ Proc(u) = Proc(t) /\ fds[Proc(t)][k] \in OwnFiles(t),
           pc'[u] = pc[u], sock'[u] = sock[u], pair'[u] = pair[u],
           end'[u] = end[u]
    PROVE  SocketInPlace(u)' /\ PairInPlace(u)'
<1>1. SocketInPlace(u) /\ PairInPlace(u)
    BY DEF IInv, InPlace
<1>2. sock[u] \in Fds /\ end[u][1] \in Fds /\ end[u][2] \in Fds
    BY DEF IInv, Types, TypeOK
<1>3. CASE Proc(u) # Proc(t)
    BY <1>1, <1>2, <1>3, Numbers DEF SocketInPlace, PairInPlace, Proc
<1>4. CASE Proc(u) = Proc(t)
    <2>1. u \in Threads
        BY <1>4, SameProcess
    <2>2. pc[u] \notin {"forked", "wired"}
        BY <2>1 DEF IInv, Types, ThreadStates, Connecting, Ended
    <2>3. ASSUME NEW k \in Fds,
                 \/ fds[Proc(u)][k] = Tcp(u)
                 \/ /\ pc[u] \in HasPair
                    /\ \E i \in {0, 1} : fds[Proc(u)][k] = End(pair[u], i)
          PROVE  fds'[Proc(u)][k] = fds[Proc(u)][k]
        <3>1. fds[Proc(u)][k] # Tcp(t) /\ fds[Proc(u)][k] # Closed
            BY <2>3, FilesApart
        <3>2. pc[u] \in HasPair => pair[u] # pair[t]
            BY DEF IInv, PairsApart
        <3>3. \A i \in {0, 1} : fds[Proc(u)][k] # End(pair[t], i)
            BY <2>3, <3>2, FilesApart
        <3> QED BY <1>4, <3>1, <3>3 DEF OwnFiles
    <2>4. SocketInPlace(u)'
        BY <1>1, <1>2, <2>3 DEF SocketInPlace, HasPair, Proc
    <2>5. PairInPlace(u)'
        BY <1>1, <1>2, <2>2, <2>3 DEF PairInPlace, HasPair, Proc
    <2> QED BY <2>4, <2>5
<1> QED BY <1>3, <1>4

\* A helper keeps its caller's address unless it ends, and is not forked again.
LEMMA AddressKept ==
    ASSUME IInv, NEW u \in Tasks, env' = env, pc'[u] \in HasHelper,
           pc[u] \in HasHelper, pair'[u] = pair[u], dest'[u] = dest[u],
           \/ pc'[pair[u]] = "ended"
           \/ /\ pc[pair[u]] # "ended"
              /\ dest'[pair[u]] = dest[pair[u]]
              /\ pc'[pair[u]] \in Starting \ {"socket"} <=>
                    pc[pair[u]] \in Starting \ {"socket"}
    PROVE  AddressOf(u)'
BY DEF IInv, SameAddress, AddressOf

\* A connection is as it was when it was let out, and no process is upgraded
\* that was not.
LEMMA UnlistedKept ==
    ASSUME IInv, NEW u \in Tasks, env' = env, dest'[u] = dest[u],
           pc'[u] \in {"stdlib", "plain"} =>
              pc[u] \in {"stdlib", "plain"} \/ ~env.errno,
           Proc(u) \in upgrade' => Proc(u) \in upgrade
    PROVE  Unlisted(u)'
BY DEF IInv, PlainUnlisted, Unlisted, Listed, Proc

\* No pair has number 0.
LEMMA NoEndOfZero ==
    ASSUME Types, NEW p \in Procs, NEW k \in Fds
    PROVE  fds[p][k] # End(0, 0) /\ fds[p][k] # End(0, 1)
<1>1. fds[p][k] \in File
    BY DEF Types, TypeOK
<1>2. 0 \notin Helpers
    BY Numbers
<1> QED BY <1>1, <1>2, FilesApart DEF File

\* A helper has nothing of another call as long as it writes over its own files
\* with its own, and standard error is not among them.
LEMMA IsolationKept ==
    ASSUME IInv, NEW t \in Tasks,
           \A k \in Fds :
              \/ fds'[Proc(t)][k] = fds[Proc(t)][k]
              \/ /\ fds[Proc(t)][k] \in OwnFiles(t)
                 /\ fds'[Proc(t)][k] \in OwnFiles(t)',
           \A p \in Procs : p # Proc(t) => fds'[p] = fds[p],
           \A u \in Tasks : u # t => pc'[u] = pc[u] /\ pair'[u] = pair[u],
           t \in Helpers => pair'[t] = pair[t] \/ pair[t] = 0,
           pc[t] \notin {"unborn", "ended", "exited", "forked", "wired"}
    PROVE  Isolated'
<1> SUFFICES ASSUME 2 \in Stdio
             PROVE  StderrKept' /\ OnlyMine'
    BY DEF Isolated
<1>1. StderrKept /\ OnlyMine
    BY DEF IInv, Isolated
<1>2. fds[Proc(t)][2] = Std
    BY <1>1, TasksApart DEF StderrKept
<1>3. fds'[Proc(t)][2] = Std
    BY <1>2, FilesApart, Numbers DEF OwnFiles
<1>4. StderrKept'
    BY <1>1, <1>3, TasksApart DEF StderrKept
<1>5. ASSUME NEW h \in Helpers, NEW fd \in Fds,
             pc'[h] \notin {"forked", "wired"}
      PROVE  fds'[h][fd] \in Mine(h)'
    <2>1. CASE h # t
        <3>1. h # Proc(t)
            BY <2>1, TasksApart
        <3> QED BY <1>1, <1>5, <2>1, <3>1, TasksApart DEF OnlyMine, Mine
    <2>2. CASE h = t
        <3>1. fds[h][fd] \in Mine(h)
            BY <1>1, <2>2 DEF OnlyMine
        <3>2. fds[h][fd] # End(0, 0) /\ fds[h][fd] # End(0, 1)
            BY NoEndOfZero, TasksApart DEF IInv
        <3>3. CASE fds'[h][fd] = fds[h][fd]
            BY <2>2, <3>1, <3>2, <3>3 DEF Mine
        <3>4. CASE fds'[h][fd] \in OwnFiles(h)'
            BY <3>4 DEF Mine, OwnFiles
        <3> QED BY <2>2, <3>3, <3>4, TasksApart
    <2> QED BY <2>1, <2>2
<1>6. OnlyMine'
    BY <1>5 DEF OnlyMine
<1> QED BY <1>4, <1>6

\* A step of one task, other than those that make a pair of sockets or a
\* helper.  What it must not do to its own call comes with each such step.
OneTask(t) ==
    /\ UNCHANGED <<env, pair, made>>
    /\ upgrade' \subseteq upgrade
    /\ \A u \in Tasks : u # t => /\ pc'[u] = pc[u] /\ sock'[u] = sock[u]
                                 /\ dest'[u] = dest[u] /\ end'[u] = end[u]
    /\ \A p \in Procs : p # Proc(t) => fds'[p] = fds[p]
    /\ t \in Threads =>
          \A k \in Fds : \/ fds'[Proc(t)][k] = fds[Proc(t)][k]
                         \/ fds[Proc(t)][k] \in OwnFiles(t)
    /\ pc[t] # "unborn" /\ pc'[t] \notin {"unborn", "fork"}
    /\ pc'[t] \in HasPair => pc[t] \in HasPair
    /\ pc'[t] \in HasHelper => pc[t] \in HasHelper
    /\ t \in Helpers /\ pc'[t] \in NoPairYet => pc[t] \in NoPairYet
LEMMA OneTaskStep ==
    ASSUME IInv, NEW t \in Tasks, OneTask(t),
           Types', SocketInPlace(t)', PairInPlace(t)', Isolated',
           AddressOf(t)', Unlisted(t)',
           \A u \in Tasks : u # t /\ pc[u] \in HasHelper /\ pair[u] = t =>
              AddressOf(u)'
    PROVE  IInv'
<1> USE DEF OneTask
<1>1. PairsApart'
    BY DEF IInv, PairsApart, Tasks
<1>2. \A u \in Tasks : pc[u] \in HasPair => pair[u] \in Helpers
    BY PairsHaveHelpers
<1>3. ForkedOnce'
    <2>1. \A h \in Helpers : h > made' => pc'[h] = "unborn"
        BY DEF IInv, ForkedOnce, Tasks
    <2>2. \A u \in Tasks : pc'[u] = "fork" => pc'[pair'[u]] = "unborn"
        BY <1>2 DEF IInv, ForkedOnce, HasPair, Tasks
    <2>3. \A u \in Tasks : pc'[u] \in HasHelper => pc'[pair'[u]] # "unborn"
        BY <1>2 DEF IInv, ForkedOnce, HasPair, HasHelper, Tasks
    <2> QED BY <2>1, <2>2, <2>3 DEF ForkedOnce
<1>4. InPlace'
    <2>1. ASSUME NEW u \in Tasks, u # t
          PROVE  SocketInPlace(u)' /\ PairInPlace(u)'
        <3>1. \A k \in Fds :
                 \/ fds'[Proc(u)][k] = fds[Proc(u)][k]
                 \/ Proc(u) = Proc(t) /\ fds[Proc(t)][k] \in OwnFiles(t)
            BY <2>1, SameProcess, TasksApart
        <3> QED BY <2>1, <3>1, OthersInPlace
    <2> QED BY <2>1 DEF InPlace
<1>5. SameAddress'
    <2>1. ASSUME NEW u \in Tasks, u # t
          PROVE  AddressOf(u)'
        <3>1. CASE pc[u] \notin HasHelper
            BY <2>1, <3>1 DEF AddressOf
        <3>2. CASE pc[u] \in HasHelper /\ pair[u] = t
            BY <2>1, <3>2
        <3>3. CASE pc[u] \in HasHelper /\ pair[u] # t
            <4>1. pair[u] \in Tasks
                BY <1>2, <3>3 DEF HasPair, HasHelper, Tasks
            <4>2. pc'[pair[u]] = pc[pair[u]] /\ dest'[pair[u]] = dest[pair[u]]
                BY <3>3, <4>1
            <4> QED BY <2>1, <3>3, <4>2, AddressKept
        <3> QED BY <3>1, <3>2, <3>3
    <2> QED BY <2>1 DEF SameAddress
<1>6. PlainUnlisted'
    <2>1. \A u \in Tasks : u # t => Unlisted(u)'
        BY UnlistedKept
    <2> QED BY <2>1 DEF PlainUnlisted
<1> QED BY <1>1, <1>3, <1>4, <1>5, <1>6 DEF IInv

-----------------------------------------------------------------------------
(* The steps *)

\* The invariant holds before the first call.
LEMMA InitInvariant == Init => IInv
<1> SUFFICES ASSUME Init PROVE IInv
    OBVIOUS
<1>1. \A t \in Tasks : pc[t] = IF t \in Threads THEN "idle" ELSE "unborn"
    BY DEF Init
<1>2. Types
    <2>1. fds \in [Procs -> [Fds -> File]]
        BY FilesTyped DEF Init, NoFds
    <2>2. pc \in [Tasks -> Connecting \cup Ended \cup Starting \cup Gone
                               \cup {"idle", "open"}]
        BY DEF Init, Gone
    <2>3. Nowhere \in Destination
        BY NowhereTyped
    <2>4. dest \in [Tasks -> Destination]
        BY <2>3 DEF Init
    <2>5. /\ sock \in [Tasks -> Fds] /\ pair \in [Tasks -> 0..MaxPairs]
          /\ end \in [Tasks -> Fds \X Fds] /\ made \in 0..MaxPairs
        BY Numbers DEF Init
    <2>6. env \in Envs /\ upgrade \subseteq Procs
        BY TasksApart DEF Init
    <2>7. TypeOK
        BY <2>1, <2>2, <2>4, <2>5, <2>6 DEF TypeOK
    <2> QED BY <1>1, <2>7, TasksApart DEF Types, ThreadStates, HelperStates
<1>3. PairsApart
    BY <1>1, TasksApart DEF Init, PairsApart, HasPair
<1>4. ForkedOnce
    BY <1>1, TasksApart DEF Init, ForkedOnce, HasHelper
<1>5. InPlace
    BY <1>1, TasksApart DEF InPlace, SocketInPlace, PairInPlace, HasSocket
<1>6. Isolated
    <2>1. \A h \in Helpers, fd \in Fds : fds[h][fd] = Closed
        BY TasksApart DEF Init, NoFds
    <2>2. 2 \in Stdio => fds[Client][2] = Std
        BY TasksApart, Numbers DEF Init
    <2> QED BY <1>1, <2>1, <2>2, TasksApart
            DEF Isolated, StderrKept, OnlyMine, Mine
<1>7. SameAddress
    BY <1>1, TasksApart DEF SameAddress, AddressOf, HasHelper
<1>8. PlainUnlisted
    BY <1>1, TasksApart DEF PlainUnlisted, Unlisted
<1> QED BY <1>2, <1>3, <1>4, <1>5, <1>6, <1>7, <1>8 DEF IInv

\* A system call fails, or is libc's own connect: nothing changes but where the
\* task is.
LEMMA QuietStep ==
    ASSUME IInv, NEW t \in Tasks, NEW label, Goto(t, label),
           UNCHANGED <<env, upgrade, fds, sock, dest, pair, end, made>>,
           \/ pc[t] = "stdlib" /\ label \in {"plain", "failed"}
           \/ /\ pc[t] \in {"socketpair", "fork"}
              /\ label = "failed" \/ (label = "stdlib" /\ ~env.errno)
           \/ t \in Helpers /\ pc[t] = "socket" /\ label = "failed"
    PROVE  IInv'
<1>1. /\ label \in {"stdlib", "plain", "failed"}
      /\ pc[t] \in {"stdlib", "socketpair", "fork", "socket"}
      /\ label \in {"plain", "stdlib"} =>
            pc[t] \in {"stdlib", "plain"} \/ ~env.errno
      /\ t \in Threads => pc[t] # "socket"
    BY TasksApart
<1>2. /\ t \in Threads => label \in ThreadStates
      /\ t \in Helpers => label \in HelperStates
    BY <1>1 DEF ThreadStates, HelperStates, Connecting, Ended
<1>3. /\ pc' \in [Tasks -> Connecting \cup Ended \cup Starting \cup Gone
                               \cup {"idle", "open"}]
      /\ \A u \in Threads : pc'[u] \in ThreadStates
      /\ \A h \in Helpers : pc'[h] \in HelperStates
      /\ pc'[t] = label
      /\ \A u \in Tasks : u # t => pc'[u] = pc[u]
    BY <1>2, GotoChanges DEF IInv
<1>4. Types'
    BY <1>3 DEF IInv, Types, TypeOK
<1>5. OneTask(t)
    BY <1>1, <1>3 DEF OneTask, HasPair, HasHelper, NoPairYet, Starting
<1>6. SocketInPlace(t)'
    BY <1>1, <1>3 DEF IInv, InPlace, SocketInPlace, HasSocket, Proc
<1>7. PairInPlace(t)'
    BY <1>1, <1>3 DEF PairInPlace
<1>8. Isolated'
    BY <1>1, <1>3, IsolationKept
<1>9. Unlisted(t)'
    BY <1>1, <1>3, UnlistedKept
<1>10. AddressOf(t)'
    BY <1>1, <1>3 DEF AddressOf, HasHelper
<1>11. ASSUME NEW u \in Tasks, u # t, pc[u] \in HasHelper, pair[u] = t
       PROVE  AddressOf(u)'
    BY <1>1, <1>3, <1>11, AddressKept DEF Starting
<1> QED BY <1>4, <1>5, <1>6, <1>7, <1>8, <1>9, <1>10, <1>11, OneTaskStep

\* A task has a socket where its process had nothing open.
LEMMA OpenStep ==
    ASSUME IInv, NEW t \in Tasks, Open(t)
    PROVE  IInv'
<1> DEFINE p == Proc(t)
           fd == Lowest(p)
<1>1. CASE FreeFds(p) = {}
    <2>1. /\ t \in Helpers /\ pc[t] = "socket" /\ Goto(t, "failed")
          /\ UNCHANGED <<env, upgrade, fds, sock, dest, pair, end, made>>
        BY <1>1, TasksApart DEF IInv, Types, Open, HelperStates, Starting,
                                Connecting, Ended
    <2> QED BY <2>1, QuietStep
<1>2. CASE FreeFds(p) # {}
    <2>1. /\ pc[t] \in {"idle", "socket"} /\ Goto(t, "open")
          /\ sock' = [sock EXCEPT ![t] = fd] /\ SetFd(p, fd, Tcp(t))
          /\ UNCHANGED <<env, upgrade, dest, pair, end, made>>
        BY <1>2 DEF Open
    <2>2. fd \in Fds /\ fds[p][fd] = Closed /\ p \in Procs
        BY <1>2, LowestIsFree, TasksApart
    <2> HIDE DEF fd
    <2>3. /\ fds' \in [Procs -> [Fds -> File]]
          /\ fds'[p][fd] = Tcp(t)
          /\ \A k \in Fds : k # fd => fds'[p][k] = fds[p][k]
          /\ \A q \in Procs : q # p => fds'[q] = fds[q]
        BY <2>1, <2>2, SetFdChanges, FilesTyped DEF IInv
    <2>4. /\ pc' \in [Tasks -> Connecting \cup Ended \cup Starting \cup Gone
                                   \cup {"idle", "open"}]
          /\ \A u \in Threads : pc'[u] \in ThreadStates
          /\ \A h \in Helpers : pc'[h] \in HelperStates
          /\ pc'[t] = "open"
          /\ \A u \in Tasks : u # t => pc'[u] = pc[u]
        BY <2>1, GotoChanges DEF IInv, ThreadStates, HelperStates
    <2>5. /\ sock' \in [Tasks -> Fds] /\ sock'[t] = fd
          /\ \A u \in Tasks : u # t => sock'[u] = sock[u]
        BY <2>1, <2>2 DEF IInv, Types, TypeOK
    <2>6. Types'
        BY <2>1, <2>3, <2>4, <2>5 DEF IInv, Types, TypeOK
    <2>7. t \in Helpers => pc[t] = "socket"
        BY <2>1 DEF IInv, Types, HelperStates, Starting, Connecting, Ended
    <2>8. OneTask(t)
        BY <2>1, <2>2, <2>3, <2>4, <2>5, <2>7
           DEF OneTask, HasPair, HasHelper, NoPairYet, OwnFiles, Starting
    <2>9. SocketInPlace(t)' /\ PairInPlace(t)'
        BY <2>3, <2>4, <2>5 DEF SocketInPlace, PairInPlace, HasSocket, Proc
    <2>10. Isolated'
        <3>1. fds[p][fd] \in OwnFiles(t) /\ fds'[p][fd] \in OwnFiles(t)'
            BY <2>2, <2>3 DEF OwnFiles
        <3>2. \A k \in Fds :
                 \/ fds'[Proc(t)][k] = fds[Proc(t)][k]
                 \/ /\ fds[Proc(t)][k] \in OwnFiles(t)
                    /\ fds'[Proc(t)][k] \in OwnFiles(t)'
            BY <2>3, <3>1
        <3> QED BY <2>1, <2>3, <2>4, <3>2, IsolationKept
    <2>11. AddressOf(t)' /\ Unlisted(t)'
        BY <2>4 DEF AddressOf, Unlisted, HasHelper
    <2>12. ASSUME NEW u \in Tasks, u # t, pc[u] \in HasHelper, pair[u] = t
           PROVE  AddressOf(u)'
        BY <2>1, <2>4, <2>12, AddressKept DEF Starting
    <2> QED BY <2>6, <2>8, <2>9, <2>10, <2>11, <2>12, OneTaskStep
<1> QED BY <1>1, <1>2

\* A scan tells of every word that cannot be parsed or that matches.
LEMMA ScanIsNone ==
    ASSUME NEW bad, NEW matching
    PROVE  /\ Scan(bad, matching) \in {"none", "error", "match"}
           /\ Scan(bad, matching) = "none" <=> bad \cup matching = {}
<1>1. CASE bad \cup matching = {}
    BY <1>1 DEF Scan
<1>2. CASE bad \cup matching # {}
    BY <1>2 DEF Scan
<1> QED BY <1>1, <1>2

\* autossl.c:133: where an error number is set, a connection that is listed is
\* not let out by the decision that connect takes first.
LEMMA DecisionUpgradesListed ==
    ASSUME NEW q, NEW d \in Destination
    PROVE  LET l == Decision(env, q \in upgrade, d)
           IN  /\ l \in {"stdlib", "failed", "socketpair"}
               /\ env.cmd /\ env.errno /\ q \in upgrade /\ Listed(d)
                     => l # "stdlib"
<1> DEFINE up == q \in upgrade
           p == ScanPorts(env, d.port)
           i == ScanIps(env, d.ip)
<1>1. p \in {"none", "error", "match"} /\ i \in {"none", "error", "match"}
    BY ScanIsNone DEF ScanPorts, ScanIps
<1>2. d.inet \in BOOLEAN /\ d.port \in Ports
    BY DEF Destination
<1>3. Listed(d) => d.inet /\ p # "none" /\ i # "none"
    <2> SUFFICES ASSUME Listed(d) PROVE d.inet /\ p # "none" /\ i # "none"
        OBVIOUS
    <2>1. PICK k \in DOMAIN env.ports : env.ports[k] = d.port
        BY DEF Listed
    <2>2. InPort(d.port) = d.port
        BY <1>2, AutosslAssumption DEF InPort, Ports
    <2>3. k \in {j \in DOMAIN env.ports : InPort(env.ports[j]) = d.port}
        BY <2>1, <2>2
    <2>4. p # "none"
        BY <2>3, ScanIsNone DEF ScanPorts
    <2>5. i # "none"
        <3>1. CASE env.anyip
            BY <3>1 DEF ScanIps
        <3>2. CASE ~env.anyip
            <4>1. PICK m \in DOMAIN env.ips : env.ips[m] = d.ip
                BY <3>2 DEF Listed
            <4>2. {j \in DOMAIN env.ips : env.ips[j] = d.ip} # {}
                BY <4>1
            <4> QED BY <3>2, <4>2, ScanIsNone DEF ScanIps
        <3> QED BY <3>1, <3>2
    <2> QED BY <2>4, <2>5 DEF Listed
<1> HIDE DEF p, i
<1>4. Decision(env, up, d) =
         CASE ~d.inet \/ ~up \/ p = "none" -> "stdlib"
           [] d.inet /\ up /\ p = "error"  -> ErrorCase(env)
           [] OTHER -> CASE i = "none"  -> "stdlib"
                         [] i = "error" -> ErrorCase(env)
                         [] i = "match" -> IF env.cmd THEN "socketpair"
                                           ELSE "stdlib"
    BY DEF Decision, p, i
<1>5. /\ ErrorCase(env) \in {"failed", "stdlib"}
      /\ env.errno => ErrorCase(env) = "failed"
    BY DEF ErrorCase
<1>6. CASE ~d.inet \/ ~up \/ p = "none"
    <2>1. Decision(env, up, d) = "stdlib"
        BY <1>2, <1>4, <1>6
    <2> QED BY <1>3, <1>6, <2>1
<1>7. CASE d.inet /\ up /\ p = "error"
    <2>1. Decision(env, up, d) = ErrorCase(env)
        BY <1>4, <1>7
    <2> QED BY <1>5, <2>1
<1>8. CASE d.inet /\ up /\ p = "match"
    <2>1. Decision(env, up, d) =
             CASE i = "none"  -> "stdlib"
               [] i = "error" -> ErrorCase(env)
               [] i = "match" -> IF env.cmd THEN "socketpair" ELSE "stdlib"
        BY <1>4, <1>8
    <2>2. CASE i = "none"
        BY <1>3, <2>1, <2>2
    <2>3. CASE i = "error"
        BY <1>5, <2>1, <2>3
    <2>4. CASE i = "match"
        BY <2>1, <2>4
    <2> QED BY <1>1, <2>2, <2>3, <2>4
<1> QED BY <1>1, <1>6, <1>7, <1>8

\* A call is let out only when its address is not to be upgraded.
LEMMA ConnectStep ==
    ASSUME IInv, NEW t \in Tasks, Connect(t)
    PROVE  IInv'
<1> DEFINE up == Proc(t) \in upgrade
<1>1. PICK d \in IF t \in Threads THEN Dests ELSE {dest[t]} :
         /\ pc[t] = "open" /\ dest' = [dest EXCEPT ![t] = d]
         /\ Goto(t, Decision(env, up, d))
         /\ UNCHANGED <<env, upgrade, fds, sock, pair, end, made>>
    BY DEF Connect
<1>2. d \in Destination
    BY AutosslAssumption DEF IInv, Types, TypeOK
<1> DEFINE l == Decision(env, up, d)
<1>3. /\ l \in {"stdlib", "failed", "socketpair"}
      /\ env.cmd /\ env.errno /\ up /\ Listed(d) => l # "stdlib"
    BY <1>2, DecisionUpgradesListed, Zenon
<1> HIDE DEF l
<1>4. /\ pc' \in [Tasks -> Connecting \cup Ended \cup Starting \cup Gone
                               \cup {"idle", "open"}]
      /\ \A u \in Threads : pc'[u] \in ThreadStates
      /\ \A h \in Helpers : pc'[h] \in HelperStates
      /\ pc'[t] = l
      /\ \A u \in Tasks : u # t => pc'[u] = pc[u]
    <2>1. l \in ThreadStates /\ l \in HelperStates
        BY <1>3 DEF ThreadStates, HelperStates, Connecting, Ended
    <2>2. Goto(t, l)
        BY <1>1 DEF l
    <2> QED BY <2>1, <2>2, GotoChanges DEF IInv
<1>5. /\ dest' \in [Tasks -> Destination] /\ dest'[t] = d
      /\ \A u \in Tasks : u # t => dest'[u] = dest[u]
      /\ t \in Helpers => dest'[t] = dest[t]
    BY <1>1, <1>2, TasksApart DEF IInv, Types, TypeOK
<1>6. Types'
    BY <1>1, <1>4, <1>5 DEF IInv, Types, TypeOK
<1>7. OneTask(t)
    BY <1>1, <1>3, <1>4, <1>5 DEF OneTask, HasPair, HasHelper, NoPairYet
<1>8. SocketInPlace(t)' /\ PairInPlace(t)'
    BY <1>1, <1>3, <1>4
       DEF IInv, InPlace, SocketInPlace, PairInPlace, HasSocket, Proc
<1>9. Isolated'
    BY <1>1, <1>4, IsolationKept
<1>10. AddressOf(t)'
    BY <1>3, <1>4 DEF AddressOf, HasHelper
<1>11. Unlisted(t)'
    BY <1>1, <1>3, <1>4, <1>5 DEF Unlisted, Listed, Proc
<1>12. ASSUME NEW u \in Tasks, u # t, pc[u] \in HasHelper, pair[u] = t
       PROVE  AddressOf(u)'
    <2>1. pair[u] \in Helpers
        BY <1>12, PairsHaveHelpers DEF HasHelper, HasPair
    <2> QED BY <1>1, <1>3, <1>4, <1>5, <1>12, <2>1, AddressKept DEF Starting
<1> QED BY <1>6, <1>7, <1>8, <1>9, <1>10, <1>11, <1>12, OneTaskStep

\* A call that has a helper changes a descriptor of its own.
LEMMA OwnFdStep ==
    ASSUME IInv, NEW t \in Tasks, NEW g \in Fds, NEW f \in File, NEW label,
           pc[t] \in {"close", "dup2"},
           \/ label \in {"dup2", "upgraded", "failed"}
           \/ label = "stdlib" /\ ~env.errno,
           fds[Proc(t)][g] \in OwnFiles(t), f \in OwnFiles(t),
           SetFd(Proc(t), g, f), Goto(t, label),
           UNCHANGED <<env, upgrade, sock, dest, pair, end, made>>,
           SocketInPlace(t)', PairInPlace(t)'
    PROVE  IInv'
<1>1. /\ fds' \in [Procs -> [Fds -> File]]
      /\ fds'[Proc(t)][g] = f
      /\ \A k \in Fds : k # g => fds'[Proc(t)][k] = fds[Proc(t)][k]
      /\ \A q \in Procs : q # Proc(t) => fds'[q] = fds[q]
    BY SetFdChanges, TasksApart DEF IInv
<1>2. /\ pc' \in [Tasks -> Connecting \cup Ended \cup Starting \cup Gone
                               \cup {"idle", "open"}]
      /\ \A u \in Threads : pc'[u] \in ThreadStates
      /\ \A h \in Helpers : pc'[h] \in HelperStates
      /\ pc'[t] = label
      /\ \A u \in Tasks : u # t => pc'[u] = pc[u]
    <2>1. label \in ThreadStates /\ label \in HelperStates
        BY DEF ThreadStates, HelperStates, Connecting, Ended
    <2> QED BY <2>1, GotoChanges DEF IInv
<1>3. Types'
    BY <1>1, <1>2 DEF IInv, Types, TypeOK
<1>4. OneTask(t)
    BY <1>1, <1>2 DEF OneTask, HasPair, HasHelper, NoPairYet, Starting
<1>5. Isolated'
    <2>1. \A k \in Fds :
             \/ fds'[Proc(t)][k] = fds[Proc(t)][k]
             \/ /\ fds[Proc(t)][k] \in OwnFiles(t)
                /\ fds'[Proc(t)][k] \in OwnFiles(t)'
        BY <1>1 DEF OwnFiles
    <2> QED BY <1>1, <1>2, <2>1, IsolationKept
<1>6. Unlisted(t)'
    BY <1>2 DEF Unlisted
<1>7. ASSUME NEW u \in Tasks, pc[u] \in HasHelper, pc'[u] \in HasHelper,
             pair[u] = t \/ u = t
      PROVE  AddressOf(u)'
    <2>1. pair[u] \in Tasks
        BY <1>7, PairsHaveHelpers, TasksApart DEF HasHelper, HasPair
    <2>2. CASE pair[u] = t
        BY <1>2, <1>7, <2>2, AddressKept DEF Starting
    <2>3. CASE pair[u] # t
        <3>1. pc'[pair[u]] = pc[pair[u]]
            BY <1>2, <2>1, <2>3
        <3> QED BY <1>7, <3>1, AddressKept
    <2> QED BY <2>2, <2>3
<1>8. AddressOf(t)'
    <2>1. CASE label \in HasHelper
        BY <1>2, <1>7, <2>1 DEF HasHelper
    <2>2. CASE label \notin HasHelper
        BY <1>2, <2>2 DEF AddressOf
    <2> QED BY <2>1, <2>2
<1>9. \A u \in Tasks : u # t /\ pc[u] \in HasHelper /\ pair[u] = t =>
         AddressOf(u)'
    BY <1>2, <1>7
<1> QED BY <1>3, <1>4, <1>5, <1>6, <1>8, <1>9, OneTaskStep

\* The caller's process closes the helper's end of the pair.
LEMMA CloseEndStep ==
    ASSUME IInv, NEW t \in Tasks, CloseEnd(t)
    PROVE  IInv'
<1> DEFINE g == end[t][2]
<1>1. /\ pc[t] = "close" /\ SetFd(Proc(t), g, Closed) /\ Goto(t, "dup2")
      /\ UNCHANGED <<env, upgrade, sock, dest, pair, end, made>>
    BY DEF CloseEnd
<1>2. g \in Fds /\ fds[Proc(t)][g] = End(pair[t], 1)
    BY <1>1 DEF IInv, Types, TypeOK, InPlace, PairInPlace
<1>3. /\ fds'[Proc(t)][g] = Closed
      /\ \A k \in Fds : k # g => fds'[Proc(t)][k] = fds[Proc(t)][k]
    BY <1>1, <1>2, SetFdChanges, FilesTyped, TasksApart DEF IInv
<1>4. pc'[t] = "dup2"
    BY <1>1 DEF IInv, Types, TypeOK, Goto
<1>5. /\ sock[t] \in Fds /\ fds[Proc(t)][sock[t]] = Tcp(t)
      /\ end[t][1] \in Fds /\ fds[Proc(t)][end[t][1]] = End(pair[t], 0)
    BY <1>1 DEF IInv, Types, TypeOK, InPlace, SocketInPlace, PairInPlace,
                HasSocket
<1>6. /\ fds'[Proc(t)][sock[t]] = Tcp(t)
      /\ fds'[Proc(t)][end[t][1]] = End(pair[t], 0)
    BY <1>2, <1>3, <1>5, FilesApart
<1> HIDE DEF g
<1>7. SocketInPlace(t)' /\ PairInPlace(t)'
    BY <1>1, <1>4, <1>6 DEF SocketInPlace, PairInPlace, Proc
<1> QED BY <1>1, <1>2, <1>7, OwnFdStep, FilesTyped DEF OwnFiles

\* The caller's socket becomes the task's end of its own pair.
LEMMA Dup2Step ==
    ASSUME IInv, NEW t \in Tasks, Dup2(t)
    PROVE  IInv'
<1> DEFINE g == sock[t]
           f == fds[Proc(t)][end[t][1]]
<1>1. /\ pc[t] = "dup2" /\ SetFd(Proc(t), g, f) /\ Goto(t, "upgraded")
      /\ UNCHANGED <<env, upgrade, sock, dest, pair, end, made>>
    BY DEF Dup2
<1>2. g \in Fds /\ fds[Proc(t)][g] = Tcp(t) /\ f = End(pair[t], 0)
    BY <1>1 DEF IInv, Types, TypeOK, InPlace, SocketInPlace, PairInPlace,
                HasSocket
<1>3. f \in File
    BY <1>1, <1>2, PairsHaveHelpers, FilesTyped DEF HasPair
<1> HIDE DEF g, f
<1>4. fds'[Proc(t)][g] = f
    BY <1>1, <1>2, <1>3, SetFdChanges, TasksApart DEF IInv
<1>5. pc'[t] = "upgraded"
    BY <1>1 DEF IInv, Types, TypeOK, Goto
<1>6. SocketInPlace(t)' /\ PairInPlace(t)'
    BY <1>1, <1>2, <1>4, <1>5
       DEF SocketInPlace, PairInPlace, HasSocket, Proc, g
<1> QED BY <1>1, <1>2, <1>3, <1>6, OwnFdStep DEF OwnFiles

\* The task's end is closed, and its socket is what it was.
LEMMA Dup2FailsStep ==
    ASSUME IInv, NEW t \in Tasks, Dup2Fails(t)
    PROVE  IInv'
<1> DEFINE g == end[t][1]
<1>1. /\ pc[t] = "dup2" /\ SetFd(Proc(t), g, Closed) /\ Goto(t, ErrorCase(env))
      /\ UNCHANGED <<env, upgrade, sock, dest, pair, end, made>>
    BY DEF Dup2Fails
<1>2. g \in Fds /\ fds[Proc(t)][g] = End(pair[t], 0)
    BY <1>1 DEF IInv, Types, TypeOK, InPlace, PairInPlace
<1>3. \A k \in Fds : k # g => fds'[Proc(t)][k] = fds[Proc(t)][k]
    BY <1>1, <1>2, SetFdChanges, FilesTyped, TasksApart DEF IInv
<1>4. pc'[t] = ErrorCase(env)
    BY <1>1 DEF IInv, Types, TypeOK, Goto
<1>5. ErrorCase(env) = "failed" \/ (ErrorCase(env) = "stdlib" /\ ~env.errno)
    BY DEF ErrorCase
<1>6. sock[t] \in Fds /\ fds[Proc(t)][sock[t]] = Tcp(t)
    BY <1>1 DEF IInv, Types, TypeOK, InPlace, SocketInPlace, HasSocket
<1>7. fds'[Proc(t)][sock[t]] = Tcp(t)
    BY <1>2, <1>3, <1>6, FilesApart
<1> HIDE DEF g
<1>8. SocketInPlace(t)' /\ PairInPlace(t)'
    BY <1>1, <1>4, <1>5, <1>7 DEF SocketInPlace, PairInPlace, Proc
<1> QED BY <1>1, <1>2, <1>5, <1>8, OwnFdStep, FilesTyped DEF OwnFiles

\* The variables of a task that has returned have their types again.
LEMMA ForgetChanges ==
    ASSUME Types, NEW t \in Tasks, Forget({t})
    PROVE  /\ sock' \in [Tasks -> Fds] /\ dest' \in [Tasks -> Destination]
           /\ end' \in [Tasks -> Fds \X Fds]
           /\ \A u \in Tasks : u # t =>
                 sock'[u] = sock[u] /\ dest'[u] = dest[u] /\ end'[u] = end[u]
<1>1. Nowhere \in Destination
    BY NowhereTyped
<1>2. <<0, 0>> \in Fds \X Fds
    BY Numbers
<1>3. /\ sock \in [Tasks -> Fds] /\ dest \in [Tasks -> Destination]
      /\ end \in [Tasks -> Fds \X Fds]
    BY DEF Types, TypeOK
<1>4. sock' \in [Tasks -> Fds]
    BY <1>3, Numbers DEF Forget
<1>5. dest' \in [Tasks -> Destination]
    BY <1>1, <1>3 DEF Forget
<1>6. end' \in [Tasks -> Fds \X Fds]
    BY <1>2, <1>3 DEF Forget
<1> QED BY <1>4, <1>5, <1>6 DEF Forget

\* A thread closes its socket, or the end of its own pair that is there.
LEMMA CloseStep ==
    ASSUME IInv, NEW t \in Threads, Close(t)
    PROVE  IInv'
<1> DEFINE g == sock[t]
<1>1. /\ pc[t] \in Ended /\ SetFd(Client, g, Closed) /\ Goto(t, "idle")
      /\ Forget({t}) /\ UNCHANGED <<env, upgrade, pair, made>>
    BY DEF Close
<1>2. t \in Tasks /\ Proc(t) = Client /\ t \notin Helpers /\ Client \in Procs
    BY TasksApart
<1>3. g \in Fds /\ fds[Client][g] \in OwnFiles(t)
    BY <1>1, <1>2 DEF IInv, Types, TypeOK, InPlace, SocketInPlace, HasSocket,
                      Ended, OwnFiles
<1>4. /\ fds' \in [Procs -> [Fds -> File]]
      /\ fds'[Client][g] = Closed
      /\ \A k \in Fds : k # g => fds'[Client][k] = fds[Client][k]
      /\ \A q \in Procs : q # Client => fds'[q] = fds[q]
    BY <1>1, <1>2, <1>3, SetFdChanges, FilesTyped DEF IInv
<1> HIDE DEF g
<1>5. /\ pc' \in [Tasks -> Connecting \cup Ended \cup Starting \cup Gone
                               \cup {"idle", "open"}]
      /\ \A u \in Threads : pc'[u] \in ThreadStates
      /\ \A h \in Helpers : pc'[h] \in HelperStates
      /\ pc'[t] = "idle"
      /\ \A u \in Tasks : u # t => pc'[u] = pc[u]
    BY <1>1, <1>2, GotoChanges DEF IInv, ThreadStates
<1>6. /\ sock' \in [Tasks -> Fds] /\ dest' \in [Tasks -> Destination]
      /\ end' \in [Tasks -> Fds \X Fds]
      /\ \A u \in Tasks : u # t =>
            sock'[u] = sock[u] /\ dest'[u] = dest[u] /\ end'[u] = end[u]
    BY <1>1, <1>2, ForgetChanges DEF IInv
<1>7. Types'
    BY <1>1, <1>4, <1>5, <1>6 DEF IInv, Types, TypeOK
<1>8. OneTask(t)
    BY <1>1, <1>2, <1>3, <1>4, <1>5, <1>6
       DEF OneTask, HasPair, HasHelper, Ended
<1>9. SocketInPlace(t)' /\ PairInPlace(t)'
    BY <1>5 DEF SocketInPlace, PairInPlace, HasSocket
<1>10. Isolated'
    <2>1. \A k \in Fds :
             \/ fds'[Proc(t)][k] = fds[Proc(t)][k]
             \/ /\ fds[Proc(t)][k] \in OwnFiles(t)
                /\ fds'[Proc(t)][k] \in OwnFiles(t)'
        BY <1>2, <1>3, <1>4 DEF OwnFiles
    <2> QED BY <1>1, <1>2, <1>4, <1>5, <2>1, IsolationKept DEF Ended
<1>11. AddressOf(t)' /\ Unlisted(t)'
    BY <1>5 DEF AddressOf, Unlisted, HasHelper
<1>12. \A u \in Tasks : pc[u] \in HasHelper => pair[u] # t
    BY <1>2, PairsHaveHelpers DEF HasHelper, HasPair
<1> QED BY <1>2, <1>7, <1>8, <1>9, <1>10, <1>11, <1>12, OneTaskStep

\* Standard input and output of a helper become its end of the pair.
LEMMA WireStep ==
    ASSUME IInv, NEW h \in Helpers, Wire(h)
    PROVE  IInv'
<1>1. /\ pc[h] = "forked" /\ Goto(h, "wired")
      /\ UNCHANGED <<env, upgrade, sock, dest, pair, end, made>>
    BY DEF Wire
<1>2. h \in Tasks /\ h \in Procs /\ Proc(h) = h /\ h \notin Threads
    BY TasksApart
<1>3. fds[h][end[h][2]] = End(h, 1) /\ End(h, 1) \in File
    BY <1>1, <1>2, FilesTyped DEF IInv, InPlace, PairInPlace
<1>4. /\ fds' \in [Procs -> [Fds -> File]]
      /\ fds'[h][0] = End(h, 1) /\ fds'[h][1] = End(h, 1)
      /\ fds'[h][2] = fds[h][2]
      /\ \A q \in Procs : q # h => fds'[q] = fds[q]
    <2>1. fds' = [fds EXCEPT ![h][0] = End(h, 1), ![h][1] = End(h, 1)]
        BY <1>3 DEF Wire
    <2>2. fds \in [Procs -> [Fds -> File]]
        BY DEF IInv, Types, TypeOK
    <2> QED BY <1>2, <1>3, <2>1, <2>2, Numbers
<1>5. /\ pc' \in [Tasks -> Connecting \cup Ended \cup Starting \cup Gone
                               \cup {"idle", "open"}]
      /\ \A u \in Threads : pc'[u] \in ThreadStates
      /\ \A g \in Helpers : pc'[g] \in HelperStates
      /\ pc'[h] = "wired"
      /\ \A u \in Tasks : u # h => pc'[u] = pc[u]
    BY <1>1, <1>2, GotoChanges DEF IInv, HelperStates, Starting
<1>6. Types'
    BY <1>1, <1>4, <1>5 DEF IInv, Types, TypeOK
<1>7. OneTask(h)
    BY <1>1, <1>2, <1>4, <1>5
       DEF OneTask, HasPair, HasHelper, NoPairYet, Starting
<1>8. SocketInPlace(h)' /\ PairInPlace(h)'
    BY <1>2, <1>4, <1>5 DEF SocketInPlace, PairInPlace, HasSocket, Proc
<1>9. Isolated'
    <2>1. \A q \in Procs : fds'[q][2] = fds[q][2]
        BY <1>4
    <2>2. \A g \in Helpers : g # h => fds'[g] = fds[g] /\ pc'[g] = pc[g]
        BY <1>4, <1>5, TasksApart
    <2> QED BY <1>1, <1>2, <1>5, <2>1, <2>2, TasksApart
            DEF IInv, Isolated, StderrKept, OnlyMine, Mine
<1>10. AddressOf(h)' /\ Unlisted(h)'
    BY <1>5 DEF AddressOf, Unlisted, HasHelper
<1>11. ASSUME NEW u \in Tasks, u # h, pc[u] \in HasHelper, pair[u] = h
       PROVE  AddressOf(u)'
    BY <1>1, <1>5, <1>11, AddressKept DEF Starting
<1> QED BY <1>2, <1>6, <1>7, <1>8, <1>9, <1>10, <1>11, OneTaskStep

\* closefrom(3) leaves a helper its end of the pair and standard error.
LEMMA CloseFromStep ==
    ASSUME IInv, NEW h \in Helpers, CloseFrom(h)
    PROVE  IInv'
<1>1. /\ pc[h] = "wired" /\ Goto(h, "closed")
      /\ UNCHANGED <<env, upgrade, sock, dest, pair, end, made>>
    BY DEF CloseFrom
<1>2. h \in Tasks /\ h \in Procs /\ Proc(h) = h /\ h \notin Threads
    BY TasksApart
<1>3. fds[h][0] = End(h, 1) /\ fds[h][1] = End(h, 1)
    BY <1>1, <1>2 DEF IInv, InPlace, PairInPlace
<1>4. /\ fds' \in [Procs -> [Fds -> File]]
      /\ \A k \in Fds : fds'[h][k] = IF k >= 3 THEN Closed ELSE fds[h][k]
      /\ \A q \in Procs : q # h => fds'[q] = fds[q]
    <2>1. fds \in [Procs -> [Fds -> File]]
        BY DEF IInv, Types, TypeOK
    <2> QED BY <1>2, <2>1, FilesTyped DEF CloseFrom
<1>5. /\ pc' \in [Tasks -> Connecting \cup Ended \cup Starting \cup Gone
                               \cup {"idle", "open"}]
      /\ \A u \in Threads : pc'[u] \in ThreadStates
      /\ \A g \in Helpers : pc'[g] \in HelperStates
      /\ pc'[h] = "closed"
      /\ \A u \in Tasks : u # h => pc'[u] = pc[u]
    BY <1>1, <1>2, GotoChanges DEF IInv, HelperStates, Starting
<1>6. Types'
    BY <1>1, <1>4, <1>5 DEF IInv, Types, TypeOK
<1>7. OneTask(h)
    BY <1>1, <1>2, <1>4, <1>5
       DEF OneTask, HasPair, HasHelper, NoPairYet, Starting
<1>8. SocketInPlace(h)' /\ PairInPlace(h)'
    BY <1>5 DEF SocketInPlace, PairInPlace, HasSocket
<1>9. Isolated'
    <2> SUFFICES ASSUME 2 \in Stdio
                 PROVE  StderrKept' /\ OnlyMine'
        BY DEF Isolated
    <2>1. StderrKept /\ OnlyMine
        BY DEF IInv, Isolated
    <2>2. fds[h][2] = Std
        BY <1>1, <2>1 DEF StderrKept
    <2>3. \A q \in Procs : fds'[q][2] = fds[q][2]
        BY <1>4, Numbers
    <2>4. StderrKept'
        BY <1>1, <1>2, <1>5, <2>1, <2>3, TasksApart DEF StderrKept
    <2>5. \A k \in Fds : fds'[h][k] \in Mine(h)'
        <3>1. \A k \in Fds : k < 3 => k = 0 \/ k = 1 \/ k = 2
            BY Numbers
        <3> QED BY <1>3, <1>4, <2>2, <3>1, Numbers DEF Mine
    <2>6. \A g \in Helpers : g # h => fds'[g] = fds[g] /\ pc'[g] = pc[g]
        BY <1>4, <1>5, TasksApart
    <2>7. OnlyMine'
        BY <1>1, <2>1, <2>5, <2>6 DEF OnlyMine, Mine
    <2> QED BY <2>4, <2>7
<1>10. AddressOf(h)' /\ Unlisted(h)'
    BY <1>5 DEF AddressOf, Unlisted, HasHelper
<1>11. ASSUME NEW u \in Tasks, u # h, pc[u] \in HasHelper, pair[u] = h
       PROVE  AddressOf(u)'
    BY <1>1, <1>5, <1>11, AddressKept DEF Starting
<1> QED BY <1>2, <1>6, <1>7, <1>8, <1>9, <1>10, <1>11, OneTaskStep

\* What the map tells autossl-conn is a port.
LEMMA TlsPortTyped ==
    ASSUME env \in Envs, NEW port \in Ports
    PROVE  TlsPort(env, port) \in Ports
<1> DEFINE at == {i \in DOMAIN env.map : env.map[i][1] = port}
<1>1. env.map \in Seq(Ports \X Ports)
    BY AutosslAssumption DEF Env
<1>2. CASE at = {}
    BY <1>2, AutosslAssumption DEF TlsPort
<1>3. CASE at # {}
    <2>1. at \in SUBSET Nat /\ Len(env.map) \in Nat
          /\ \A i \in at : i <= Len(env.map)
        BY <1>1
    <2>2. Max(at) \in at
        BY <1>3, <2>1, MaxIsGreatest
    <2>3. env.map[Max(at)] \in Ports \X Ports
        <3>1. Max(at) \in 1..Len(env.map)
            BY <1>1, <2>2
        <3> HIDE DEF at
        <3> QED BY <1>1, <3>1
    <2>4. TlsPort(env, port) = env.map[Max(at)][2]
        BY <1>3 DEF TlsPort
    <2> QED BY <2>3, <2>4
<1> QED BY <1>2, <1>3

\* autossl-conn executes a client for the port of the map.
LEMMA ExecStep ==
    ASSUME IInv, NEW h \in Helpers, Exec(h)
    PROVE  IInv'
<1> DEFINE port == TlsPort(env, dest[h].port)
<1>1. /\ pc[h] = "closed" /\ Goto(h, "socket")
      /\ UNCHANGED <<env, fds, sock, pair, end, made>>
      /\ upgrade' \subseteq upgrade
      /\ \/ port = 0 /\ dest' = dest
         \/ port # 0 /\ dest' = [dest EXCEPT ![h].port = port]
    BY DEF Exec
<1>2. h \in Tasks /\ h \in Procs /\ Proc(h) = h /\ h \notin Threads
    BY TasksApart
<1>3. dest \in [Tasks -> Destination] /\ dest[h] \in Destination
    BY <1>2 DEF IInv, Types, TypeOK
<1>4. dest[h].port \in Ports
    BY <1>3 DEF Destination
<1>5. port \in Ports
    BY <1>4, TlsPortTyped DEF IInv, Types, TypeOK
<1> HIDE DEF port
<1> DEFINE d == [dest[h] EXCEPT !.port = port]
<1>6. d \in Destination /\ d.ip = dest[h].ip /\ d.port = port
    BY <1>3, <1>5, Zenon DEF Destination
<1> HIDE DEF d
<1>7. dest' = dest \/ dest' = [dest EXCEPT ![h] = d]
    BY <1>1 DEF d
<1>8. /\ dest' \in [Tasks -> Destination]
      /\ dest'[h].ip = dest[h].ip
      /\ dest'[h].port = IF port = 0 THEN dest[h].port ELSE port
      /\ \A u \in Tasks : u # h => dest'[u] = dest[u]
    <2>1. CASE port = 0
        BY <1>1, <1>3, <2>1
    <2>2. CASE port # 0
        <3>1. dest' = [dest EXCEPT ![h] = d]
            BY <1>1, <2>2 DEF d
        <3> QED BY <1>2, <1>3, <1>6, <2>2, <3>1
    <2> QED BY <2>1, <2>2
<1>9. /\ pc' \in [Tasks -> Connecting \cup Ended \cup Starting \cup Gone
                               \cup {"idle", "open"}]
      /\ \A u \in Threads : pc'[u] \in ThreadStates
      /\ \A g \in Helpers : pc'[g] \in HelperStates
      /\ pc'[h] = "socket"
      /\ \A u \in Tasks : u # h => pc'[u] = pc[u]
    BY <1>1, <1>2, GotoChanges DEF IInv, HelperStates, Starting
<1>10. Types'
    BY <1>1, <1>8, <1>9 DEF IInv, Types, TypeOK
<1>11. OneTask(h)
    BY <1>1, <1>2, <1>8, <1>9
       DEF OneTask, HasPair, HasHelper, NoPairYet, Starting
<1>12. SocketInPlace(h)' /\ PairInPlace(h)'
    BY <1>9 DEF SocketInPlace, PairInPlace, HasSocket
<1>13. Isolated'
    BY <1>1, <1>2, <1>9, IsolationKept
<1>14. AddressOf(h)' /\ Unlisted(h)'
    BY <1>9 DEF AddressOf, Unlisted, HasHelper
<1>15. ASSUME NEW u \in Tasks, u # h, pc[u] \in HasHelper, pair[u] = h
       PROVE  AddressOf(u)'
    <2>1. dest[h].ip = dest[u].ip /\ dest[h].port = dest[u].port
        BY <1>1, <1>15 DEF IInv, SameAddress, AddressOf, Starting
    <2>2. port = TlsPort(env, dest[u].port)
        BY <2>1 DEF port
    <2>3. dest'[u] = dest[u] /\ pair'[u] = h /\ pc'[h] = "socket" /\ env' = env
        BY <1>1, <1>8, <1>9, <1>15
    <2> QED BY <1>8, <2>1, <2>2, <2>3 DEF AddressOf, Starting
<1> QED BY <1>2, <1>10, <1>11, <1>12, <1>13, <1>14, <1>15, OneTaskStep

\* A helper that ends has nothing, and answers for no address.
LEMMA ExitsStep ==
    ASSUME IInv, NEW h \in Helpers, Exits(h),
           pc[h] = "closed" \/ pc[h] \in Ended
    PROVE  IInv'
<1>1. /\ Goto(h, "ended") /\ Forget({h})
      /\ UNCHANGED <<env, upgrade, pair, made>>
    BY DEF Exits
<1>2. h \in Tasks /\ h \in Procs /\ Proc(h) = h /\ h \notin Threads
    BY TasksApart
<1>3. /\ fds' \in [Procs -> [Fds -> File]]
      /\ \A k \in Fds : fds'[h][k] = Closed
      /\ \A q \in Procs : q # h => fds'[q] = fds[q]
    <2>1. NoFds \in [Fds -> File] /\ \A k \in Fds : NoFds[k] = Closed
        BY FilesTyped DEF NoFds
    <2>2. fds \in [Procs -> [Fds -> File]] /\ fds' = [fds EXCEPT ![h] = NoFds]
        BY DEF IInv, Types, TypeOK, Exits
    <2> QED BY <1>2, <2>1, <2>2
<1>4. /\ pc' \in [Tasks -> Connecting \cup Ended \cup Starting \cup Gone
                               \cup {"idle", "open"}]
      /\ \A u \in Threads : pc'[u] \in ThreadStates
      /\ \A g \in Helpers : pc'[g] \in HelperStates
      /\ pc'[h] = "ended"
      /\ \A u \in Tasks : u # h => pc'[u] = pc[u]
    BY <1>1, <1>2, GotoChanges DEF IInv, HelperStates
<1>5. /\ sock' \in [Tasks -> Fds] /\ dest' \in [Tasks -> Destination]
      /\ end' \in [Tasks -> Fds \X Fds]
      /\ \A u \in Tasks : u # h =>
            sock'[u] = sock[u] /\ dest'[u] = dest[u] /\ end'[u] = end[u]
    BY <1>1, <1>2, ForgetChanges DEF IInv
<1>6. Types'
    BY <1>1, <1>3, <1>4, <1>5 DEF IInv, Types, TypeOK
<1>7. OneTask(h)
    BY <1>1, <1>2, <1>3, <1>4, <1>5
       DEF OneTask, HasPair, HasHelper, NoPairYet, Starting, Ended
<1>8. SocketInPlace(h)' /\ PairInPlace(h)'
    BY <1>2, <1>4 DEF SocketInPlace, PairInPlace, HasSocket
<1>9. Isolated'
    <2>1. \A g \in Helpers : g # h => fds'[g] = fds[g] /\ pc'[g] = pc[g]
        BY <1>3, <1>4, TasksApart
    <2>2. fds'[Client] = fds[Client] /\ \A u \in Threads : pc'[u] = pc[u]
        BY <1>2, <1>3, <1>4, TasksApart
    <2>3. StderrKept => StderrKept'
        BY <1>4, <2>1, <2>2 DEF StderrKept
    <2>4. OnlyMine => OnlyMine'
        BY <1>1, <1>3, <2>1 DEF OnlyMine, Mine
    <2> QED BY <2>3, <2>4 DEF IInv, Isolated
<1>10. AddressOf(h)' /\ Unlisted(h)'
    BY <1>4 DEF AddressOf, Unlisted, HasHelper
<1>11. ASSUME NEW u \in Tasks, u # h, pc[u] \in HasHelper, pair[u] = h
       PROVE  AddressOf(u)'
    BY <1>1, <1>4, <1>11 DEF AddressOf
<1> QED BY <1>2, <1>6, <1>7, <1>8, <1>9, <1>10, <1>11, OneTaskStep

\* Two free descriptors of a process are two that are free.
LEMMA TwoFree ==
    ASSUME NEW p, Cardinality(FreeFds(p)) >= 2
    PROVE  LET a == Lowest(p)
               b == Min(FreeFds(p) \ {a})
           IN  /\ a \in Fds /\ b \in Fds /\ a # b
               /\ fds[p][a] = Closed /\ fds[p][b] = Closed
<1> DEFINE a == Lowest(p)
           S == FreeFds(p)
<1>1. S \in SUBSET Nat /\ S # {} /\ S \ {a} # {}
    <2>1. S \in SUBSET Nat
        BY Numbers DEF FreeFds
    <2>2. Cardinality({}) = 0 /\ Cardinality({a}) = 1
        BY FS_EmptySet, FS_Singleton
    <2>3. S # {} /\ S # {a}
        BY <2>2
    <2> QED BY <2>1, <2>3
<1>2. a \in S
    BY <1>1, MinIsLeast DEF Lowest
<1>3. Min(S \ {a}) \in S \ {a}
    <2>1. S \ {a} \in SUBSET Nat
        BY <1>1
    <2> QED BY <1>1, <2>1, MinIsLeast
<1> QED BY <1>2, <1>3 DEF FreeFds

\* A pair of sockets takes free descriptors, and its helper is yet to be
\* forked.
LEMMA SocketpairStep ==
    ASSUME IInv, NEW t \in Tasks, Socketpair(t)
    PROVE  IInv'
<1> DEFINE p == Proc(t)
           a == Lowest(p)
           b == Min(FreeFds(p) \ {a})
           n == made + 1
<1>1. /\ pc[t] = "socketpair" /\ Goto(t, "fork")
      /\ fds' = [fds EXCEPT ![p][a] = End(n, 0), ![p][b] = End(n, 1)]
      /\ end' = [end EXCEPT ![t] = <<a, b>>]
      /\ pair' = [pair EXCEPT ![t] = n] /\ made' = n
      /\ made < MaxPairs /\ Cardinality(FreeFds(p)) >= 2
      /\ UNCHANGED <<env, upgrade, sock, dest>>
    BY DEF Socketpair
<1>2. /\ a \in Fds /\ b \in Fds /\ a # b
      /\ fds[p][a] = Closed /\ fds[p][b] = Closed
    BY <1>1, TwoFree
<1>3. made \in Nat /\ n \in Nat /\ n > made /\ n \in Helpers
    <2>1. made \in 0..MaxPairs
        BY DEF IInv, Types, TypeOK
    <2> QED BY <1>1, <2>1, Numbers
<1> HIDE DEF a, b
<1>4. p \in Procs
    BY TasksApart
<1>5. /\ fds' \in [Procs -> [Fds -> File]]
      /\ fds'[p][a] = End(n, 0) /\ fds'[p][b] = End(n, 1)
      /\ \A k \in Fds : k \notin {a, b} => fds'[p][k] = fds[p][k]
      /\ \A q \in Procs : q # p => fds'[q] = fds[q]
    <2>1. fds \in [Procs -> [Fds -> File]]
        BY DEF IInv, Types, TypeOK
    <2>2. End(n, 0) \in File /\ End(n, 1) \in File
        BY <1>3, FilesTyped
    <2> HIDE DEF p, n
    <2> QED BY <1>1, <1>2, <1>4, <2>1, <2>2
<1>6. /\ pc' \in [Tasks -> Connecting \cup Ended \cup Starting \cup Gone
                               \cup {"idle", "open"}]
      /\ \A u \in Threads : pc'[u] \in ThreadStates
      /\ \A h \in Helpers : pc'[h] \in HelperStates
      /\ pc'[t] = "fork"
      /\ \A u \in Tasks : u # t => pc'[u] = pc[u]
    BY <1>1, GotoChanges DEF IInv, ThreadStates, HelperStates, Connecting
<1>7. /\ end' \in [Tasks -> Fds \X Fds] /\ end'[t] = <<a, b>>
      /\ \A u \in Tasks : u # t => end'[u] = end[u]
    BY <1>1, <1>2 DEF IInv, Types, TypeOK
<1>8. /\ pair' \in [Tasks -> 0..MaxPairs] /\ pair'[t] = n
      /\ \A u \in Tasks : u # t => pair'[u] = pair[u]
    <2>1. n \in 0..MaxPairs
        BY <1>3, Numbers
    <2> QED BY <1>1, <2>1 DEF IInv, Types, TypeOK
<1>9. made' \in 0..MaxPairs
    BY <1>1, <1>3, Numbers
<1>10. Types'
    BY <1>1, <1>5, <1>6, <1>7, <1>8, <1>9 DEF IInv, Types, TypeOK
<1>11. \A u \in Tasks : pair[u] \in Nat /\ pair[u] <= made
    BY PairsHaveHelpers
<1>12. PairsApart'
    <2>1. \A u \in Tasks : pair'[u] <= made'
        BY <1>1, <1>3, <1>8, <1>11
    <2>2. \A u, v \in Tasks : pair'[u] = pair'[v] /\ pair'[u] # 0 => u = v
        BY <1>3, <1>8, <1>11 DEF IInv, PairsApart
    <2>3. \A u \in Tasks : pc'[u] \in HasPair => pair'[u] # 0
        BY <1>3, <1>6, <1>8 DEF IInv, PairsApart
    <2>4. \A h \in Helpers : pc'[h] \in NoPairYet => pair'[h] = 0
        BY <1>6, <1>8, TasksApart DEF IInv, PairsApart, NoPairYet, Starting
    <2> QED BY <2>1, <2>2, <2>3, <2>4 DEF PairsApart
<1>13. ForkedOnce'
    <2>1. \A h \in Helpers : h > n => pc'[h] = "unborn"
        <3>1. \A h \in Helpers : h > n => h > made
            BY <1>3, Numbers
        <3> QED BY <1>1, <1>6, <3>1, TasksApart DEF IInv, ForkedOnce
    <2>2. pc'[n] = "unborn"
        BY <1>1, <1>3, <1>6, TasksApart DEF IInv, ForkedOnce
    <2>3. \A u \in Tasks : u # t /\ pc[u] \in HasPair =>
             pair'[u] \in Tasks /\ pair'[u] = pair[u]
        BY <1>8, PairsHaveHelpers, TasksApart
    <2>4. \A u \in Tasks : pc'[u] = "fork" => pc'[pair'[u]] = "unborn"
        BY <1>1, <1>6, <1>8, <2>2, <2>3 DEF IInv, ForkedOnce, HasPair
    <2>5. \A u \in Tasks : pc'[u] \in HasHelper => pc'[pair'[u]] # "unborn"
        BY <1>6, <2>3 DEF IInv, ForkedOnce, HasPair, HasHelper
    <2> QED BY <1>1, <2>1, <2>4, <2>5 DEF ForkedOnce
<1>14. InPlace'
    <2>1. fds[p][sock[t]] = Tcp(t) /\ sock[t] \in Fds
        BY <1>1 DEF IInv, InPlace, SocketInPlace, HasSocket, Types, TypeOK
    <2>2. fds'[p][sock[t]] = Tcp(t)
        BY <1>2, <1>5, <2>1, FilesApart
    <2>3. SocketInPlace(t)' /\ PairInPlace(t)'
        BY <1>1, <1>5, <1>6, <1>7, <1>8, <2>2
           DEF SocketInPlace, PairInPlace, Proc
    <2>4. ASSUME NEW u \in Tasks, u # t
          PROVE  SocketInPlace(u)' /\ PairInPlace(u)'
        <3>1. \A k \in Fds :
                 \/ fds'[Proc(u)][k] = fds[Proc(u)][k]
                 \/ Proc(u) = Proc(t) /\ fds[Proc(t)][k] \in OwnFiles(t)
            BY <1>2, <1>5, TasksApart DEF OwnFiles
        <3> QED BY <1>1, <1>6, <1>7, <1>8, <2>4, <3>1, OthersInPlace
    <2> QED BY <2>3, <2>4 DEF InPlace
<1>15. Isolated'
    <2>1. \A k \in Fds :
             \/ fds'[Proc(t)][k] = fds[Proc(t)][k]
             \/ /\ fds[Proc(t)][k] \in OwnFiles(t)
                /\ fds'[Proc(t)][k] \in OwnFiles(t)'
        BY <1>2, <1>5, <1>8 DEF OwnFiles
    <2>2. t \in Helpers => pair[t] = 0
        BY <1>1 DEF IInv, PairsApart, NoPairYet
    <2> QED BY <1>1, <1>5, <1>6, <1>8, <2>1, <2>2, IsolationKept
<1>16. SameAddress'
    <2>1. AddressOf(t)'
        BY <1>6 DEF AddressOf, HasHelper
    <2>2. ASSUME NEW u \in Tasks, u # t, pc[u] \in HasHelper
          PROVE  AddressOf(u)'
        <3>1. pair[u] \in Tasks
            BY <2>2, PairsHaveHelpers, TasksApart DEF HasHelper, HasPair
        <3>2. pc'[pair[u]] = pc[pair[u]] \/ pair[u] = t
            BY <1>6, <3>1
        <3> QED BY <1>1, <1>6, <1>8, <2>2, <3>2, AddressKept DEF Starting
    <2>3. ASSUME NEW u \in Tasks, u # t, pc[u] \notin HasHelper
          PROVE  AddressOf(u)'
        BY <1>6, <2>3 DEF AddressOf
    <2> QED BY <2>1, <2>2, <2>3 DEF SameAddress
<1>17. PlainUnlisted'
    <2>1. ASSUME NEW u \in Tasks
          PROVE  Unlisted(u)'
        BY <1>1, <1>6, UnlistedKept
    <2> QED BY <2>1 DEF PlainUnlisted
<1> QED BY <1>10, <1>12, <1>13, <1>14, <1>15, <1>16, <1>17 DEF IInv

\* The child has its parent's files, among them its own end of the pair.
LEMMA ForkStep ==
    ASSUME IInv, NEW t \in Tasks, Fork(t)
    PROVE  IInv'
<1>0. PICK n \in Helpers : n = pair[t]
    BY PairsHaveHelpers DEF Fork, IInv, HasPair
<1>1. /\ pc[t] = "fork" /\ pc' = [pc EXCEPT ![t] = "close", ![n] = "forked"]
      /\ fds' = [fds EXCEPT ![n] = fds[Proc(t)]]
      /\ end' = [end EXCEPT ![n] = end[t]]
      /\ dest' = [dest EXCEPT ![n] = dest[t]]
      /\ upgrade' \subseteq upgrade \cup {n}
      /\ UNCHANGED <<env, sock, pair, made>>
    BY <1>0 DEF Fork
<1>2. n \in Helpers /\ n <= made /\ made \in Nat /\ pc[n] = "unborn" /\ n # t
    BY <1>0, <1>1, PairsHaveHelpers DEF IInv, ForkedOnce, HasPair
<1>3. /\ n \in Tasks /\ n \in Procs /\ Proc(n) = n /\ n \notin Threads
      /\ Proc(t) \in Procs /\ Proc(t) # n
      /\ \A u \in Tasks : Proc(u) = n => u = n
    BY <1>2, TasksApart
<1>4. \A u \in Tasks : u # t /\ pc[u] \in HasPair =>
         pair[u] # n /\ pair[u] \in Tasks
    BY <1>0, <1>1, PairsHaveHelpers, TasksApart
       DEF IInv, PairsApart, HasPair
<1>5. /\ fds' \in [Procs -> [Fds -> File]]
      /\ fds'[n] = fds[Proc(t)]
      /\ \A q \in Procs : q # n => fds'[q] = fds[q]
    BY <1>1, <1>3 DEF IInv, Types, TypeOK
<1>6. /\ pc'[t] = "close" /\ pc'[n] = "forked"
      /\ \A u \in Tasks : u \notin {t, n} => pc'[u] = pc[u]
    BY <1>1, <1>2, <1>3 DEF IInv, Types, TypeOK
<1>7. /\ end' \in [Tasks -> Fds \X Fds] /\ end'[n] = end[t]
      /\ \A u \in Tasks : u # n => end'[u] = end[u]
    BY <1>1, <1>3 DEF IInv, Types, TypeOK
<1>8. /\ dest' \in [Tasks -> Destination] /\ dest'[n] = dest[t]
      /\ \A u \in Tasks : u # n => dest'[u] = dest[u]
    BY <1>1, <1>3 DEF IInv, Types, TypeOK
<1>9. Types'
    <2>1. pc' \in [Tasks -> Connecting \cup Ended \cup Starting \cup Gone
                                \cup {"idle", "open"}]
        BY <1>1 DEF IInv, Types, TypeOK, Connecting, Starting
    <2>2. /\ \A u \in Threads : pc'[u] \in ThreadStates
          /\ \A h \in Helpers : pc'[h] \in HelperStates
        BY <1>3, <1>6, TasksApart
           DEF IInv, Types, ThreadStates, HelperStates, Connecting, Starting
    <2>3. upgrade' \subseteq Procs
        BY <1>1, <1>3 DEF IInv, Types, TypeOK
    <2> QED BY <1>1, <1>5, <1>7, <1>8, <2>1, <2>2, <2>3
            DEF IInv, Types, TypeOK
<1>10. PairsApart'
    <2>1. pair[n] = 0
        BY <1>2 DEF IInv, PairsApart, NoPairYet
    <2> QED BY <1>1, <1>2, <1>6, <2>1, TasksApart
            DEF IInv, PairsApart, HasPair, NoPairYet, Starting
<1>11. ForkedOnce'
    <2>1. \A h \in Helpers : h > made' => pc'[h] = "unborn"
        <3>1. \A h \in Helpers : h > made => h # n /\ h # t
            BY <1>1, <1>2, Numbers DEF IInv, ForkedOnce
        <3> QED BY <1>1, <1>6, <3>1, TasksApart DEF IInv, ForkedOnce
    <2>2. ASSUME NEW u \in Tasks, pc'[u] = "fork"
          PROVE  pc'[pair'[u]] = "unborn"
        <3>1. u \notin {t, n} /\ pc[u] = "fork"
            BY <1>6, <2>2
        <3>2. pc[pair[u]] = "unborn" /\ pair[u] # n /\ pair[u] \in Tasks
            BY <1>4, <3>1 DEF IInv, ForkedOnce, HasPair
        <3> QED BY <1>1, <1>6, <3>2
    <2>3. ASSUME NEW u \in Tasks, pc'[u] \in HasHelper
          PROVE  pc'[pair'[u]] # "unborn"
        <3>1. CASE u = t
            BY <1>0, <1>1, <1>6, <3>1
        <3>2. CASE u # t
            <4>1. pc[u] \in HasHelper
                BY <1>6, <2>3, <3>2 DEF HasHelper
            <4>2. pc[pair[u]] # "unborn" /\ pair[u] \in Tasks
                BY <1>4, <3>2, <4>1 DEF IInv, ForkedOnce, HasHelper, HasPair
            <4> QED BY <1>1, <1>6, <4>2
        <3> QED BY <3>1, <3>2
    <2> QED BY <2>1, <2>2, <2>3 DEF ForkedOnce
<1>12. InPlace'
    <2>1. SocketInPlace(t) /\ PairInPlace(t)
        BY DEF IInv, InPlace
    <2>2. SocketInPlace(t)' /\ PairInPlace(t)'
        BY <1>1, <1>2, <1>3, <1>5, <1>6, <1>7, <2>1
           DEF SocketInPlace, PairInPlace, HasSocket, Proc
    <2>3. fds[Proc(t)][end[t][2]] = End(n, 1)
        BY <1>0, <1>1, <2>1 DEF PairInPlace
    <2>4. SocketInPlace(n)' /\ PairInPlace(n)'
        BY <1>3, <1>5, <1>6, <1>7, <2>3
           DEF SocketInPlace, PairInPlace, HasSocket, Proc
    <2>5. ASSUME NEW u \in Tasks, u \notin {t, n}
          PROVE  SocketInPlace(u)' /\ PairInPlace(u)'
        <3>1. fds'[Proc(u)] = fds[Proc(u)]
            BY <1>3, <1>5, <2>5, TasksApart
        <3>2. pc'[u] = pc[u] /\ sock'[u] = sock[u] /\ end'[u] = end[u]
              /\ pair'[u] = pair[u]
            BY <1>1, <1>6, <1>7, <2>5
        <3>3. SocketInPlace(u) /\ PairInPlace(u)
            BY DEF IInv, InPlace
        <3> QED BY <3>1, <3>2, <3>3 DEF SocketInPlace, PairInPlace, Proc
    <2> QED BY <2>2, <2>4, <2>5 DEF InPlace
<1>13. Isolated'
    <2> SUFFICES ASSUME 2 \in Stdio
                 PROVE  StderrKept' /\ OnlyMine'
        BY DEF Isolated
    <2>1. StderrKept /\ OnlyMine
        BY DEF IInv, Isolated
    <2>2. fds[Proc(t)][2] = Std
        BY <1>1, <2>1, TasksApart DEF StderrKept
    <2>3. StderrKept'
        <3>1. fds'[Client] = fds[Client]
            BY <1>3, <1>5, TasksApart
        <3>2. \A u \in Threads : u # n /\ u \in Tasks
            BY <1>3, TasksApart
        <3>3. pc[t] # "exited" /\ pc'[t] # "exited"
            BY <1>1, <1>6
        <3>4. \A u \in Threads : pc'[u] # "exited" => fds'[Client][2] = Std
            BY <1>6, <2>1, <3>1, <3>2, <3>3 DEF StderrKept
        <3>5. ASSUME NEW h \in Helpers, pc'[h] \notin {"unborn", "ended"}
              PROVE  fds'[h][2] = Std
            <4>1. CASE h = n
                BY <1>5, <2>2, <4>1
            <4>2. CASE h # n
                <5>1. pc[h] \notin {"unborn", "ended"} /\ h \in Procs
                    BY <1>1, <1>6, <3>5, <4>2, TasksApart
                <5>2. fds[h][2] = Std
                    BY <2>1, <3>5, <5>1 DEF StderrKept
                <5> QED BY <1>5, <4>2, <5>1, <5>2
            <4> QED BY <4>1, <4>2
        <3> QED BY <3>4, <3>5 DEF StderrKept
    <2>4. \A h \in Helpers : h # n => fds'[h] = fds[h]
        BY <1>5, TasksApart
    <2>5. \A h \in Helpers : h # n =>
             (pc[h] \in {"forked", "wired"} => pc'[h] \in {"forked", "wired"})
        BY <1>1, <1>6, TasksApart
    <2>6. OnlyMine'
        BY <1>1, <1>6, <2>1, <2>4, <2>5 DEF OnlyMine, Mine
    <2> QED BY <2>3, <2>6
<1>14. SameAddress'
    <2>1. AddressOf(t)'
        BY <1>0, <1>1, <1>2, <1>6, <1>8 DEF AddressOf, Starting
    <2>2. AddressOf(n)'
        BY <1>6 DEF AddressOf, HasHelper
    <2>3. ASSUME NEW u \in Tasks, u \notin {t, n}
          PROVE  AddressOf(u)'
        <3>1. pc'[u] = pc[u] /\ dest'[u] = dest[u]
            BY <1>6, <1>8, <2>3
        <3>2. CASE pc[u] \notin HasHelper
            BY <3>1, <3>2 DEF AddressOf
        <3>3. CASE pc[u] \in HasHelper
            <4>1. pair[u] # n /\ pair[u] \in Tasks
                BY <1>4, <2>3, <3>3 DEF HasHelper, HasPair
            <4>2. dest'[pair[u]] = dest[pair[u]]
                BY <1>8, <4>1
            <4>3. pc'[pair[u]] = pc[pair[u]] \/ pair[u] = t
                BY <1>6, <4>1
            <4> QED BY <1>1, <1>6, <3>1, <3>3, <4>2, <4>3, AddressKept
                    DEF Starting
        <3> QED BY <3>2, <3>3
    <2> QED BY <2>1, <2>2, <2>3 DEF SameAddress
<1>15. PlainUnlisted'
    <2>1. Unlisted(n)'
        BY <1>6 DEF Unlisted
    <2>2. ASSUME NEW u \in Tasks, u # n
          PROVE  Unlisted(u)'
        <3>1. Proc(u) \in upgrade' => Proc(u) \in upgrade
            BY <1>1, <1>3, <2>2
        <3>2. pc'[u] \in {"stdlib", "plain"} => pc[u] \in {"stdlib", "plain"}
            BY <1>6, <2>2
        <3> QED BY <1>1, <1>8, <2>2, <3>1, <3>2, UnlistedKept
    <2> QED BY <2>1, <2>2 DEF PlainUnlisted
<1> QED BY <1>9, <1>10, <1>11, <1>12, <1>13, <1>14, <1>15 DEF IInv

\* The client ends with all its threads, and its helpers go on.
LEMMA ClientExitsStep ==
    ASSUME IInv, ClientExits
    PROVE  IInv'
<1>1. /\ fds' = [fds EXCEPT ![Client] = NoFds]
      /\ pc' = [t \in Tasks |-> IF t \in Threads THEN "exited" ELSE pc[t]]
      /\ Forget(Threads) /\ UNCHANGED <<env, upgrade, pair, made>>
    BY DEF ClientExits
<1>2. /\ \A u \in Threads : pc'[u] = "exited"
      /\ \A h \in Helpers : /\ pc'[h] = pc[h] /\ sock'[h] = sock[h]
                            /\ dest'[h] = dest[h] /\ end'[h] = end[h]
    BY <1>1, TasksApart DEF Forget
<1>3. /\ fds' \in [Procs -> [Fds -> File]]
      /\ \A h \in Helpers : fds'[h] = fds[h]
    <2>1. NoFds \in [Fds -> File]
        BY FilesTyped DEF NoFds
    <2> QED BY <1>1, <2>1, TasksApart DEF IInv, Types, TypeOK
<1>4. Types'
    <2>1. /\ sock \in [Tasks -> Fds] /\ dest \in [Tasks -> Destination]
          /\ end \in [Tasks -> Fds \X Fds]
        BY DEF IInv, Types, TypeOK
    <2>2. sock' \in [Tasks -> Fds]
        BY <1>1, <2>1, Numbers DEF Forget
    <2>3. dest' \in [Tasks -> Destination]
        BY <1>1, <2>1, NowhereTyped DEF Forget
    <2>4. end' \in [Tasks -> Fds \X Fds]
        <3>1. <<0, 0>> \in Fds \X Fds
            BY Numbers
        <3> QED BY <1>1, <2>1, <3>1 DEF Forget
    <2>5. pc' \in [Tasks -> Connecting \cup Ended \cup Starting \cup Gone
                                \cup {"idle", "open"}]
        BY <1>1 DEF IInv, Types, TypeOK, Gone
    <2> QED BY <1>1, <1>2, <1>3, <2>2, <2>3, <2>4, <2>5
            DEF IInv, Types, TypeOK, ThreadStates
<1>5. \A u \in Tasks : pc[u] \in HasPair => pair[u] \in Helpers
    BY PairsHaveHelpers
<1>6. PairsApart'
    BY <1>1, <1>2, TasksApart DEF IInv, PairsApart, HasPair
<1>7. ForkedOnce'
    BY <1>1, <1>2, <1>5, TasksApart DEF IInv, ForkedOnce, HasPair, HasHelper
<1>8. InPlace'
    <2>1. ASSUME NEW u \in Threads
          PROVE  SocketInPlace(u)' /\ PairInPlace(u)'
        BY <1>2 DEF SocketInPlace, PairInPlace, HasSocket
    <2>2. ASSUME NEW h \in Helpers
          PROVE  SocketInPlace(h)' /\ PairInPlace(h)'
        <3>1. SocketInPlace(h) /\ PairInPlace(h) /\ Proc(h) = h
            BY TasksApart DEF IInv, InPlace
        <3>2. pair'[h] = pair[h] /\ h \notin Threads
            BY <1>1, TasksApart
        <3> QED BY <1>2, <1>3, <3>1, <3>2 DEF SocketInPlace, PairInPlace, Proc
    <2> QED BY <2>1, <2>2, TasksApart DEF InPlace
<1>9. Isolated'
    BY <1>1, <1>2, <1>3
       DEF IInv, Isolated, StderrKept, OnlyMine, Mine
<1>10. SameAddress'
    <2>1. ASSUME NEW u \in Threads
          PROVE  AddressOf(u)'
        BY <1>2 DEF AddressOf, HasHelper
    <2>2. ASSUME NEW h \in Helpers
          PROVE  AddressOf(h)'
        <3>1. pc[h] \in HasHelper => pair[h] \in Helpers
            BY <1>5, TasksApart DEF HasHelper, HasPair
        <3>2. AddressOf(h)
            BY TasksApart DEF IInv, SameAddress
        <3> QED BY <1>1, <1>2, <3>1, <3>2 DEF AddressOf
    <2> QED BY <2>1, <2>2, TasksApart DEF SameAddress
<1>11. PlainUnlisted'
    <2>1. ASSUME NEW u \in Threads
          PROVE  Unlisted(u)'
        BY <1>2 DEF Unlisted
    <2>2. ASSUME NEW h \in Helpers
          PROVE  Unlisted(h)'
        BY <1>1, <1>2, UnlistedKept, TasksApart
    <2> QED BY <2>1, <2>2, TasksApart DEF PlainUnlisted
<1> QED BY <1>4, <1>6, <1>7, <1>8, <1>9, <1>10, <1>11 DEF IInv

-----------------------------------------------------------------------------
(* The theorems *)

\* The invariant is kept by every step.
LEMMA NextInvariant == IInv /\ [Next]_vars => IInv'
<1> SUFFICES ASSUME IInv, [Next]_vars PROVE IInv'
    OBVIOUS
<1>1. ASSUME NEW t \in Tasks, Library(t) PROVE IInv'
    <2>1. ErrorCase(env) = "failed" \/ (ErrorCase(env) = "stdlib" /\ ~env.errno)
        BY DEF ErrorCase
    <2>2. CASE SocketpairFails(t)
        BY <2>1, <2>2, QuietStep DEF SocketpairFails
    <2>3. CASE ForkFails(t)
        BY <2>1, <2>3, QuietStep DEF ForkFails
    <2>4. CASE StdConnect(t)
        BY <2>4, QuietStep DEF StdConnect
    <2>5. CASE StdConnectFails(t)
        BY <2>5, QuietStep DEF StdConnectFails
    <2> QED BY <1>1, <2>2, <2>3, <2>4, <2>5, SocketpairStep, ForkStep,
               CloseEndStep, Dup2Step, Dup2FailsStep DEF Library
<1>2. ASSUME NEW t \in Threads, Open(t) \/ Connect(t) \/ Close(t) PROVE IInv'
    BY <1>2, OpenStep, ConnectStep, CloseStep, TasksApart
<1>3. ASSUME NEW h \in Helpers, Helper(h) PROVE IInv'
    <2>1. h \in Tasks
        BY TasksApart
    <2>2. CASE ExecFails(h)
        BY <2>2, ExitsStep DEF ExecFails
    <2> QED BY <1>3, <2>1, <2>2, WireStep, CloseFromStep, ExecStep,
               OpenStep, ConnectStep DEF Helper
<1>4. ASSUME NEW h \in Helpers, HelperEnds(h) PROVE IInv'
    BY <1>4, ExitsStep DEF HelperEnds, Ended
<1>5. CASE UNCHANGED vars
    BY <1>5 DEF vars, IInv, Types, TypeOK, PairsApart, ForkedOnce, InPlace,
                SocketInPlace, PairInPlace, Isolated, StderrKept, OnlyMine,
                Mine, SameAddress, AddressOf, PlainUnlisted, Unlisted, Listed,
                Proc
<1> QED BY <1>1, <1>2, <1>3, <1>4, <1>5, ClientExitsStep DEF Next

\* Whatever the client and its helpers do and whatever fails, the invariant
\* holds.
LEMMA Invariant == Spec => []IInv
<1> QED BY InitInvariant, NextInvariant, PTL DEF Spec

\* Every variable keeps its type: what the map tells autossl-conn is a port, and
\* descriptors and pairs exist.
THEOREM TypesCorrect == Spec => []TypeOK
<1>1. IInv => TypeOK
    BY DEF IInv, Types
<1> QED BY <1>1, Invariant, PTL

\* autossl.c:115: the socket of a redirected connection is the caller's end of
\* the pair whose other end the helper was given, and the helper connects for
\* the address that the caller gave, at the port that autossl-conn's map says.
THEOREM RedirectedRight == Spec => []RedirectedToOwnHelper
<1>1. IInv => RedirectedToOwnHelper
    <2> SUFFICES ASSUME IInv, NEW t \in Tasks, pc[t] = "upgraded"
                 PROVE  LET h == pair[t]
                            tls == TlsPort(env, dest[t].port)
                        IN  /\ fds[Proc(t)][sock[t]] = End(h, 0)
                            /\ pc[h] # "ended" =>
                                 /\ dest[h].ip = dest[t].ip
                                 /\ dest[h].port =
                                      IF \/ tls = 0
                                         \/ pc[h] \in Starting \ {"socket"}
                                      THEN dest[t].port ELSE tls
        BY DEF RedirectedToOwnHelper
    <2>1. fds[Proc(t)][sock[t]] = End(pair[t], 0)
        BY DEF IInv, InPlace, SocketInPlace
    <2>2. AddressOf(t) /\ pc[t] \in HasHelper
        BY DEF IInv, SameAddress, HasHelper
    <2> QED BY <2>1, <2>2 DEF AddressOf
<1> QED BY <1>1, Invariant, PTL

\* A thread whose connection was not redirected has the socket it connected,
\* whatever has failed on the way.
THEOREM SocketIsKept == Spec => []SocketKept
<1>1. IInv => SocketKept
    BY TasksApart DEF IInv, SocketKept, InPlace, SocketInPlace, HasSocket
<1> QED BY <1>1, Invariant, PTL

\* With a helper command and an error number set, no failure makes a listed
\* connection of an upgraded process go out in plain.
THEOREM NeverDowngraded == Spec => []NoDowngrade
<1>1. IInv => NoDowngrade
    BY DEF IInv, NoDowngrade, PlainUnlisted, Unlisted
<1> QED BY <1>1, Invariant, PTL

\* A helper program has its end of its own pair, its own socket and the pairs
\* it has made, and nothing else of the client or of other helpers, however
\* many threads fork at once: provided that the client has standard error
\* open, the one descriptor that closefrom(3) leaves as it is.
THEOREM HelperHasOwnFiles ==
    ASSUME 2 \in Stdio
    PROVE  Spec => []HelperIsIsolated
<1>1. IInv => HelperIsIsolated
    <2> SUFFICES ASSUME IInv, NEW h \in Helpers, NEW fd \in Fds,
                        pc[h] \notin {"forked", "wired"}
                 PROVE  LET f == fds[h][fd]
                        IN  /\ f.kind = "tcp" => f.task = h
                            /\ f.kind = "end" => \/ f = End(h, 1)
                                                 \/ f.pair = pair[h]
        BY DEF HelperIsIsolated
    <2>1. fds[h][fd] \in Mine(h)
        BY DEF IInv, Isolated, OnlyMine
    <2>2. Closed.kind = "closed" /\ Std.kind = "std"
        BY DEF Closed, Std
    <2>3. Tcp(h).kind = "tcp" /\ Tcp(h).task = h
        BY DEF Tcp
    <2>4. \A n, i : End(n, i).kind = "end" /\ End(n, i).pair = n
        BY DEF End
    <2> QED BY <2>1, <2>2, <2>3, <2>4 DEF Mine
<1> QED BY <1>1, Invariant, PTL
=============================================================================
