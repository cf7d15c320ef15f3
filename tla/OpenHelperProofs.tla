-------------------------- MODULE OpenHelperProofs --------------------------
(***************************************************************************)
(* Proofs about openhelper.so, for any number of threads, calls and        *)
(* descriptors and whatever fails: a caller never gets the file itself in  *)
(* place of what a helper command provides, what it gets is the whole      *)
(* output of its own helper, and no descriptor is lost but those of calls  *)
(* that have failed after their fork.                                      *)
(***************************************************************************)
EXTENDS OpenHelper, LeastProofs, TLAPS

Alive == {"forked", "closed", "opened", "wired", "running"}
Dead == {"zombie", "reaped"}
InCall == {"fork", "wait", "replaced"} \* a thread has a call with a file

\* The types, and which states belong to threads and which to helpers.
Types ==
    /\ env \in Envs
    /\ fds \in [Procs -> [Fds -> File]]
    /\ pc \in [Threads \cup Helpers -> Calling \cup Returned \cup HelperStates]
    /\ \A t \in Threads : pc[t] \in Calling \cup Returned
    /\ \A h \in Helpers : pc[h] \in HelperStates
    /\ match \in [Threads -> BOOLEAN]
    /\ call \in [Threads -> 0..MaxCalls]
    /\ result \in [Threads \cup Helpers -> Fds]
    /\ text \in [Helpers -> 0..Output]
    /\ offset \in [Helpers -> 0..Output]
    /\ status \in [Helpers -> HowEnded \cup {"none"}]
    /\ made \in 0..MaxCalls
    /\ lost \subseteq Helpers

\* A call has a number of its own from its temporary file to its end.
CallsApart ==
    /\ \A t \in Threads : call[t] <= made
    /\ \A t \in Threads : call[t] # 0 => pc[t] \in InCall \cup {"failed"}
    /\ \A t \in Threads : pc[t] \in InCall => call[t] # 0
    /\ \A t, u \in Threads : call[t] = call[u] /\ call[t] # 0 => t = u

\* The program has files as it was given them, and those that it has are where
\* its threads remember them.
ProgramFiles ==
    /\ \A fd \in Fds, n \in Helpers : fds[Program][fd] # Again(n)
    /\ \A fd \in Fds, n \in Helpers : fds[Program][fd] = Tmp(n) => n <= made
    /\ \A t \in Threads : pc[t] \in InCall =>
          fds[Program][result[t]] = Tmp(call[t])
    /\ \A t \in Threads : pc[t] = "plain" => fds[Program][result[t]] = Plain
    /\ \A t, u \in Threads : pc[t] = "plain" /\ pc[u] = "plain"
          /\ result[t] = result[u] => t = u

\* A helper is forked by the call of its number, which has not gone on before;
\* the call returns its file when the helper has ended well; until the helper
\* has ended, its call waits for it or has failed.
ForkedFirst ==
    \A h \in Helpers : pc[h] = "unborn" =>
        \A t \in Threads : call[t] = h => pc[t] \notin {"wait", "replaced"}
ForkedOnce ==
    /\ \A h \in Helpers : h > made => pc[h] = "unborn"
    /\ \A t \in Threads : pc[t] = "fork" => pc[call[t]] = "unborn"
ReapedFirst ==
    \A t \in Threads : pc[t] = "replaced" =>
        pc[call[t]] = "reaped" /\ status[call[t]] = "ok"
AliveIsKnown ==
    \A h \in Helpers : pc[h] \in Alive =>
        h \in lost \/ \E t \in Threads : call[t] = h /\ pc[t] = "wait"

HelpersLive == ForkedFirst /\ ForkedOnce /\ ReapedFirst /\ AliveIsKnown

\* What a helper has opened again is its own file; it is its standard output
\* when its command runs.
HelperFiles ==
    /\ \A h \in Helpers, fd \in Fds, n \in Helpers :
          fds[h][fd] = Again(n) => n = h /\ pc[h] \in Alive
    /\ \A h \in Helpers : pc[h] = "closed" => fds[h][0] = Closed
    /\ \A h \in Helpers : pc[h] = "opened" => fds[h][result[h]] = Again(h)
    /\ \A h \in Helpers : pc[h] \in {"wired", "running"} => fds[h][1] = Again(h)
    /\ \A h \in Helpers : offset[h] = 0

\* A thread that opens the file itself has no helper command for it.
Refused == \A t \in Threads : pc[t] \in {"std", "plain"} => ~Provided(match[t])

IInv == /\ Types /\ CallsApart /\ ProgramFiles /\ HelpersLive /\ HelperFiles
        /\ OpenFilesAccounted /\ Refused

-----------------------------------------------------------------------------
(* What the states are made of *)

\* Descriptors that refer to different things are different values.
LEMMA FilesApart ==
    /\ \A n, m : Tmp(n) = Tmp(m) => n = m
    /\ \A n, m : Again(n) = Again(m) => n = m
    /\ \A n, m : Tmp(n) # Again(m)
    /\ \A n : Tmp(n) # Closed /\ Tmp(n) # Std /\ Tmp(n) # Plain
    /\ \A n : Again(n) # Closed /\ Again(n) # Std /\ Again(n) # Plain
    /\ Plain # Closed /\ Plain # Std /\ Closed # Std
<1>1. \A n, m : Tmp(n) = Tmp(m) => n = m
    BY DEF Tmp
<1>2. \A n, m : Again(n) = Again(m) => n = m
    BY DEF Again
<1>3. \A n : Tmp(n).kind = "tmp" /\ Again(n).kind = "again"
    BY DEF Tmp, Again
<1>4. Plain.kind = "plain" /\ Closed.kind = "closed" /\ Std.kind = "std"
    BY DEF Plain, Closed, Std
<1> QED BY <1>1, <1>2, <1>3, <1>4

\* Every such value is one that a descriptor may have.
LEMMA FilesTyped ==
    /\ Closed \in File /\ Std \in File /\ Plain \in File
    /\ \A n \in Helpers : Tmp(n) \in File /\ Again(n) \in File
BY DEF File

\* The program, its threads and its helpers are named apart, and every process
\* has room for its standard input and output.
LEMMA NamesApart ==
    /\ Program \in Procs /\ Helpers \subseteq Procs
    /\ \A h \in Helpers : h # Program /\ h \notin Threads
    /\ Helpers = 1..MaxCalls /\ MaxCalls \in Nat /\ Output \in Nat
    /\ 0 \in Fds /\ 1 \in Fds /\ Fds \subseteq Nat
BY OpenHelperAssumption DEF Program, Procs, Helpers, Fds

\* The lowest free descriptor of a process is one of its own that is free.
LEMMA LowestIsFree ==
    ASSUME NEW p, FreeFds(p) # {}
    PROVE  Lowest(p) \in Fds /\ fds[p][Lowest(p)] = Closed
<1>1. FreeFds(p) \in SUBSET Nat
    BY NamesApart DEF FreeFds
<1>2. Lowest(p) \in FreeFds(p)
    BY <1>1, MinIsLeast DEF Lowest
<1> QED BY <1>2 DEF FreeFds

\* The files of the program stay accounted for by a step that opens none, as
\* long as a call that ends leaves its own closed or is among the failed ones.
LEMMA AccountedKept ==
    ASSUME OpenFilesAccounted,
           \A fd \in Fds, n \in Helpers :
              fds'[Program][fd] = Tmp(n) => fds[Program][fd] = Tmp(n),
           lost \subseteq lost',
           \A u \in Threads :
              pc[u] \in InCall /\ fds'[Program][result[u]] = Tmp(call[u]) =>
                 \/ call[u] \in lost'
                 \/ /\ call'[u] = call[u] /\ result'[u] = result[u]
                    /\ pc'[u] \in InCall
    PROVE  OpenFilesAccounted'
<1> SUFFICES ASSUME NEW fd \in Fds, NEW n \in Helpers,
                    fds'[Program][fd] = Tmp(n), n \notin lost'
             PROVE  \E u \in Threads :
                       /\ call'[u] = n /\ result'[u] = fd
                       /\ pc'[u] \in {"fork", "wait", "replaced"}
    BY DEF OpenFilesAccounted, Program
<1>1. PICK u \in Threads : /\ call[u] = n /\ result[u] = fd
                           /\ pc[u] \in {"fork", "wait", "replaced"}
    BY DEF OpenFilesAccounted
<1> QED BY <1>1 DEF InCall

\* A thread in a call has a number that was given out, which is a helper's.
LEMMA CallsHaveHelpers ==
    ASSUME IInv, NEW u \in Threads
    PROVE  /\ made \in Nat /\ call[u] \in Nat /\ call[u] <= made
           /\ pc[u] \in InCall \/ call[u] # 0 =>
                 call[u] \in Helpers /\ call[u] \notin Threads
<1>1. call[u] \in 0..MaxCalls /\ made \in 0..MaxCalls
    BY DEF IInv, Types
<1>2. pc[u] \in InCall => call[u] # 0
    BY DEF IInv, CallsApart
<1>3. call[u] # 0 => call[u] \in Helpers
    BY <1>1, NamesApart
<1> QED BY <1>1, <1>2, <1>3, NamesApart DEF IInv, CallsApart

\* A descriptor of one process changes, and nothing else that is open.
LEMMA SetFdChanges ==
    ASSUME IInv, NEW p \in Procs, NEW g \in Fds, NEW f \in File,
           SetFd(p, g, f)
    PROVE  /\ fds' \in [Procs -> [Fds -> File]]
           /\ fds'[p][g] = f
           /\ \A k \in Fds : k # g => fds'[p][k] = fds[p][k]
           /\ \A q \in Procs : q # p => fds'[q] = fds[q]
<1>1. fds \in [Procs -> [Fds -> File]]
    BY DEF IInv, Types
<1>2. fds' = [fds EXCEPT ![p][g] = f]
    BY DEF SetFd
<1> QED BY <1>1, <1>2

\* The invariant holds before the first call.
LEMMA InitInvariant == Init => IInv
<1> SUFFICES ASSUME Init PROVE IInv
    OBVIOUS
<1> USE FilesApart, FilesTyped, NamesApart, OpenHelperAssumption
<1>1. Types
    BY DEF Init, Types, Calling, Returned, HelperStates, HowEnded
<1>2. CallsApart
    BY DEF Init, CallsApart, InCall
<1>3. ProgramFiles
    BY DEF Init, ProgramFiles, InCall
<1>4. HelpersLive
    BY DEF Init, HelpersLive, ForkedFirst, ForkedOnce, ReapedFirst,
           AliveIsKnown, Alive
<1>5. HelperFiles
    BY DEF Init, HelperFiles
<1>6. OpenFilesAccounted
    BY DEF Init, OpenFilesAccounted
<1>7. Refused
    BY DEF Init, Refused
<1> QED BY <1>1, <1>2, <1>3, <1>4, <1>5, <1>6, <1>7 DEF IInv

-----------------------------------------------------------------------------
(* A thread's steps *)

\* A call begins: its thread has no file yet.
LEMMA OpenStep ==
    ASSUME IInv, NEW t \in Threads, Open(t)
    PROVE  IInv'
<1> USE NamesApart DEF IInv, Open, Goto
<1>1. Types'
    BY DEF Types, Calling, Returned, HelperStates
<1>2. CallsApart'
    BY DEF Types, CallsApart, InCall
<1>3. ProgramFiles'
    BY DEF Types, ProgramFiles, InCall
<1>4. HelpersLive'
    <2>0. \A u \in Threads : pc[u] \in InCall =>
             call[u] \in Helpers /\ call[u] \notin Threads
        BY CallsHaveHelpers
    <2> USE <2>0 DEF HelpersLive, Types, InCall
    <2>1. ForkedFirst'
        BY DEF ForkedFirst
    <2>2. ForkedOnce'
        BY DEF ForkedOnce
    <2>3. ReapedFirst'
        BY DEF ReapedFirst
    <2>4. AliveIsKnown'
        BY DEF AliveIsKnown, Alive
    <2> QED BY <2>1, <2>2, <2>3, <2>4
<1>5. HelperFiles'
    BY DEF Types, HelperFiles
<1>6. OpenFilesAccounted'
    BY AccountedKept DEF Types, InCall
<1>7. Refused'
    BY DEF Types, Refused, Provided
<1> QED BY <1>1, <1>2, <1>3, <1>4, <1>5, <1>6, <1>7

\* A call gets a temporary file where the program had nothing open, and the
\* number of a helper that has not been forked.
LEMMA TmpFileStep ==
    ASSUME IInv, NEW t \in Threads, TmpFile(t)
    PROVE  IInv'
<1> DEFINE fd == Lowest(Program)
           n == made'
<1>1. pc[t] = "tmpfile" /\ call[t] = 0 /\ n = made + 1 /\ n \in Helpers
    <2>1. made \in Nat /\ made < MaxCalls /\ n = made + 1
        BY CallsHaveHelpers, NamesApart DEF IInv, Types, TmpFile
    <2>2. n \in Helpers
        BY <2>1, NamesApart
    <2> QED BY <2>1, <2>2 DEF IInv, CallsApart, InCall, TmpFile
<1>2. fd \in Fds /\ fds[Program][fd] = Closed
    BY LowestIsFree DEF TmpFile
<1>3. Tmp(n) \in File /\ SetFd(Program, fd, Tmp(n))
    BY <1>1, FilesTyped DEF TmpFile
<1>4. /\ pc'[t] = "fork" /\ call'[t] = n /\ result'[t] = fd
      /\ \A x \in Threads \cup Helpers :
            x # t => pc'[x] = pc[x] /\ result'[x] = result[x]
      /\ \A u \in Threads : u # t => call'[u] = call[u]
    BY DEF IInv, Types, TmpFile, Goto
<1>5. /\ fds' \in [Procs -> [Fds -> File]]
      /\ fds'[Program][fd] = Tmp(n)
      /\ \A g \in Fds : g # fd => fds'[Program][g] = fds[Program][g]
      /\ \A h \in Helpers : fds'[h] = fds[h]
    <2> HIDE DEF fd, n
    <2>1. Program \in Procs /\ \A h \in Helpers : h \in Procs /\ h # Program
        BY NamesApart
    <2> QED BY <1>2, <1>3, <2>1, SetFdChanges
<1>6. UNCHANGED <<env, match, text, offset, status, lost>>
    BY DEF TmpFile
<1>7. t \notin Helpers
    BY NamesApart
<1> HIDE DEF fd, n
<1>8. Types'
    <2>1. pc' = [pc EXCEPT ![t] = "fork"] /\ call' = [call EXCEPT ![t] = n]
          /\ result' = [result EXCEPT ![t] = fd] /\ made' = n
        BY DEF TmpFile, Goto, fd, n
    <2>2. n \in 0..MaxCalls
        BY <1>1, NamesApart
    <2> QED BY <1>2, <1>5, <1>6, <2>1, <2>2, NamesApart
            DEF IInv, Types, Calling
<1>9. CallsApart'
    <2>1. \A u \in Threads : call[u] # n
        BY <1>1 DEF IInv, Types, CallsApart
    <2>2. made \in Nat /\ n \in Nat /\ \A u \in Threads : call[u] \in Nat
        BY <1>1, NamesApart DEF IInv, Types
    <2> QED BY <1>1, <1>4, <2>1, <2>2 DEF IInv, CallsApart, InCall, n
<1>10. ProgramFiles'
    <2>1. \A u \in Threads : u # t /\ pc[u] \in InCall \cup {"plain"} =>
             result[u] # fd /\ result[u] \in Fds
        BY <1>2, FilesApart DEF IInv, Types, ProgramFiles
    <2>2. \A g \in Fds, m \in Helpers : fds'[Program][g] = Tmp(m) => m <= n
        <3> SUFFICES ASSUME NEW g \in Fds, NEW m \in Helpers,
                            fds'[Program][g] = Tmp(m)
                     PROVE  m <= n
            OBVIOUS
        <3>1. CASE g = fd
            BY <1>1, <1>5, <3>1, FilesApart, NamesApart
        <3>2. CASE g # fd
            <4>1. m <= made
                BY <1>5, <3>2 DEF IInv, ProgramFiles
            <4> QED BY <1>1, <4>1, NamesApart DEF IInv, Types
        <3> QED BY <3>1, <3>2
    <2>3. \A g \in Fds, m \in Helpers : fds'[Program][g] # Again(m)
        BY <1>5, FilesApart DEF IInv, ProgramFiles
    <2>4. \A u \in Threads : pc'[u] \in InCall =>
             fds'[Program][result'[u]] = Tmp(call'[u])
        BY <1>4, <1>5, <2>1 DEF IInv, ProgramFiles
    <2>5. \A u \in Threads : pc'[u] = "plain" =>
             /\ u # t /\ pc[u] = "plain" /\ result'[u] = result[u]
             /\ fds'[Program][result'[u]] = Plain
        BY <1>4, <1>5, <2>1 DEF IInv, ProgramFiles
    <2> QED BY <2>2, <2>3, <2>4, <2>5 DEF IInv, ProgramFiles, n
<1>11. HelpersLive'
    <2> USE <1>1, <1>4, <1>6, <1>7 DEF IInv, HelpersLive
    <2>1. ForkedFirst'
        BY NamesApart DEF ForkedFirst
    <2>2. ForkedOnce'
        <3>1. \A h \in Helpers : h > n => pc'[h] = "unborn"
            <4>1. \A h \in Helpers : h > n => h > made
                BY CallsHaveHelpers, NamesApart
            <4>2. \A h \in Helpers : pc'[h] = pc[h]
                OBVIOUS
            <4> HIDE <1>4
            <4> QED BY <4>1, <4>2 DEF ForkedOnce
        <3>2. pc'[n] = "unborn"
            <4>1. n > made /\ n # t
                BY CallsHaveHelpers, NamesApart
            <4> QED BY <4>1 DEF ForkedOnce
        <3>3. \A u \in Threads : u # t /\ pc[u] = "fork" =>
                 call[u] # t /\ call[u] \in Helpers
            BY CallsHaveHelpers DEF InCall
        <3> QED BY <3>1, <3>2, <3>3, NamesApart DEF ForkedOnce, n
    <2>3. ReapedFirst'
        <3>1. \A u \in Threads : u # t /\ pc[u] = "replaced" =>
                 call[u] # t /\ call[u] \in Helpers
            BY CallsHaveHelpers DEF InCall
        <3> QED BY <3>1 DEF ReapedFirst
    <2>4. AliveIsKnown'
        BY DEF AliveIsKnown
    <2> QED BY <2>1, <2>2, <2>3, <2>4
<1>12. HelperFiles'
    BY <1>4, <1>5, <1>6, <1>7 DEF IInv, HelperFiles
<1>13. OpenFilesAccounted'
    <2> SUFFICES ASSUME NEW g \in Fds, NEW m \in Helpers,
                        fds'[Program][g] = Tmp(m), m \notin lost
                 PROVE  \E u \in Threads :
                           /\ call'[u] = m /\ result'[u] = g
                           /\ pc'[u] \in {"fork", "wait", "replaced"}
        BY <1>6 DEF OpenFilesAccounted, Program
    <2>1. CASE g = fd
        <3>1. m = n
            BY <1>5, <2>1, FilesApart
        <3> QED BY <1>4, <2>1, <3>1
    <2>2. CASE g # fd
        <3>1. PICK u \in Threads : /\ call[u] = m /\ result[u] = g
                                   /\ pc[u] \in {"fork", "wait", "replaced"}
            BY <1>5, <2>2 DEF IInv, OpenFilesAccounted
        <3> QED BY <1>1, <1>4, <3>1
    <2> QED BY <2>1, <2>2
<1>14. Refused'
    BY <1>4, <1>6 DEF IInv, Refused, Provided
<1> QED BY <1>8, <1>9, <1>10, <1>11, <1>12, <1>13, <1>14 DEF IInv

\* A call without a temporary file fails.
LEMMA TmpFileFailsStep ==
    ASSUME IInv, NEW t \in Threads, TmpFileFails(t)
    PROVE  IInv'
<1> USE NamesApart DEF IInv, TmpFileFails, Goto
<1>1. Types'
    BY DEF Types, Calling, Returned, HelperStates, HowEnded
<1>2. CallsApart'
    BY DEF Types, CallsApart, InCall
<1>3. ProgramFiles'
    BY DEF Types, CallsApart, ProgramFiles, InCall
<1>4. HelpersLive'
    <2>0. \A u \in Threads : pc[u] \in InCall =>
             call[u] \in Helpers /\ call[u] \notin Threads
        BY CallsHaveHelpers
    <2> USE <2>0 DEF HelpersLive, Types, InCall
    <2>1. ForkedFirst'
        BY DEF ForkedFirst
    <2>2. ForkedOnce'
        BY DEF ForkedOnce
    <2>3. ReapedFirst'
        BY DEF ReapedFirst, Alive
    <2>4. AliveIsKnown'
        BY DEF AliveIsKnown, Alive
    <2> QED BY <2>1, <2>2, <2>3, <2>4
<1>5. HelperFiles'
    BY DEF Types, HelperFiles, Alive
<1>6. OpenFilesAccounted'
    BY AccountedKept DEF Types, CallsApart, ProgramFiles, InCall
<1>7. Refused'
    BY DEF Types, Refused, Provided
<1> QED BY <1>1, <1>2, <1>3, <1>4, <1>5, <1>6, <1>7

\* The helper of the call has the files of the program, none opened again.
LEMMA ForkStep ==
    ASSUME IInv, NEW t \in Threads, Fork(t)
    PROVE  IInv'
<1> DEFINE n == call[t]
<1>0. n \in Helpers /\ n \notin Threads /\ n <= made /\ pc[n] = "unborn"
    BY NamesApart DEF IInv, Types, CallsApart, InCall, Fork, HelpersLive,
                      ForkedOnce
<1>1. /\ pc[t] = "fork" /\ pc'[t] = "wait" /\ pc'[n] = "forked"
      /\ \A x \in Threads \cup Helpers : x \notin {t, n} => pc'[x] = pc[x]
    BY <1>0 DEF IInv, Types, Fork
<1>2. /\ fds'[n] = fds[Program]
      /\ \A p \in Procs : p # n => fds'[p] = fds[p]
    BY <1>0, NamesApart DEF IInv, Types, Fork
<1>3. \A x \in Threads \cup Helpers : x # n => result'[x] = result[x]
    BY <1>0 DEF IInv, Types, Fork
<1>4. UNCHANGED <<env, match, call, text, offset, status, made, lost>>
    BY DEF Fork
<1>5. Types'
    BY <1>0, NamesApart DEF IInv, Types, Fork, Calling, HelperStates
<1> HIDE DEF n
<1>6. CallsApart'
    BY <1>0, <1>1, <1>4 DEF IInv, CallsApart, InCall
<1>7. ProgramFiles'
    BY <1>0, <1>1, <1>2, <1>3, <1>4, NamesApart DEF IInv, ProgramFiles, InCall
<1>8. HelpersLive'
    <2> USE <1>0, <1>1, <1>4, NamesApart DEF IInv, HelpersLive
    <2>1. ForkedFirst'
        BY DEF ForkedFirst, n
    <2>2. ForkedOnce'
        <3>1. \A h \in Helpers : h > made' => pc'[h] = "unborn"
            <4> SUFFICES ASSUME NEW h \in Helpers, h > made
                         PROVE  pc'[h] = "unborn"
                OBVIOUS
            <4>1. h # n /\ h # t
                BY DEF Types
            <4> QED BY <4>1 DEF ForkedOnce
        <3>2. ASSUME NEW u \in Threads, pc'[u] = "fork"
              PROVE  pc'[call'[u]] = "unborn"
            <4>1. u # t /\ pc[u] = "fork"
                BY <3>2
            <4>2. call[u] \in Helpers
                BY <4>1 DEF Types, CallsApart, InCall
            <4>3. call[u] # n /\ call[u] # t
                BY <4>1, <4>2 DEF CallsApart, n
            <4> QED BY <4>1, <4>2, <4>3 DEF ForkedOnce
        <3> QED BY <3>1, <3>2 DEF ForkedOnce
    <2>3. ReapedFirst'
        <3> SUFFICES ASSUME NEW u \in Threads, pc'[u] = "replaced"
                     PROVE  pc'[call'[u]] = "reaped" /\ status'[call'[u]] = "ok"
            BY DEF ReapedFirst
        <3>1. u # t /\ pc[u] = "replaced"
            OBVIOUS
        <3>2. call[u] \in Helpers
            BY <3>1 DEF Types, CallsApart, InCall
        <3>3. call[u] # n /\ call[u] # t
            BY <3>1, <3>2 DEF ReapedFirst
        <3> QED BY <3>1, <3>2, <3>3 DEF ReapedFirst
    <2>4. AliveIsKnown'
        <3>1. \A h \in Helpers : h # n /\ pc'[h] \in Alive => pc[h] \in Alive
            OBVIOUS
        <3>2. \A u \in Threads : pc[u] = "wait" => u # t /\ pc'[u] = "wait"
            OBVIOUS
        <3>3. call'[t] = n
            BY DEF n
        <3> QED BY <3>1, <3>2, <3>3 DEF AliveIsKnown
    <2> QED BY <2>1, <2>2, <2>3, <2>4
<1>9. HelperFiles'
    <2>1. \A h \in Helpers : h # n => /\ pc'[h] = pc[h] /\ fds'[h] = fds[h]
                                      /\ result'[h] = result[h]
        BY <1>1, <1>2, <1>3, NamesApart
    <2>2. \A fd \in Fds, m \in Helpers : fds'[n][fd] # Again(m)
        BY <1>2 DEF IInv, ProgramFiles
    <2> QED BY <2>1, <2>2, <1>1, <1>4 DEF IInv, HelperFiles
<1>10. OpenFilesAccounted'
    BY <1>0, <1>1, <1>2, <1>3, <1>4, AccountedKept, NamesApart
       DEF IInv, InCall
<1>11. Refused'
    BY <1>0, <1>1, <1>4 DEF IInv, Refused, Provided
<1> QED BY <1>5, <1>6, <1>7, <1>8, <1>9, <1>10, <1>11 DEF IInv

\* A call whose fork fails closes its own file and no other.
LEMMA ForkFailsStep ==
    ASSUME IInv, NEW t \in Threads, ForkFails(t)
    PROVE  IInv'
<1> USE NamesApart DEF IInv, ForkFails, Goto, SetFd
<1>1. Types'
    BY FilesTyped DEF Types, Calling, Returned, HelperStates, HowEnded
<1>2. CallsApart'
    BY DEF Types, CallsApart, InCall
<1>3. ProgramFiles'
    BY FilesApart DEF Types, CallsApart, ProgramFiles, InCall
<1>4. HelpersLive'
    <2>0. \A u \in Threads : pc[u] \in InCall =>
             call[u] \in Helpers /\ call[u] \notin Threads
        BY CallsHaveHelpers
    <2> USE <2>0 DEF HelpersLive, Types, InCall
    <2>1. ForkedFirst'
        BY DEF ForkedFirst
    <2>2. ForkedOnce'
        BY DEF ForkedOnce
    <2>3. ReapedFirst'
        BY DEF ReapedFirst, Alive
    <2>4. AliveIsKnown'
        BY DEF AliveIsKnown, Alive
    <2> QED BY <2>1, <2>2, <2>3, <2>4
<1>5. HelperFiles'
    BY FilesApart DEF Types, HelperFiles, Alive
<1>6. OpenFilesAccounted'
    BY FilesApart, AccountedKept DEF Types, CallsApart, ProgramFiles, InCall
<1>7. Refused'
    BY DEF Types, Refused, Provided
<1> QED BY <1>1, <1>2, <1>3, <1>4, <1>5, <1>6, <1>7

\* The call gets how its own helper has ended.
LEMMA WaitStep ==
    ASSUME IInv, NEW t \in Threads, Wait(t)
    PROVE  IInv'
<1> DEFINE n == call[t]
<1>0. n \in Helpers /\ n \notin Threads
    BY NamesApart DEF IInv, Types, CallsApart, InCall, Wait
<1>1. /\ pc[t] = "wait" /\ pc[n] = "zombie" /\ pc'[n] = "reaped"
      /\ \A x \in Threads \cup Helpers : x \notin {t, n} => pc'[x] = pc[x]
    BY <1>0 DEF IInv, Types, Wait
<1>2. \/ pc'[t] = "replaced" /\ status[n] = "ok" /\ lost' = lost
      \/ pc'[t] = "failed" /\ lost' = lost \cup {n}
    BY <1>0 DEF IInv, Types, Wait
<1>3. UNCHANGED <<env, fds, match, call, result, text, offset, status, made>>
    BY DEF Wait
<1>4. Types'
    <2>1. pc' \in [Threads \cup Helpers ->
                      Calling \cup Returned \cup HelperStates]
        BY DEF IInv, Types, Wait, Returned, HelperStates
    <2>2. \A u \in Threads : pc'[u] \in Calling \cup Returned
        BY <1>0, <1>1, <1>2 DEF IInv, Types, Returned
    <2>3. \A h \in Helpers : pc'[h] \in HelperStates
        BY <1>1, NamesApart DEF IInv, Types, HelperStates
    <2>4. lost' \subseteq Helpers
        BY <1>0, <1>2 DEF IInv, Types
    <2> QED BY <1>3, <2>1, <2>2, <2>3, <2>4 DEF IInv, Types
<1> HIDE DEF n
<1>5. \A u \in Threads : u # t /\ pc[u] \in InCall =>
         call[u] \in Helpers /\ call[u] # n /\ call[u] # t
    BY CallsHaveHelpers DEF IInv, CallsApart, n
<1>6. CallsApart'
    BY <1>0, <1>1, <1>2, <1>3 DEF IInv, CallsApart, InCall
<1>7. ProgramFiles'
    BY <1>0, <1>1, <1>2, <1>3 DEF IInv, ProgramFiles, InCall
<1>8. HelpersLive'
    <2> USE <1>0, <1>1, <1>2, <1>3 DEF IInv, HelpersLive
    <2>1. ForkedFirst'
        <3>1. \A h \in Helpers : pc'[h] = "unborn" => h # n /\ pc[h] = "unborn"
            BY NamesApart
        <3> QED BY <3>1 DEF ForkedFirst, n
    <2>2. ForkedOnce'
        <3>1. \A h \in Helpers : h > made => h # n /\ pc'[h] = "unborn"
            BY NamesApart DEF ForkedOnce
        <3>2. \A u \in Threads : pc'[u] = "fork" => u # t /\ pc[u] = "fork"
            OBVIOUS
        <3> QED BY <1>5, <3>1, <3>2 DEF ForkedOnce, InCall
    <2>3. ReapedFirst'
        <3>1. \A u \in Threads :
                 u # t /\ pc'[u] = "replaced" => pc[u] = "replaced"
            OBVIOUS
        <3> QED BY <1>5, <3>1 DEF ReapedFirst, InCall, n
    <2>4. AliveIsKnown'
        <3> SUFFICES ASSUME NEW h \in Helpers, pc'[h] \in Alive, h \notin lost'
                     PROVE  \E u \in Threads : call'[u] = h /\ pc'[u] = "wait"
            BY DEF AliveIsKnown
        <3>1. h # n /\ pc[h] \in Alive /\ h \notin lost
            BY NamesApart DEF Alive
        <3>2. PICK u \in Threads : call[u] = h /\ pc[u] = "wait"
            BY <3>1 DEF AliveIsKnown
        <3> QED BY <3>1, <3>2 DEF n
    <2> QED BY <2>1, <2>2, <2>3, <2>4
<1>9. HelperFiles'
    <2>1. \A h \in Helpers : h # n => pc'[h] = pc[h]
        BY <1>1, NamesApart
    <2>2. pc[n] \notin Alive
        BY <1>1 DEF Alive
    <2> QED BY <1>0, <1>1, <1>3, <2>1, <2>2 DEF IInv, HelperFiles
<1>10. OpenFilesAccounted'
    <2>1. \A u \in Threads :
             pc[u] \in InCall => call[u] \in lost' \/ pc'[u] \in InCall
        BY <1>0, <1>1, <1>2 DEF InCall, n
    <2>2. lost \subseteq lost'
        BY <1>2
    <2> QED BY <1>3, <2>1, <2>2, AccountedKept DEF IInv
<1>11. Refused'
    BY <1>0, <1>1, <1>2, <1>3 DEF IInv, Refused, Provided
<1> QED BY <1>4, <1>6, <1>7, <1>8, <1>9, <1>10, <1>11 DEF IInv

\* The call leaves its file open, and is among the failed ones.
LEMMA WaitFailsStep ==
    ASSUME IInv, NEW t \in Threads, pc[t] = "wait", WaitReturnsError(t)
    PROVE  IInv'
<1> USE NamesApart DEF IInv, WaitReturnsError, Goto
<1>0. call[t] \in Helpers
    BY DEF Types, CallsApart, InCall
<1>1. Types'
    BY <1>0 DEF Types, Calling, Returned, HelperStates, HowEnded
<1>2. CallsApart'
    BY <1>0 DEF Types, CallsApart, InCall
<1>3. ProgramFiles'
    BY <1>0 DEF Types, CallsApart, ProgramFiles, InCall
<1>4. HelpersLive'
    <2>0. \A u \in Threads : pc[u] \in InCall =>
             call[u] \in Helpers /\ call[u] \notin Threads
        BY CallsHaveHelpers
    <2> USE <1>0, <2>0 DEF HelpersLive, Types, InCall
    <2>1. ForkedFirst'
        BY DEF ForkedFirst
    <2>2. ForkedOnce'
        BY DEF ForkedOnce
    <2>3. ReapedFirst'
        BY DEF ReapedFirst, Alive
    <2>4. AliveIsKnown'
        BY DEF AliveIsKnown, Alive
    <2> QED BY <2>1, <2>2, <2>3, <2>4
<1>5. HelperFiles'
    BY <1>0 DEF Types, HelperFiles, Alive
<1>6. OpenFilesAccounted'
    BY <1>0, AccountedKept DEF Types, CallsApart, ProgramFiles, InCall
<1>7. Refused'
    BY <1>0 DEF Types, Refused, Provided
<1> QED BY <1>1, <1>2, <1>3, <1>4, <1>5, <1>6, <1>7

\* The file itself is opened where the program had nothing open.
LEMMA RealOpenStep ==
    ASSUME IInv, NEW t \in Threads, RealOpen(t)
    PROVE  IInv'
<1> USE NamesApart DEF IInv, RealOpen, Goto, SetFd
<1>0. Lowest(Program) \in Fds /\ fds[Program][Lowest(Program)] = Closed
    BY LowestIsFree
<1>1. Types'
    BY FilesTyped, <1>0 DEF Types, Calling, Returned, HelperStates, HowEnded
<1>2. CallsApart'
    BY <1>0 DEF Types, CallsApart, InCall
<1>3. ProgramFiles'
    BY FilesApart, <1>0 DEF Types, CallsApart, ProgramFiles, InCall
<1>4. HelpersLive'
    <2>0. \A u \in Threads : pc[u] \in InCall =>
             call[u] \in Helpers /\ call[u] \notin Threads
        BY CallsHaveHelpers
    <2> USE <1>0, <2>0 DEF HelpersLive, Types, InCall
    <2>1. ForkedFirst'
        BY DEF ForkedFirst
    <2>2. ForkedOnce'
        BY DEF ForkedOnce
    <2>3. ReapedFirst'
        BY DEF ReapedFirst, Alive
    <2>4. AliveIsKnown'
        BY DEF AliveIsKnown, Alive
    <2> QED BY <2>1, <2>2, <2>3, <2>4
<1>5. HelperFiles'
    BY FilesApart, <1>0 DEF Types, HelperFiles, Alive
<1>6. OpenFilesAccounted'
    BY FilesApart, <1>0, AccountedKept
       DEF Types, CallsApart, ProgramFiles, InCall
<1>7. Refused'
    BY <1>0 DEF Types, Refused, Provided
<1> QED BY <1>1, <1>2, <1>3, <1>4, <1>5, <1>6, <1>7

\* No file is opened.
LEMMA RealOpenFailsStep ==
    ASSUME IInv, NEW t \in Threads, RealOpenFails(t)
    PROVE  IInv'
<1> USE NamesApart DEF IInv, RealOpenFails, Goto
<1>1. Types'
    BY DEF Types, Calling, Returned, HelperStates, HowEnded
<1>2. CallsApart'
    BY DEF Types, CallsApart, InCall
<1>3. ProgramFiles'
    BY DEF Types, CallsApart, ProgramFiles, InCall
<1>4. HelpersLive'
    <2>0. \A u \in Threads : pc[u] \in InCall =>
             call[u] \in Helpers /\ call[u] \notin Threads
        BY CallsHaveHelpers
    <2> USE <2>0 DEF HelpersLive, Types, InCall
    <2>1. ForkedFirst'
        BY DEF ForkedFirst
    <2>2. ForkedOnce'
        BY DEF ForkedOnce
    <2>3. ReapedFirst'
        BY DEF ReapedFirst, Alive
    <2>4. AliveIsKnown'
        BY DEF AliveIsKnown, Alive
    <2> QED BY <2>1, <2>2, <2>3, <2>4
<1>5. HelperFiles'
    BY DEF Types, HelperFiles, Alive
<1>6. OpenFilesAccounted'
    BY AccountedKept DEF Types, CallsApart, ProgramFiles, InCall
<1>7. Refused'
    BY DEF Types, Refused, Provided
<1> QED BY <1>1, <1>2, <1>3, <1>4, <1>5, <1>6, <1>7

\* What a thread closes is what its call has returned.
LEMMA CloseStep ==
    ASSUME IInv, NEW t \in Threads, Close(t)
    PROVE  IInv'
<1> USE NamesApart DEF IInv, Close, Goto, SetFd
<1>1. Types'
    <2>1. fds' \in [Procs -> [Fds -> File]]
        <3>1. CASE pc[t] = "failed"
            BY FilesTyped, <3>1 DEF Types
        <3>2. CASE pc[t] # "failed"
            <4>1. SetFd(Program, result[t], Closed) /\ result[t] \in Fds
                BY <3>2 DEF Types
            <4> HIDE DEF Close, IInv, SetFd
            <4> QED BY <4>1, FilesTyped, SetFdChanges
        <3> QED BY <3>1, <3>2
    <2>2. pc' \in [Threads \cup Helpers ->
                      Calling \cup Returned \cup HelperStates]
        BY FilesTyped DEF Types, Returned
    <2>3. /\ \A u \in Threads : pc'[u] \in Calling \cup Returned
          /\ \A g \in Helpers : pc'[g] \in HelperStates
        BY FilesTyped DEF Types, Returned
    <2> QED BY <2>1, <2>2, <2>3 DEF Types
<1>2. CallsApart'
    BY DEF Types, CallsApart, InCall
<1>3. ProgramFiles'
    BY FilesApart DEF Types, CallsApart, ProgramFiles, InCall
<1>4. HelpersLive'
    <2>0. \A u \in Threads : pc[u] \in InCall =>
             call[u] \in Helpers /\ call[u] \notin Threads
        BY CallsHaveHelpers
    <2> USE <2>0 DEF HelpersLive, Types, InCall
    <2>1. ForkedFirst'
        BY DEF ForkedFirst
    <2>2. ForkedOnce'
        BY DEF ForkedOnce
    <2>3. ReapedFirst'
        BY DEF ReapedFirst, Alive
    <2>4. AliveIsKnown'
        BY DEF AliveIsKnown, Alive
    <2> QED BY <2>1, <2>2, <2>3, <2>4
<1>5. HelperFiles'
    BY FilesApart DEF Types, HelperFiles, Alive
<1>6. OpenFilesAccounted'
    BY FilesApart, AccountedKept DEF Types, CallsApart, ProgramFiles, InCall
<1>7. Refused'
    BY DEF Types, Refused, Provided
<1> QED BY <1>1, <1>2, <1>3, <1>4, <1>5, <1>6, <1>7

-----------------------------------------------------------------------------
(* A helper's steps *)

\* A helper that the program reaps has ended.
LEMMA ReapStep ==
    ASSUME IInv, NEW h \in Helpers, Reap(h)
    PROVE  IInv'
<1> USE NamesApart DEF IInv, Reap, Goto
<1>1. Types'
    BY DEF Types, Calling, Returned, HelperStates, HowEnded
<1>2. CallsApart'
    BY DEF Types, CallsApart, InCall
<1>3. ProgramFiles'
    BY DEF Types, CallsApart, ProgramFiles, InCall
<1>4. HelpersLive'
    <2>0. \A u \in Threads : pc[u] \in InCall =>
             call[u] \in Helpers /\ call[u] \notin Threads
        BY CallsHaveHelpers
    <2> USE <2>0 DEF HelpersLive, Types, InCall
    <2>1. ForkedFirst'
        BY DEF ForkedFirst
    <2>2. ForkedOnce'
        BY DEF ForkedOnce
    <2>3. ReapedFirst'
        BY DEF ReapedFirst, Alive
    <2>4. AliveIsKnown'
        BY DEF AliveIsKnown, Alive
    <2> QED BY <2>1, <2>2, <2>3, <2>4
<1>5. HelperFiles'
    BY DEF Types, HelperFiles, Alive
<1>6. OpenFilesAccounted'
    BY AccountedKept DEF Types, CallsApart, ProgramFiles, InCall
<1>7. Refused'
    BY DEF Types, Refused, Provided
<1> QED BY <1>1, <1>2, <1>3, <1>4, <1>5, <1>6, <1>7

\* A helper closes its own standard input and output.
LEMMA CloseStdioStep ==
    ASSUME IInv, NEW h \in Helpers, CloseStdio(h)
    PROVE  IInv'
<1> USE NamesApart DEF IInv, CloseStdio, Goto
<1>1. Types'
    BY FilesTyped DEF Types, Calling, Returned, HelperStates, HowEnded
<1>2. CallsApart'
    BY DEF Types, CallsApart, InCall
<1>3. ProgramFiles'
    BY FilesApart DEF Types, CallsApart, ProgramFiles, InCall
<1>4. HelpersLive'
    <2>0. \A u \in Threads : pc[u] \in InCall =>
             call[u] \in Helpers /\ call[u] \notin Threads
        BY CallsHaveHelpers
    <2> USE <2>0 DEF HelpersLive, Types, InCall
    <2>1. ForkedFirst'
        BY DEF ForkedFirst
    <2>2. ForkedOnce'
        BY DEF ForkedOnce
    <2>3. ReapedFirst'
        BY DEF ReapedFirst, Alive
    <2>4. AliveIsKnown'
        BY DEF AliveIsKnown, Alive
    <2> QED BY <2>1, <2>2, <2>3, <2>4
<1>5. HelperFiles'
    BY FilesApart DEF Types, HelperFiles, Alive
<1>6. OpenFilesAccounted'
    BY FilesApart, AccountedKept DEF Types, CallsApart, ProgramFiles, InCall
<1>7. Refused'
    BY DEF Types, Refused, Provided
<1> QED BY <1>1, <1>2, <1>3, <1>4, <1>5, <1>6, <1>7

\* A helper opens its own file again.
LEMMA ReopenStep ==
    ASSUME IInv, NEW h \in Helpers, Reopen(h)
    PROVE  IInv'
<1> USE NamesApart DEF IInv, Reopen, Goto, SetFd
<1>0. Lowest(h) \in Fds /\ fds[h][Lowest(h)] = Closed
    BY LowestIsFree DEF FreeFds, HelperFiles
<1>1. Types'
    <2>1. fds' \in [Procs -> [Fds -> File]]
        BY FilesTyped, <1>0 DEF Types
    <2>2. pc' \in [Threads \cup Helpers ->
                      Calling \cup Returned \cup HelperStates]
        BY FilesTyped DEF Types, HelperStates
    <2>3. /\ \A u \in Threads : pc'[u] \in Calling \cup Returned
          /\ \A g \in Helpers : pc'[g] \in HelperStates
        BY FilesTyped DEF Types, HelperStates
    <2>4. /\ result' = [result EXCEPT ![h] = Lowest(h)]
          /\ text' = [text EXCEPT ![h] = 0]
          /\ UNCHANGED <<env, match, call, offset, status, made, lost>>
        OBVIOUS
    <2>5. result' \in [Threads \cup Helpers -> Fds]
        BY <1>0, <2>4 DEF Types
    <2>6. text' \in [Helpers -> 0..Output]
        BY <2>4 DEF Types
    <2> HIDE DEF Reopen
    <2> QED BY <2>1, <2>2, <2>3, <2>4, <2>5, <2>6 DEF Types
<1>2. CallsApart'
    BY <1>0 DEF Types, CallsApart, InCall
<1>3. ProgramFiles'
    BY FilesApart, <1>0 DEF Types, CallsApart, ProgramFiles, InCall
<1>4. HelpersLive'
    <2>0. \A u \in Threads : pc[u] \in InCall =>
             call[u] \in Helpers /\ call[u] \notin Threads
        BY CallsHaveHelpers
    <2> USE <1>0, <2>0 DEF HelpersLive, Types, InCall
    <2>1. ForkedFirst'
        BY DEF ForkedFirst
    <2>2. ForkedOnce'
        BY DEF ForkedOnce
    <2>3. ReapedFirst'
        BY DEF ReapedFirst, Alive
    <2>4. AliveIsKnown'
        BY DEF AliveIsKnown, Alive
    <2> QED BY <2>1, <2>2, <2>3, <2>4
<1>5. HelperFiles'
    BY FilesApart, <1>0 DEF Types, HelperFiles, Alive
<1>6. OpenFilesAccounted'
    BY FilesApart, <1>0, AccountedKept
       DEF Types, CallsApart, ProgramFiles, InCall
<1>7. Refused'
    BY <1>0 DEF Types, Refused, Provided
<1> QED BY <1>1, <1>2, <1>3, <1>4, <1>5, <1>6, <1>7

\* What a helper has opened again becomes its standard output.
LEMMA WireStep ==
    ASSUME IInv, NEW h \in Helpers, Wire(h)
    PROVE  IInv'
<1> USE NamesApart DEF IInv, Wire, Goto, SetFd
<1>0. fds[h][result[h]] = Again(h)
    BY DEF HelperFiles
<1>1. Types'
    <2>1. SetFd(h, 1, Again(h))
        BY <1>0
    <2>2. fds' \in [Procs -> [Fds -> File]]
        <3> HIDE DEF Wire, IInv, SetFd
        <3> QED BY <2>1, FilesTyped, SetFdChanges
    <2>3. /\ pc[h] = "opened" /\ pc' = [pc EXCEPT ![h] = "wired"]
          /\ UNCHANGED <<env, match, call, result, text, offset, status, made,
                         lost>>
        OBVIOUS
    <2> HIDE DEF Wire
    <2> QED BY <2>2, <2>3 DEF Types, HelperStates
<1>2. CallsApart'
    BY <1>0 DEF Types, CallsApart, InCall
<1>3. ProgramFiles'
    BY FilesApart, <1>0 DEF Types, CallsApart, ProgramFiles, InCall
<1>4. HelpersLive'
    <2>0. \A u \in Threads : pc[u] \in InCall =>
             call[u] \in Helpers /\ call[u] \notin Threads
        BY CallsHaveHelpers
    <2> USE <1>0, <2>0 DEF HelpersLive, Types, InCall
    <2>1. ForkedFirst'
        BY DEF ForkedFirst
    <2>2. ForkedOnce'
        BY DEF ForkedOnce
    <2>3. ReapedFirst'
        BY DEF ReapedFirst, Alive
    <2>4. AliveIsKnown'
        BY DEF AliveIsKnown, Alive
    <2> QED BY <2>1, <2>2, <2>3, <2>4
<1>5. HelperFiles'
    BY FilesApart, <1>0 DEF Types, HelperFiles, Alive
<1>6. OpenFilesAccounted'
    BY FilesApart, <1>0, AccountedKept
       DEF Types, CallsApart, ProgramFiles, InCall
<1>7. Refused'
    BY <1>0 DEF Types, Refused, Provided
<1> QED BY <1>1, <1>2, <1>3, <1>4, <1>5, <1>6, <1>7

\* The command runs with the files of its helper.
LEMMA ExecStep ==
    ASSUME IInv, NEW h \in Helpers, Exec(h)
    PROVE  IInv'
<1> USE NamesApart DEF IInv, Exec, Goto
<1>1. Types'
    BY DEF Types, HelperStates, HowEnded
<1>2. CallsApart'
    BY DEF Types, CallsApart, InCall
<1>3. ProgramFiles'
    BY DEF Types, CallsApart, ProgramFiles, InCall
<1>4. HelpersLive'
    <2>0. \A u \in Threads : pc[u] \in InCall =>
             call[u] \in Helpers /\ call[u] \notin Threads
        BY CallsHaveHelpers
    <2> USE <2>0 DEF HelpersLive, Types, InCall
    <2>1. ForkedFirst'
        BY DEF ForkedFirst
    <2>2. ForkedOnce'
        BY DEF ForkedOnce
    <2>3. ReapedFirst'
        BY DEF ReapedFirst, Alive
    <2>4. AliveIsKnown'
        BY DEF AliveIsKnown, Alive
    <2> QED BY <2>1, <2>2, <2>3, <2>4
<1>5. HelperFiles'
    BY DEF Types, HelperFiles, Alive
<1>6. OpenFilesAccounted'
    BY AccountedKept DEF Types, CallsApart, ProgramFiles, InCall
<1>7. Refused'
    BY DEF Types, Refused, Provided
<1> QED BY <1>1, <1>2, <1>3, <1>4, <1>5, <1>6, <1>7

\* A helper that ends has nothing open any more, and tells how it has ended.
LEMMA EndsStep ==
    ASSUME IInv, NEW h \in Helpers, NEW how \in HowEnded,
           pc[h] \in Alive, Ends(h, how)
    PROVE  IInv'
<1> USE NamesApart DEF IInv, Ends, Goto
<1>1. Types'
    BY FilesTyped DEF Types, HelperStates, HowEnded
<1>2. CallsApart'
    BY DEF Types, CallsApart, InCall
<1>3. ProgramFiles'
    BY FilesApart DEF Types, CallsApart, ProgramFiles, InCall
<1>4. HelpersLive'
    <2>0. \A u \in Threads : pc[u] \in InCall =>
             call[u] \in Helpers /\ call[u] \notin Threads
        BY CallsHaveHelpers
    <2> USE <2>0 DEF HelpersLive, Types, InCall
    <2>1. ForkedFirst'
        BY DEF ForkedFirst
    <2>2. ForkedOnce'
        <3>1. \A g \in Helpers : g > made' => pc'[g] = "unborn"
            BY DEF ForkedOnce, Alive
        <3>2. ASSUME NEW u \in Threads, pc'[u] = "fork"
              PROVE  pc'[call'[u]] = "unborn"
            <4>1. pc[u] = "fork" /\ call[u] \in Helpers
                BY <3>2
            <4> QED BY <4>1 DEF ForkedOnce, Alive
        <3> QED BY <3>1, <3>2 DEF ForkedOnce
    <2>3. ReapedFirst'
        BY DEF ReapedFirst, Alive
    <2>4. AliveIsKnown'
        BY DEF AliveIsKnown, Alive
    <2> QED BY <2>1, <2>2, <2>3, <2>4
<1>5. HelperFiles'
    BY FilesApart DEF Types, HelperFiles, Alive
<1>6. OpenFilesAccounted'
    BY FilesApart, AccountedKept DEF Types, CallsApart, ProgramFiles, InCall
<1>7. Refused'
    BY DEF Types, Refused, Provided
<1> QED BY <1>1, <1>2, <1>3, <1>4, <1>5, <1>6, <1>7

\* A command prints to its own file, not through the program's descriptor.
LEMMA WritesStep ==
    ASSUME IInv, NEW h \in Helpers, Writes(h)
    PROVE  IInv'
<1> USE NamesApart DEF IInv, Writes
<1>0. /\ text[h] < Output
      /\ text' = [text EXCEPT ![h] = @ + 1]
      /\ UNCHANGED offset
    <2>1. fds[h][1] = Again(h)
        BY DEF HelperFiles
    <2>2. Again(h).kind = "again" /\ Again(h).file = h
        BY DEF Again
    <2> QED BY <2>1, <2>2
<1>1. Types'
    <2>1. text[h] + 1 \in 0..Output
        BY <1>0 DEF Types
    <2>2. text' \in [Helpers -> 0..Output]
        <3>1. text \in [Helpers -> 0..Output]
            BY DEF Types
        <3> HIDE DEF Writes, IInv
        <3> QED BY <1>0, <2>1, <3>1
    <2>3. UNCHANGED <<env, fds, pc, match, call, result, offset, status, made,
                      lost>>
        BY <1>0
    <2> HIDE DEF Writes
    <2> QED BY <2>2, <2>3 DEF Types
<1>2. CallsApart'
    BY <1>0 DEF Types, CallsApart, InCall
<1>3. ProgramFiles'
    BY <1>0 DEF Types, CallsApart, ProgramFiles, InCall
<1>4. HelpersLive'
    <2>0. \A u \in Threads : pc[u] \in InCall =>
             call[u] \in Helpers /\ call[u] \notin Threads
        BY CallsHaveHelpers
    <2> USE <1>0, <2>0 DEF HelpersLive, Types, InCall
    <2>1. ForkedFirst'
        BY DEF ForkedFirst
    <2>2. ForkedOnce'
        BY DEF ForkedOnce
    <2>3. ReapedFirst'
        BY DEF ReapedFirst, Alive
    <2>4. AliveIsKnown'
        BY DEF AliveIsKnown, Alive
    <2> QED BY <2>1, <2>2, <2>3, <2>4
<1>5. HelperFiles'
    BY <1>0 DEF Types, HelperFiles, Alive
<1>6. OpenFilesAccounted'
    BY <1>0, AccountedKept DEF Types, CallsApart, ProgramFiles, InCall
<1>7. Refused'
    BY <1>0 DEF Types, Refused, Provided
<1> QED BY <1>1, <1>2, <1>3, <1>4, <1>5, <1>6, <1>7

-----------------------------------------------------------------------------
(* The theorems *)

\* The invariant is kept by every step.
LEMMA NextInvariant == IInv /\ [Next]_vars => IInv'
<1> SUFFICES ASSUME IInv, [Next]_vars PROVE IInv'
    OBVIOUS
<1>1. ASSUME NEW t \in Threads, Thread(t) PROVE IInv'
    BY <1>1, TmpFileStep, TmpFileFailsStep, ForkStep, ForkFailsStep, WaitStep,
       WaitFailsStep, RealOpenStep, RealOpenFailsStep DEF Thread, WaitFails
<1>2. ASSUME NEW t \in Threads, Open(t) \/ WaitInterrupted(t) \/ Close(t)
      PROVE  IInv'
    BY <1>2, OpenStep, WaitFailsStep, CloseStep DEF WaitInterrupted
<1>3. ASSUME NEW h \in Helpers, pc[h] \in Alive,
             \E how \in HowEnded : Ends(h, how)
      PROVE  IInv'
    BY <1>3, EndsStep
<1>4. ASSUME NEW h \in Helpers, Helper(h) PROVE IInv'
    <2>1. CASE ReopenFails(h)
        BY <1>3, <2>1 DEF ReopenFails, Alive, HowEnded
    <2>2. CASE ExecFails(h)
        BY <1>3, <2>2 DEF ExecFails, Alive, HowEnded
    <2>3. CASE CloseStdio(h) \/ Reopen(h) \/ Wire(h) \/ Exec(h)
        BY <2>3, CloseStdioStep, ReopenStep, WireStep, ExecStep
    <2> QED BY <1>4, <2>1, <2>2, <2>3 DEF Helper
<1>5. ASSUME NEW h \in Helpers, CommandEnds(h) \/ Killed(h) PROVE IInv'
    BY <1>3, <1>5 DEF CommandEnds, Killed, Alive, HowEnded
<1>6. ASSUME NEW h \in Helpers, Writes(h) \/ Reap(h) PROVE IInv'
    BY <1>6, WritesStep, ReapStep
<1>7. CASE UNCHANGED vars
    BY <1>7 DEF vars, IInv, Types, CallsApart, ProgramFiles, HelpersLive,
                ForkedFirst, ForkedOnce, ReapedFirst, AliveIsKnown,
                HelperFiles, OpenFilesAccounted, Refused, Provided
<1> QED BY <1>1, <1>2, <1>4, <1>5, <1>6, <1>7 DEF Next

\* Whatever the program has called and whatever has failed, the invariant holds.
LEMMA Invariant == Spec => []IInv
<1> QED BY InitInvariant, NextInvariant, PTL DEF Spec

\* Every variable keeps its type, and a thread waits for a helper that has been
\* forked: the call and the helper of it have one number.
THEOREM TypesCorrect == Spec => []TypeOK
<1>1. IInv => TypeOK
    BY NamesApart DEF IInv, Types, TypeOK, CallsApart, InCall, HelpersLive,
                      ForkedFirst
<1> QED BY <1>1, Invariant, PTL

\* openhelper.c:97: a caller that is given a temporary file has the one of its
\* own call, read from the start, complete: its helper has ended well, nobody
\* has the file open anew and no command has it as its standard output.  What
\* the helpers of other calls inherit of it is no more than the program's own
\* descriptor.
THEOREM FileIsComplete == Spec => []ResultComplete
<1>1. IInv => ResultComplete
    <2> SUFFICES ASSUME IInv, NEW t \in Threads, pc[t] = "replaced"
                 PROVE  /\ fds[Program][result[t]] = Tmp(call[t])
                        /\ status[call[t]] = "ok"
                        /\ offset[call[t]] = 0
                        /\ \A h \in Helpers, fd \in Fds :
                              fds[h][fd] # Again(call[t])
                        /\ \A h \in Helpers :
                              pc[h] = "running" => fds[h][1] # Tmp(call[t])
        BY DEF ResultComplete
    <2>1. call[t] \in Helpers
        BY NamesApart DEF IInv, Types, CallsApart, InCall
    <2>2. pc[call[t]] = "reaped" /\ status[call[t]] = "ok"
        BY DEF IInv, HelpersLive, ReapedFirst
    <2>3. \A h \in Helpers : pc[h] = "running" => fds[h][1] # Tmp(call[t])
        BY FilesApart DEF IInv, HelperFiles
    <2> QED BY <2>1, <2>2, <2>3
            DEF IInv, ProgramFiles, InCall, HelperFiles, Alive
<1> QED BY <1>1, Invariant, PTL

\* A helper command has the file of its own call as standard output, whichever
\* descriptors the program had and however the calls of its threads are mixed,
\* and runs for a call that waits or has failed.
THEOREM CommandWritesOwnFile == Spec => []WritesOwnFile
<1>1. IInv => WritesOwnFile
    BY DEF IInv, WritesOwnFile, HelperFiles, HelpersLive, AliveIsKnown, Alive
<1> QED BY <1>1, Invariant, PTL

\* No failure of tmpfile, fork, waitpid or the command makes a caller open the
\* file itself that a helper command is to provide.
THEOREM HelperIsNotBypassed == Spec => []NeverPlain
<1>1. IInv => NeverPlain
    BY DEF IInv, Refused, NeverPlain
<1> QED BY <1>1, Invariant, PTL

\* The only temporary files that stay open though no caller has them are those
\* of calls that have failed after their fork.
THEOREM FilesAccounted == Spec => []OpenFilesAccounted
<1>1. IInv => OpenFilesAccounted
    BY DEF IInv
<1> QED BY <1>1, Invariant, PTL
=============================================================================
