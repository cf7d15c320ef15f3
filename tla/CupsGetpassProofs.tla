------------------------- MODULE CupsGetpassProofs -------------------------
(***************************************************************************)
(* Proofs about cupsgetpass.so, for any number of threads, calls and       *)
(* characters, any askpass program and whatever fails: a call that has     *)
(* returned has left no end of its pipes open in the program, and the      *)
(* password that it returns is the first line of what its own askpass      *)
(* program has written.                                                    *)
(***************************************************************************)
EXTENDS CupsGetpass, LeastProofs, SequenceTheorems, TLAPS

\* The places in a call: it has a number; its askpass process has not been
\* forked yet; it has been; nothing has been read; the descriptors are set.
BeforeFork == {"pipe_in", "pipe_ex", "fork"}
AfterFork == {"close_ir", "close_ew", "prompt", "close_iw", "read", "close_er",
              "wait"}
InCall == BeforeFork \cup AfterFork
BeforeRead == BeforeFork \cup {"close_ir", "close_ew", "prompt", "close_iw"}
AfterRead == {"close_er", "wait"}
HasEx == {"fork"} \cup AfterFork
HasIn == {"pipe_ex"} \cup HasEx

Alive == {"forked", "wired", "asking", "running", "blocked"}
Finished == {"zombie", "reaped"}

\* The types, and which states belong to threads and which to processes.
Types ==
    /\ env \in Envs
    /\ held \in [Procs -> SUBSET (Ends \cup {Own})]
    /\ pc \in [Tasks -> Calling \cup Ended \cup AskStates]
    /\ \A t \in Threads : pc[t] \in Calling \cup Ended
    /\ \A n \in Helpers : pc[n] \in AskStates
    /\ call \in [Threads -> 0..MaxCalls]
    /\ end \in [Tasks -> [in : Pipe, ex : Pipe]]
    /\ asked \subseteq Helpers
    /\ said \in [Helpers -> Seq(Chars)]
    /\ answer \in [Helpers -> Seq(Chars)]
    /\ \A n \in Helpers : Len(answer[n]) <= Capacity
    /\ text \in [Threads -> Seq(Chars) \cup {Null, Overrun}]
    /\ waited \subseteq Threads
    /\ status \in [Helpers -> {"none", "ok", "bad", "killed"}]
    /\ made \in 0..MaxCalls

\* A call has a number of its own.
CallsApart ==
    /\ \A t \in Threads : call[t] <= made
    /\ \A t, u \in Threads : call[t] = call[u] /\ call[t] # 0 => t = u
    /\ \A e \in held[Program] : e.call <= made

\* The two descriptors of a pipe of call n, or of one that has failed.
OwnPipe(n, pipe) == {PipeOf(n, pipe)} \cup [r : Garbage, w : Garbage]

\* The ends of its pipes that a call has still to close, by its place.
Left(t) ==
    {e \in Ends :
       \/ e \in {end[t].in.r, end[t].in.w} /\ pc[t] = "pipe_ex"
       \/ /\ e \in {end[t].in.r, end[t].in.w, end[t].ex.r, end[t].ex.w}
          /\ pc[t] \in {"fork", "close_ir"}
       \/ /\ e \in {end[t].in.w, end[t].ex.r, end[t].ex.w}
          /\ pc[t] = "close_ew"
       \/ e \in {end[t].in.w, end[t].ex.r} /\ pc[t] \in {"prompt", "close_iw"}
       \/ e = end[t].ex.r /\ pc[t] \in {"read", "close_er"}}
EndsLeft(t) ==
    \A e \in held[Program] : e.call = call[t] => e = Own \/ e \in Left(t)

\* A call and its askpass process have the descriptors of the same pipes, and
\* the process begins with the end that it writes to.
PipesInPlace(t) ==
    /\ pc[t] \in HasIn => end[t].in \in OwnPipe(call[t], "in")
    /\ pc[t] \in HasEx => end[t].ex \in OwnPipe(call[t], "ex")
    /\ pc[t] = "fork" /\ end[t].ex = PipeOf(call[t], "ex") =>
          End(call[t], "ex", "w") \in held[Program]
    /\ pc[t] \in AfterFork /\ pc[call[t]] \in Alive =>
          end[call[t]].ex = end[t].ex

\* The askpass process of a call is forked once.
ForkedOnce(t) ==
    /\ pc[t] \in InCall => call[t] \in Helpers
    /\ pc[t] \in BeforeFork => pc[call[t]] = "unborn"
    /\ pc[t] \in AfterFork => pc[call[t]] # "unborn"

\* What the program of a call has written is in the pipe or has been read, and
\* what was taken of it for the password will not change any more.
Answers(t) ==
    LET n == call[t]
        good == end[t].ex = PipeOf(n, "ex") /\ status[n] # "bad"
    IN  /\ pc[t] \in BeforeRead => text[t] = Null
        /\ pc[t] \in BeforeRead /\ status[n] # "bad" => answer[n] = said[n]
        /\ pc[t] = "read" => text[t] \in Seq(Chars) \cup {Null}
        /\ pc[t] = "read" /\ good => Got(t) \o answer[n] = said[n]
        /\ pc[t] \in AfterRead /\ good /\ text[t] # Null =>
              /\ text[t] = FirstLine(said[n])
              /\ IsLine(said[n]) \/ pc[n] \in Finished
        /\ t \in waited =>
              pc[t] = "returned" /\ n \in Helpers /\ pc[n] = "reaped"
        /\ t \in waited /\ text[t] # Null => status[n] # "bad"
        /\ t \in waited /\ good /\ text[t] # Null =>
              text[t] = FirstLine(said[n])

ThreadOk(t) ==
    EndsLeft(t) /\ PipesInPlace(t) /\ ForkedOnce(t) /\ Answers(t)

\* An askpass process has its own pipes, and keeps the end that it writes to,
\* until it ends.
HelperOk(n) ==
    /\ n > made => pc[n] = "unborn"
    /\ pc[n] = "unborn" => said[n] = <<>> /\ answer[n] = <<>>
    /\ pc[n] \in {"unborn"} \cup Alive <=> status[n] = "none"
    /\ pc[n] \in Alive =>
          /\ end[n].in \in OwnPipe(n, "in") /\ end[n].ex \in OwnPipe(n, "ex")
          /\ end[n].ex = PipeOf(n, "ex") => End(n, "ex", "w") \in held[n]

Truncated ==
    \A t \in Threads : text[t] = Overrun => Len(env.password) >= PassMax

IInv ==
    /\ Types /\ CallsApart /\ Truncated
    /\ \A t \in Threads : ThreadOk(t)
    /\ \A n \in Helpers : HelperOk(n)

-----------------------------------------------------------------------------
(* What the states are made of *)

\* The program, its threads and its askpass processes are named apart.
LEMMA NamesApart ==
    /\ Program \in Procs /\ Helpers \subseteq Procs
    /\ \A n \in Helpers : n # Program /\ n \notin Threads /\ n \in Nat \ {0}
    /\ Threads \subseteq Tasks /\ Helpers \subseteq Tasks
    /\ Helpers = 1..MaxCalls /\ MaxCalls \in Nat
BY CupsGetpassAssumption DEF Program, Procs, Tasks, Helpers

\* Ends of pipes differ from each other and from what is not an end.
LEMMA EndsApart ==
    /\ \A n, pipe, side : /\ End(n, pipe, side).call = n
                          /\ End(n, pipe, side).pipe = pipe
                          /\ End(n, pipe, side).side = side
    /\ \A n \in Helpers, side \in {"r", "w"} :
          /\ End(n, "in", side) \in Ends /\ End(n, "in", side) \notin Garbage
          /\ End(n, "ex", side) \in Ends /\ End(n, "ex", side) \notin Garbage
    /\ \A e \in Ends : e.call \in Helpers
    /\ Own.call = 0 /\ NoEnd \in Garbage /\ Own \in Garbage /\ Own # NoEnd
    /\ Own \notin Ends /\ NoEnd \notin Ends
<1>1. \A n, pipe, side : /\ End(n, pipe, side).call = n
                         /\ End(n, pipe, side).pipe = pipe
                         /\ End(n, pipe, side).side = side
    BY DEF End
<1>2. /\ Own.call = 0 /\ NoEnd \in Garbage /\ Own \in Garbage
      /\ Own.pipe = "file" /\ NoEnd.pipe = "none"
    BY <1>1 DEF Own, NoEnd, Garbage
<1>3. \A e \in Garbage : e.pipe \in {"file", "none"}
    BY <1>2 DEF Garbage
<1>4. \A n \in Helpers, side \in {"r", "w"} :
          /\ End(n, "in", side) \in Ends /\ End(n, "in", side) \notin Garbage
          /\ End(n, "ex", side) \in Ends /\ End(n, "ex", side) \notin Garbage
    BY <1>1, <1>3 DEF Ends
<1>5. \A e \in Ends : e.call \in Helpers /\ e.pipe \in {"in", "ex"}
    BY <1>1 DEF Ends
<1> QED BY <1>1, <1>2, <1>4, <1>5

\* A pipe of call n is made of its two ends; one that has failed of neither.
LEMMA PipesApart ==
    ASSUME NEW n \in Helpers, NEW pipe \in {"in", "ex"}
    PROVE  /\ PipeOf(n, pipe) \in OwnPipe(n, pipe)
           /\ OwnPipe(n, pipe) \subseteq Pipe
           /\ PipeOf(n, pipe).r = End(n, pipe, "r")
           /\ PipeOf(n, pipe).w = End(n, pipe, "w")
           /\ \A x \in OwnPipe(n, pipe) :
                 \/ x = PipeOf(n, pipe)
                 \/ /\ x # PipeOf(n, pipe)
                    /\ x.r \in Garbage /\ x.w \in Garbage
<1>1. PipeOf(n, pipe).r = End(n, pipe, "r") /\
      PipeOf(n, pipe).w = End(n, pipe, "w")
    BY DEF PipeOf
<1>2. End(n, pipe, "r") \in Ends /\ End(n, pipe, "r") \notin Garbage
      /\ End(n, pipe, "w") \in Ends
    BY EndsApart
<1>3. PipeOf(n, pipe) \in Pipe
    BY <1>2 DEF PipeOf, Pipe
<1>4. [r : Garbage, w : Garbage] \subseteq Pipe
    BY DEF Pipe
<1>5. \A x \in [r : Garbage, w : Garbage] : x.r \in Garbage /\ x.w \in Garbage
    OBVIOUS
<1> QED BY <1>1, <1>2, <1>3, <1>4, <1>5 DEF OwnPipe

\* What is no text is none.
LEMMA TextsApart ==
    /\ Null \notin Seq(Chars) /\ Overrun \notin Seq(Chars) /\ Null # Overrun
    /\ <<>> \in Seq(Chars) /\ \A c \in Chars : <<c>> \in Seq(Chars)
    /\ <<"d", "nl">> \in Seq(Chars) /\ Seq({"c"}) \subseteq Seq(Chars)
<1>1. Null[1] = "null" /\ Overrun[1] = "overrun"
    BY DEF Null, Overrun
<1>2. Len(Null) = 1 /\ Len(Overrun) = 1
    BY DEF Null, Overrun
<1>3. Null # Overrun
    BY <1>1
<1>4. ASSUME NEW s \in Seq(Chars), Len(s) = 1
      PROVE  s[1] \in Chars
    <2>1. 1 \in 1..Len(s)
        BY <1>4
    <2> QED BY <2>1, ElementOfSeq
<1>5. "null" \notin Chars /\ "overrun" \notin Chars
    BY DEF Chars
<1>6. Null \notin Seq(Chars) /\ Overrun \notin Seq(Chars)
    BY <1>1, <1>2, <1>4, <1>5
<1>7. /\ <<>> \in Seq(Chars) /\ \A c \in Chars : <<c>> \in Seq(Chars)
      /\ <<"d", "nl">> \in Seq(Chars) /\ Seq({"c"}) \subseteq Seq(Chars)
    BY DEF Chars
<1> QED BY <1>3, <1>6, <1>7

\* The lengths that a first line is made of.
LEMMA LineEndFits ==
    ASSUME NEW s \in Seq(Chars)
    PROVE  /\ LineEnd(s) \in 1..Len(s) + 1 /\ Len(s) \in Nat
           /\ LineEnd(s) <= Len(s) => s[LineEnd(s)] = "nl"
           /\ \A i \in 1..Len(s) : s[i] = "nl" => LineEnd(s) <= i
<1> DEFINE S == {i \in DOMAIN s : s[i] = "nl"} \cup {Len(s) + 1}
<1>1. Len(s) \in Nat /\ DOMAIN s = 1..Len(s)
    BY LenProperties
<1>2. S \in SUBSET Nat /\ S # {} /\ S \subseteq 1..Len(s) + 1
    BY <1>1
<1>3. LineEnd(s) = Min(S)
    BY DEF LineEnd
<1> HIDE DEF S
<1>4. LineEnd(s) \in S /\ \A i \in S : LineEnd(s) <= i
    BY <1>2, <1>3, MinIsLeast
<1> QED BY <1>1, <1>2, <1>4 DEF S

\* How long a first line is.
LEMMA FirstLineFits ==
    ASSUME NEW s \in Seq(Chars)
    PROVE  LET m == Min({LineEnd(s) - 1, PassMax - 1})
           IN  /\ m = IF LineEnd(s) < PassMax THEN LineEnd(s) - 1
                                              ELSE PassMax - 1
               /\ m \in 0..Len(s)
               /\ FirstLine(s) = SubSeq(s, 1, m)
               /\ FirstLine(s) \in Seq(Chars)
<1> DEFINE S == {LineEnd(s) - 1, PassMax - 1}
           m == Min(S)
<1>1. LineEnd(s) \in 1..Len(s) + 1 /\ Len(s) \in Nat /\ PassMax \in Nat \ {0, 1}
    BY LineEndFits, CupsGetpassAssumption
<1>2. S \in SUBSET Nat /\ S # {}
    BY <1>1
<1> HIDE DEF S
<1>3. m \in S /\ \A i \in S : m <= i
    BY <1>2, MinIsLeast
<1> HIDE DEF m
<1>4. m = IF LineEnd(s) < PassMax THEN LineEnd(s) - 1 ELSE PassMax - 1
    BY <1>1, <1>3 DEF S
<1>5. m \in 0..Len(s)
    BY <1>1, <1>4
<1>6. FirstLine(s) = SubSeq(s, 1, m)
    BY DEF FirstLine, m, S
<1>7. SubSeq(s, 1, m) \in Seq(Chars)
    <2>1. \A i \in 1..m : s[i] \in Chars
        BY <1>1, <1>5, ElementOfSeq
    <2> QED BY <1>1, <1>5, <2>1, SubSeqProperties
<1> QED BY <1>4, <1>5, <1>6, <1>7 DEF m, S

\* Once fgets has a line, what comes after it changes nothing.
LEMMA LineKept ==
    ASSUME NEW s \in Seq(Chars), NEW w \in Seq(Chars), IsLine(s)
    PROVE  IsLine(s \o w) /\ FirstLine(s \o w) = FirstLine(s)
<1> DEFINE z == s \o w
           k == Min({LineEnd(s) - 1, PassMax - 1})
           m == Min({LineEnd(z) - 1, PassMax - 1})
<1>1. /\ z \in Seq(Chars) /\ Len(z) = Len(s) + Len(w)
      /\ \A i \in 1..Len(s) : z[i] = s[i]
      /\ Len(s) \in Nat /\ Len(w) \in Nat /\ PassMax \in Nat \ {0, 1}
    BY ConcatProperties, LenProperties, CupsGetpassAssumption
<1>2. k = (IF LineEnd(s) < PassMax THEN LineEnd(s) - 1 ELSE PassMax - 1)
      /\ FirstLine(s) = SubSeq(s, 1, k)
    BY FirstLineFits
<1>3. m = (IF LineEnd(z) < PassMax THEN LineEnd(z) - 1 ELSE PassMax - 1)
      /\ FirstLine(z) = SubSeq(z, 1, m)
    BY <1>1, FirstLineFits
<1> HIDE DEF z, k, m
<1>4. /\ LineEnd(s) \in 1..Len(s) + 1
      /\ LineEnd(s) <= Len(s) => s[LineEnd(s)] = "nl"
      /\ \A i \in 1..Len(s) : s[i] = "nl" => LineEnd(s) <= i
    BY LineEndFits
<1>5. /\ LineEnd(z) \in 1..Len(z) + 1
      /\ LineEnd(z) <= Len(z) => z[LineEnd(z)] = "nl"
      /\ \A i \in 1..Len(z) : z[i] = "nl" => LineEnd(z) <= i
    BY <1>1, LineEndFits
<1>6. ASSUME LineEnd(s) <= Len(s)
      PROVE  LineEnd(z) = LineEnd(s)
    <2>1. /\ LineEnd(s) \in 1..Len(s) /\ LineEnd(s) \in 1..Len(z)
          /\ s[LineEnd(s)] = "nl"
        BY <1>1, <1>4, <1>6
    <2>2. z[LineEnd(s)] = "nl"
        BY <1>1, <2>1
    <2>3. LineEnd(z) <= LineEnd(s)
        BY <1>5, <2>1, <2>2
    <2>4. LineEnd(z) \in 1..Len(s) /\ LineEnd(z) <= Len(z)
        BY <1>1, <1>5, <2>1, <2>3
    <2>5. s[LineEnd(z)] = "nl"
        BY <1>1, <1>5, <2>4
    <2>6. LineEnd(s) <= LineEnd(z)
        BY <1>4, <2>4, <2>5
    <2> QED BY <2>1, <2>3, <2>4, <2>6
<1>7. LineEnd(s) = Len(s) + 1 => LineEnd(z) >= LineEnd(s)
    BY <1>1, <1>4, <1>5
<1>8. IsLine(z)
    BY <1>1, <1>4, <1>6, <1>7 DEF IsLine
<1>9. m = k /\ k \in 0..Len(s)
    <2>1. CASE LineEnd(s) <= Len(s)
        BY <1>1, <1>2, <1>3, <1>4, <1>6, <2>1
    <2>2. CASE LineEnd(s) = Len(s) + 1 /\ Len(s) >= PassMax - 1
        <3>1. LineEnd(z) \in Nat /\ LineEnd(z) >= LineEnd(s)
            BY <1>1, <1>5, <1>7, <2>2
        <3>2. LineEnd(s) >= PassMax /\ LineEnd(z) >= PassMax
            BY <1>1, <2>2, <3>1
        <3>3. k = PassMax - 1 /\ m = PassMax - 1
            BY <1>1, <1>2, <1>3, <1>4, <3>1, <3>2
        <3> QED BY <1>1, <2>2, <3>3
    <2>3. LineEnd(s) <= Len(s) \/ LineEnd(s) = Len(s) + 1
        BY <1>1, <1>4
    <2>4. LineEnd(s) <= Len(s) \/ Len(s) >= PassMax - 1
        BY DEF IsLine
    <2> QED BY <2>1, <2>2, <2>3, <2>4
<1>10. SubSeq(z, 1, k) = SubSeq(s, 1, k)
    <2>1. CASE k = 0
        BY <2>1, SubSeqEmpty
    <2>2. CASE k # 0
        <3>1. k \in 1..Len(s) /\ 1 \in 1..Len(s)
            BY <1>1, <1>9, <2>2
        <3> QED BY <3>1, SubSeqOfConcat1 DEF z
    <2> QED BY <2>1, <2>2
<1> QED BY <1>2, <1>3, <1>8, <1>9, <1>10 DEF z

\* What is written to the pipe comes after what has been read and what is in
\* the pipe.
LEMMA WrittenLater ==
    ASSUME NEW got \in Seq(Chars), NEW piped \in Seq(Chars),
           NEW w \in Seq(Chars)
    PROVE  (got \o piped) \o w = got \o (piped \o w)
BY ConcatAssociative

\* The library has not been called yet.
LEMMA InitInvariant == Init => IInv
<1> SUFFICES ASSUME Init PROVE IInv
    OBVIOUS
<1>1. Types
    <2>1. NoPipe \in Pipe
        BY EndsApart DEF NoPipe, Pipe
    <2>2. Threads \cap Helpers = {} /\ 0 \in 0..MaxCalls
          /\ Capacity \in Nat \ {0}
        BY CupsGetpassAssumption
    <2> QED BY <2>1, <2>2, NamesApart, TextsApart
            DEF Init, Types, Calling, Ended, AskStates, Tasks
<1>2. CallsApart
    BY EndsApart, NamesApart DEF Init, CallsApart
<1>3. Truncated
    BY TextsApart DEF Init, Truncated
<1>4. \A t \in Threads : ThreadOk(t)
    BY EndsApart, NamesApart
       DEF Init, ThreadOk, EndsLeft, PipesInPlace, ForkedOnce, Answers, HasIn,
           HasEx, AfterFork, BeforeFork, BeforeRead, AfterRead, InCall
<1>5. \A n \in Helpers : HelperOk(n)
    BY NamesApart DEF Init, HelperOk, Alive, Tasks
<1> QED BY <1>1, <1>2, <1>3, <1>4, <1>5 DEF IInv

-----------------------------------------------------------------------------
(* What a step leaves as it was *)

\* A thread that is in no step, and whose askpass process is in none, is not
\* affected by what happens to the ends of other pipes.
LEMMA ThreadKept ==
    ASSUME NEW u \in Threads, ThreadOk(u),
           pc'[u] = pc[u], call'[u] = call[u], end'[u] = end[u],
           text'[u] = text[u], u \in waited' => u \in waited,
           \A e \in held'[Program] :
              e.call = call[u] => e = Own \/ e \in held[Program],
           End(call[u], "ex", "w") \in held[Program] =>
              End(call[u], "ex", "w") \in held'[Program],
           call[u] \in Helpers =>
              /\ pc'[call[u]] = pc[call[u]]
              /\ status'[call[u]] = status[call[u]]
              /\ said'[call[u]] = said[call[u]]
              /\ answer'[call[u]] = answer[call[u]]
              /\ end'[call[u]] = end[call[u]]
    PROVE  ThreadOk(u)'
<1>1. Left(u)' = Left(u)
    BY DEF Left
<1>2. EndsLeft(u)'
    BY <1>1 DEF ThreadOk, EndsLeft
<1>3. ForkedOnce(u)'
    BY DEF ThreadOk, ForkedOnce, InCall
<1>4. PipesInPlace(u)'
    BY DEF ThreadOk, PipesInPlace, ForkedOnce, InCall
<1>5. Answers(u)'
    <2>1. Got(u)' = Got(u)
        BY DEF Got
    <2>2. pc[u] \in BeforeRead \cup {"read"} \cup AfterRead \/ u \in waited =>
             call[u] \in Helpers
        BY DEF ThreadOk, Answers, ForkedOnce, InCall, BeforeRead, AfterRead,
               AfterFork, BeforeFork
    <2> QED BY <2>1, <2>2 DEF ThreadOk, Answers
<1> QED BY <1>2, <1>3, <1>4, <1>5 DEF ThreadOk

\* A step of one thread, within the call that it is in afterwards, leaves the
\* other calls and their processes as they were.
LEMMA ThreadStep ==
    ASSUME IInv, NEW t \in Threads,
           \A u \in Threads : u # t =>
              pc'[u] = pc[u] /\ call'[u] = call[u] /\ end'[u] = end[u]
              /\ text'[u] = text[u],
           waited' \subseteq waited \cup {t},
           \A e : e.call # call'[t] =>
              (e \in held'[Program] <=> e \in held[Program]) \/ e = Own,
           \A n \in Helpers : n # call'[t] =>
              /\ pc'[n] = pc[n] /\ status'[n] = status[n] /\ said'[n] = said[n]
              /\ answer'[n] = answer[n] /\ end'[n] = end[n]
              /\ held'[n] = held[n],
           \A n \in Helpers : n > made' => n > made,
           Types', CallsApart', Truncated', ThreadOk(t)',
           \A n \in Helpers : n = call'[t] => HelperOk(n)'
    PROVE  IInv'
<1>1. ASSUME NEW u \in Threads, u # t
      PROVE  ThreadOk(u)'
    <2>1. call[u] \in Helpers => call[u] # call'[t]
        BY <1>1, NamesApart DEF CallsApart
    <2>2. call[u] \notin Helpers => call[u] = 0
        BY NamesApart DEF IInv, Types
    <2>3. \A e \in held'[Program] :
             e.call = call[u] => e = Own \/ e \in held[Program]
        BY <2>1, <2>2, EndsApart, NamesApart DEF Types
    <2>4. End(call[u], "ex", "w") \in held[Program] =>
             End(call[u], "ex", "w") \in held'[Program]
        <3>1. CASE call[u] \in Helpers
            BY <2>1, <3>1, EndsApart
        <3>2. CASE call[u] \notin Helpers
            <4>1. End(call[u], "ex", "w") \notin Ends \cup {Own}
                <5>1. End(call[u], "ex", "w").call = 0
                      /\ End(call[u], "ex", "w").pipe = "ex"
                      /\ Own.pipe = "file"
                    BY <2>2, <3>2, EndsApart DEF Own
                <5> QED BY <5>1, EndsApart, NamesApart
            <4> QED BY <4>1, NamesApart DEF IInv, Types
        <3> QED BY <3>1, <3>2
    <2>5. /\ pc'[u] = pc[u] /\ call'[u] = call[u] /\ end'[u] = end[u]
          /\ text'[u] = text[u] /\ (u \in waited' => u \in waited)
        BY <1>1
    <2>6. ThreadOk(u)
        BY DEF IInv
    <2> QED BY <2>1, <2>3, <2>4, <2>5, <2>6, ThreadKept
<1>2. ASSUME NEW n \in Helpers, n # call'[t]
      PROVE  HelperOk(n)'
    <2>1. HelperOk(n)
        BY DEF IInv
    <2> QED BY <1>2, <2>1 DEF HelperOk
<1> QED BY <1>1, <1>2 DEF IInv

\* A step of an askpass process matters to the thread that is in its call.
LEMMA HelperStep ==
    ASSUME IInv, NEW n \in Helpers,
           UNCHANGED <<env, call, asked, text, waited, made>>,
           held'[Program] = held[Program],
           \A u \in Tasks : u # n => pc'[u] = pc[u] /\ end'[u] = end[u],
           \A m \in Helpers : m # n =>
              /\ status'[m] = status[m] /\ said'[m] = said[m]
              /\ answer'[m] = answer[m] /\ held'[m] = held[m],
           Types', HelperOk(n)',
           \A t \in Threads : call[t] = n => ThreadOk(t)'
    PROVE  IInv'
<1>1. ASSUME NEW u \in Threads, call[u] # n
      PROVE  ThreadOk(u)'
    <2>1. /\ pc'[u] = pc[u] /\ end'[u] = end[u] /\ call'[u] = call[u]
          /\ text'[u] = text[u] /\ waited' = waited
        BY NamesApart
    <2>2. call[u] \in Helpers =>
              /\ pc'[call[u]] = pc[call[u]]
              /\ status'[call[u]] = status[call[u]]
              /\ said'[call[u]] = said[call[u]]
              /\ answer'[call[u]] = answer[call[u]]
              /\ end'[call[u]] = end[call[u]]
        BY <1>1, NamesApart
    <2>3. ThreadOk(u)
        BY DEF IInv
    <2> QED BY <2>1, <2>2, <2>3, ThreadKept
<1>2. ASSUME NEW m \in Helpers, m # n
      PROVE  HelperOk(m)'
    <2>1. HelperOk(m) /\ m \in Tasks
        BY NamesApart DEF IInv
    <2> QED BY <1>2, <2>1 DEF HelperOk
<1>3. CallsApart' /\ Truncated'
    BY DEF IInv, CallsApart, Truncated
<1> QED BY <1>1, <1>2, <1>3 DEF IInv

\* What a change of the place in a call changes.
LEMMA GotoChanges ==
    ASSUME Types, NEW x \in Tasks, NEW l, Goto(x, l)
    PROVE  /\ pc'[x] = l /\ \A y \in Tasks : y # x => pc'[y] = pc[y]
           /\ l \in Calling \cup Ended \cup AskStates =>
                 pc' \in [Tasks -> Calling \cup Ended \cup AskStates]
BY DEF Types, Goto

\* A step in which a thread opens or closes ends of its own pipes, if any, and
\* goes on.
LEMMA LocalStep ==
    ASSUME IInv, NEW t \in Threads, NEW l \in Calling \cup Ended, Goto(t, l),
           UNCHANGED <<env, call, said, answer, status, made>>,
           waited' \subseteq waited \cup {t},
           end' \in [Tasks -> [in : Pipe, ex : Pipe]],
           \A x \in Tasks : x # t => end'[x] = end[x],
           held' \in [Procs -> SUBSET (Ends \cup {Own})],
           \A e \in held'[Program] : e \in held[Program] \/ e.call = call[t],
           \A e \in held[Program] : e \in held'[Program] \/ e.call = call[t]
                                    \/ e = Own,
           \A n \in Helpers : held'[n] = held[n],
           asked' \subseteq Helpers,
           text' \in [Threads -> Seq(Chars) \cup {Null, Overrun}],
           \A u \in Threads : u # t => text'[u] = text[u],
           text'[t] = Overrun =>
              text[t] = Overrun \/ Len(env.password) >= PassMax,
           ThreadOk(t)'
    PROVE  IInv'
<1>1. /\ pc'[t] = l /\ t \in Tasks /\ \A n \in Helpers : n # t /\ n \in Tasks
      /\ \A x \in Tasks : x # t => pc'[x] = pc[x]
      /\ pc' \in [Tasks -> Calling \cup Ended \cup AskStates]
    BY NamesApart, GotoChanges DEF IInv
<1>2. Types'
    <2>1. \A u \in Threads : pc'[u] \in Calling \cup Ended
        BY <1>1, NamesApart DEF IInv, Types
    <2>2. \A n \in Helpers : pc'[n] \in AskStates
        BY <1>1 DEF IInv, Types
    <2> QED BY <1>1, <2>1, <2>2 DEF IInv, Types
<1>3. CallsApart'
    BY DEF IInv, CallsApart
<1>4. Truncated'
    BY DEF IInv, Truncated
<1>5. ASSUME NEW n \in Helpers
      PROVE  HelperOk(n)'
    <2>1. HelperOk(n) /\ held'[n] = held[n]
        BY DEF IInv
    <2> QED BY <1>1, <2>1 DEF HelperOk
<1>6. \A u \in Threads : u # t =>
              pc'[u] = pc[u] /\ call'[u] = call[u] /\ end'[u] = end[u]
              /\ text'[u] = text[u]
    BY <1>1, NamesApart
<1>7. \A n \in Helpers : n # call'[t] =>
              /\ pc'[n] = pc[n] /\ status'[n] = status[n] /\ said'[n] = said[n]
              /\ answer'[n] = answer[n] /\ end'[n] = end[n]
              /\ held'[n] = held[n]
    BY <1>1
<1>8. \A e : e.call # call'[t] =>
              (e \in held'[Program] <=> e \in held[Program]) \/ e = Own
    OBVIOUS
<1>9. \A n \in Helpers : n > made' => n > made
    OBVIOUS
<1> QED BY <1>2, <1>3, <1>4, <1>5, <1>6, <1>7, <1>8, <1>9, ThreadStep

\* What is known of a thread in a call.
LEMMA CallsHaveHelpers ==
    ASSUME IInv, NEW t \in Threads, pc[t] \in InCall
    PROVE  /\ call[t] \in Helpers /\ call[t] # t /\ call[t] \in Tasks
           /\ t \in Tasks /\ call[t] # Program /\ call[t] \in Procs
           /\ t \notin waited
BY NamesApart DEF IInv, ThreadOk, ForkedOnce, Answers, InCall, BeforeFork,
                  AfterFork

-----------------------------------------------------------------------------
(* A thread's steps *)

\* libc's own getpass returns.
LEMMA RealGetpassStep ==
    ASSUME IInv, NEW t \in Threads, RealGetpass(t)
    PROVE  IInv'
<1>1. /\ pc[t] = "real" /\ Goto(t, "idle") /\ pc'[t] = "idle"
      /\ UNCHANGED <<env, held, call, end, asked, said, answer, text, waited,
                     status, made>>
    BY GotoChanges, NamesApart DEF RealGetpass, IInv
<1>2. ThreadOk(t)'
    <2> USE <1>1 DEF IInv, ThreadOk
    <2>1. EndsLeft(t)'
        BY DEF EndsLeft, Left
    <2>2. PipesInPlace(t)' /\ ForkedOnce(t)'
        BY DEF PipesInPlace, ForkedOnce, HasIn, HasEx, InCall, BeforeFork,
               AfterFork
    <2>3. Answers(t)'
        BY DEF Answers, BeforeRead, BeforeFork, AfterRead
    <2> QED BY <2>1, <2>2, <2>3
<1> QED BY <1>1, <1>2, LocalStep DEF IInv, Types, Ended

\* A thread outside the library has none of its ends left, and what it is
\* given there, a text or nothing, is no answer of a program.
LEMMA OutsideOk ==
    ASSUME NEW t \in Threads, EndsLeft(t),
           pc[t] \in {"idle", "real", "wait", "returned"},
           pc'[t] \in {"idle", "real", "returned"},
           call'[t] = call[t], held'[Program] = held[Program], t \notin waited'
    PROVE  ThreadOk(t)'
<1>1. EndsLeft(t)'
    BY DEF EndsLeft, Left
<1>2. PipesInPlace(t)' /\ ForkedOnce(t)'
    BY DEF PipesInPlace, ForkedOnce, HasIn, HasEx, InCall, BeforeFork,
           AfterFork
<1>3. Answers(t)'
    BY DEF Answers, BeforeRead, BeforeFork, AfterRead
<1> QED BY <1>1, <1>2, <1>3 DEF ThreadOk

\* A call begins: the password of the environment, the user, or a program with
\* a number that no call has had.
LEMMA GetpassStep ==
    ASSUME IInv, NEW t \in Threads, Getpass(t)
    PROVE  IInv'
<1>1. /\ pc[t] \in {"idle", "returned"} /\ waited' = waited \ {t}
      /\ UNCHANGED <<env, held, end, asked, said, answer, status>>
      /\ EndsLeft(t)
    BY DEF Getpass, IInv, ThreadOk
<1>2. CASE env.password # Null
    <2>1. /\ text' = [text EXCEPT ![t] = Copy(env.password)]
          /\ Goto(t, "returned") /\ UNCHANGED <<call, made>>
        BY <1>2 DEF Getpass
    <2>2. env.password \in Seq({"c"})
        BY <1>2, CupsGetpassAssumption DEF IInv, Types, Env
    <2>3. /\ Copy(env.password) \in Seq(Chars) \cup {Overrun}
          /\ Copy(env.password) = Overrun => Len(env.password) >= PassMax
        BY <2>2, TextsApart DEF Copy
    <2>4. /\ text' \in [Threads -> Seq(Chars) \cup {Null, Overrun}]
          /\ text'[t] = Copy(env.password)
          /\ \A u \in Threads : u # t => text'[u] = text[u]
        BY <2>1, <2>3 DEF IInv, Types
    <2>5. ThreadOk(t)'
        BY <1>1, <2>1, GotoChanges, NamesApart, OutsideOk DEF IInv
    <2> QED BY <1>1, <2>1, <2>3, <2>4, <2>5, LocalStep DEF IInv, Types, Ended
<1>3. CASE env.password = Null /\ env.askpass = "unset"
    <2>1. /\ text' = [text EXCEPT ![t] = Null]
          /\ Goto(t, "real") /\ UNCHANGED <<call, made>>
        BY <1>3 DEF Getpass
    <2>2. /\ text' \in [Threads -> Seq(Chars) \cup {Null, Overrun}]
          /\ text'[t] = Null
          /\ \A u \in Threads : u # t => text'[u] = text[u]
        BY <2>1 DEF IInv, Types
    <2>3. ThreadOk(t)'
        BY <1>1, <2>1, GotoChanges, NamesApart, OutsideOk DEF IInv
    <2> QED BY <1>1, <2>1, <2>2, <2>3, TextsApart, LocalStep
            DEF IInv, Types, Calling
<1>4. CASE env.password = Null /\ env.askpass # "unset"
    <2> DEFINE n == made + 1
    <2>1. /\ made \in Nat /\ n \in Helpers /\ made' = n /\ n \in 0..MaxCalls
          /\ call' = [call EXCEPT ![t] = n] /\ Goto(t, "pipe_in")
          /\ text' = [text EXCEPT ![t] = Null]
        BY <1>4, NamesApart DEF Getpass, IInv, Types
    <2>2. /\ pc'[t] = "pipe_in" /\ \A x \in Tasks : x # t => pc'[x] = pc[x]
          /\ pc' \in [Tasks -> Calling \cup Ended \cup AskStates]
        BY <2>1, GotoChanges, NamesApart DEF IInv, Calling
    <2>3. /\ call' \in [Threads -> 0..MaxCalls] /\ call'[t] = n
          /\ \A u \in Threads : u # t => call'[u] = call[u]
          /\ text' \in [Threads -> Seq(Chars) \cup {Null, Overrun}]
          /\ text'[t] = Null
          /\ \A u \in Threads : u # t => text'[u] = text[u]
        BY <2>1 DEF IInv, Types
    <2>4. /\ n > made /\ \A u \in Threads : call[u] <= made /\ call[u] \in Nat
          /\ \A e \in held[Program] : e.call <= made /\ e.call \in Nat
          /\ \A m \in Helpers : m > n => m > made
        BY <2>1, EndsApart, NamesApart DEF IInv, CallsApart, Types
    <2>5. HelperOk(n) /\ pc[n] = "unborn" /\ pc'[n] = "unborn"
        BY <2>1, <2>2, <2>4, NamesApart DEF IInv, HelperOk
    <2> HIDE DEF n
    <2>6. Types'
        <3>1. \A u \in Threads : pc'[u] \in Calling \cup Ended
            BY <2>2, NamesApart DEF IInv, Types, Calling
        <3>2. \A m \in Helpers : pc'[m] \in AskStates
            BY <2>2, NamesApart DEF IInv, Types
        <3> QED BY <1>1, <2>1, <2>2, <2>3, <3>1, <3>2 DEF IInv, Types
    <2>7. CallsApart'
        <3>1. \A u \in Threads : call'[u] <= made'
            BY <2>1, <2>3, <2>4, NamesApart DEF n
        <3>2. \A e \in held'[Program] : e.call <= made'
            BY <1>1, <2>1, <2>4 DEF n
        <3>3. \A u \in Threads : call[u] # n
            BY <2>1, <2>4
        <3> QED BY <2>3, <3>1, <3>2, <3>3 DEF IInv, CallsApart
    <2>8. Truncated'
        BY <1>1, <2>3, TextsApart DEF IInv, Truncated
    <2>9. ThreadOk(t)'
        <3>1. \A e \in held'[Program] : e.call # n
            BY <1>1, <2>1, <2>4
        <3>2. EndsLeft(t)'
            BY <2>3, <3>1 DEF EndsLeft
        <3>3. PipesInPlace(t)' /\ ForkedOnce(t)'
            BY <2>1, <2>2, <2>3, <2>5
               DEF PipesInPlace, ForkedOnce, HasIn, HasEx, AfterFork
        <3>4. Answers(t)'
            BY <1>1, <2>2, <2>3, <2>5
               DEF Answers, AfterRead, HelperOk
        <3> QED BY <3>2, <3>3, <3>4 DEF ThreadOk
    <2>10. ASSUME NEW m \in Helpers
           PROVE  HelperOk(m)'
        <3>1. HelperOk(m) /\ pc'[m] = pc[m]
            BY <2>2, NamesApart DEF IInv
        <3>2. m > made' => m > made
            BY <2>1, <2>4
        <3> QED BY <1>1, <3>1, <3>2 DEF HelperOk
    <2>11. \A u \in Threads : u # t =>
              pc'[u] = pc[u] /\ call'[u] = call[u] /\ end'[u] = end[u]
              /\ text'[u] = text[u]
        BY <1>1, <2>2, <2>3, NamesApart
    <2>12. \A m \in Helpers : m # call'[t] =>
              /\ pc'[m] = pc[m] /\ status'[m] = status[m] /\ said'[m] = said[m]
              /\ answer'[m] = answer[m] /\ end'[m] = end[m]
              /\ held'[m] = held[m]
        BY <1>1, <2>2, NamesApart
    <2>13. \A m \in Helpers : m > made' => m > made
        BY <2>1, <2>4
    <2> QED BY <1>1, <2>6, <2>7, <2>8, <2>9, <2>10, <2>11, <2>12, <2>13,
               ThreadStep
<1> QED BY <1>2, <1>3, <1>4

\* The program ends: its threads have nothing any more, its askpass processes
\* go on.
LEMMA DiesStep ==
    ASSUME IInv, NEW how \in {"killed", "exited"}, Dies(how)
    PROVE  IInv'
<1>1. /\ UNCHANGED <<env, asked, said, answer, status, made>>
      /\ waited' = {} /\ text' = [u \in Threads |-> Null]
      /\ call' = [u \in Threads |-> 0]
      /\ held' = [held EXCEPT ![Program] = {}]
    BY DEF Dies
<1>2. /\ \A u \in Threads : pc'[u] = how
      /\ \A n \in Helpers : pc'[n] = pc[n] /\ end'[n] = end[n]
      /\ DOMAIN pc' = Tasks /\ pc' = [x \in Tasks |-> pc'[x]]
    BY NamesApart DEF Dies
<1>3. held'[Program] = {} /\ \A n \in Helpers : held'[n] = held[n]
    BY <1>1, NamesApart DEF IInv, Types
<1>4. Types'
    <2>1. NoPipe \in Pipe
        BY EndsApart DEF NoPipe, Pipe
    <2>2. end' \in [Tasks -> [in : Pipe, ex : Pipe]]
        BY <2>1 DEF Dies, IInv, Types
    <2>3. pc' \in [Tasks -> Calling \cup Ended \cup AskStates]
        BY DEF Dies, IInv, Types, Ended
    <2>4. 0 \in 0..MaxCalls
        BY NamesApart
    <2> QED BY <1>1, <1>2, <2>2, <2>3, <2>4 DEF IInv, Types, Ended
<1>5. CallsApart' /\ Truncated'
    BY <1>1, <1>3, TextsApart, NamesApart
       DEF IInv, Types, CallsApart, Truncated
<1>6. ASSUME NEW u \in Threads
      PROVE  ThreadOk(u)'
    BY <1>1, <1>2, <1>3
       DEF ThreadOk, EndsLeft, PipesInPlace, ForkedOnce, Answers, HasIn, HasEx,
           InCall, BeforeFork, AfterFork, BeforeRead, AfterRead
<1>7. ASSUME NEW n \in Helpers
      PROVE  HelperOk(n)'
    <2>1. HelperOk(n)
        BY DEF IInv
    <2> QED BY <1>1, <1>2, <1>3, <2>1 DEF HelperOk
<1> QED BY <1>4, <1>5, <1>6, <1>7 DEF IInv

\* What a call of pipe sets.
LEMMA EndChanges ==
    ASSUME Types, NEW t \in Tasks, NEW p \in Pipe
    PROVE  /\ end' = [end EXCEPT ![t].in = p] =>
                 /\ end' \in [Tasks -> [in : Pipe, ex : Pipe]]
                 /\ end'[t].in = p /\ end'[t].ex = end[t].ex
                 /\ \A u \in Tasks : u # t => end'[u] = end[u]
           /\ end' = [end EXCEPT ![t].ex = p] =>
                 /\ end' \in [Tasks -> [in : Pipe, ex : Pipe]]
                 /\ end'[t].ex = p /\ end'[t].in = end[t].in
                 /\ \A u \in Tasks : u # t => end'[u] = end[u]
<1>1. end \in [Tasks -> [in : Pipe, ex : Pipe]]
    BY DEF Types
<1>2. ASSUME end' = [end EXCEPT ![t].in = p]
      PROVE  /\ end' \in [Tasks -> [in : Pipe, ex : Pipe]]
             /\ end'[t].in = p /\ end'[t].ex = end[t].ex
             /\ \A u \in Tasks : u # t => end'[u] = end[u]
    BY <1>1, <1>2
<1>3. ASSUME end' = [end EXCEPT ![t].ex = p]
      PROVE  /\ end' \in [Tasks -> [in : Pipe, ex : Pipe]]
             /\ end'[t].ex = p /\ end'[t].in = end[t].in
             /\ \A u \in Tasks : u # t => end'[u] = end[u]
    BY <1>1, <1>3
<1> QED BY <1>2, <1>3

\* The call has its first pipe, of both ends or, when pipe fails, of none.
LEMMA PipeInStep ==
    ASSUME IInv, NEW t \in Threads, pc[t] = "pipe_in",
           NEW p \in OwnPipe(call[t], "in"), Goto(t, "pipe_ex"),
           end' = [end EXCEPT ![t].in = p],
           held' \in [Procs -> SUBSET (Ends \cup {Own})],
           held'[Program] = held[Program] \cup ({p.r, p.w} \ Garbage),
           \A n \in Helpers : held'[n] = held[n],
           UNCHANGED <<env, call, asked, said, answer, text, waited, status,
                       made>>
    PROVE  IInv'
<1>1. /\ call[t] \in Helpers /\ t \in Tasks /\ t \notin waited
      /\ call[t] \in Tasks /\ call[t] # t
    BY CallsHaveHelpers DEF InCall, BeforeFork
<1>2. /\ p \in Pipe
      /\ \A e \in {p.r, p.w} \ Garbage : e.call = call[t] /\ e \in Ends
    BY <1>1, EndsApart, PipesApart
<1>3. /\ end' \in [Tasks -> [in : Pipe, ex : Pipe]]
      /\ end'[t].in = p
      /\ \A u \in Tasks : u # t => end'[u] = end[u]
    BY <1>1, <1>2, EndChanges DEF IInv
<1>4. pc'[t] = "pipe_ex" /\ pc'[call[t]] = pc[call[t]]
    BY <1>1, GotoChanges DEF IInv
<1>5. ThreadOk(t)'
    <2> USE DEF IInv, ThreadOk
    <2>1. EndsLeft(t)'
        BY <1>2, <1>3, <1>4 DEF EndsLeft, Left
    <2>2. PipesInPlace(t)'
        BY <1>3, <1>4 DEF PipesInPlace, HasIn, HasEx, AfterFork
    <2>3. ForkedOnce(t)'
        BY <1>4 DEF ForkedOnce, InCall, BeforeFork, AfterFork
    <2>4. Answers(t)'
        BY <1>1, <1>4 DEF Answers, BeforeRead, BeforeFork, AfterRead
    <2> QED BY <2>1, <2>2, <2>3, <2>4
<1> QED BY <1>1, <1>2, <1>3, <1>5, LocalStep DEF IInv, Types, Calling

\* It has its second pipe.
LEMMA PipeExStep ==
    ASSUME IInv, NEW t \in Threads, pc[t] = "pipe_ex",
           NEW p \in OwnPipe(call[t], "ex"), Goto(t, "fork"),
           end' = [end EXCEPT ![t].ex = p],
           held' \in [Procs -> SUBSET (Ends \cup {Own})],
           held'[Program] = held[Program] \cup ({p.r, p.w} \ Garbage),
           \A n \in Helpers : held'[n] = held[n],
           UNCHANGED <<env, call, asked, said, answer, text, waited, status,
                       made>>
    PROVE  IInv'
<1>1. /\ call[t] \in Helpers /\ t \in Tasks /\ t \notin waited
      /\ call[t] \in Tasks /\ call[t] # t
    BY CallsHaveHelpers DEF InCall, BeforeFork
<1>2. /\ p \in Pipe
      /\ \A e \in {p.r, p.w} \ Garbage : e.call = call[t] /\ e \in Ends
      /\ p = PipeOf(call[t], "ex") => End(call[t], "ex", "w") = p.w
      /\ End(call[t], "ex", "w") \notin Garbage
    BY <1>1, EndsApart, PipesApart
<1>3. /\ end' \in [Tasks -> [in : Pipe, ex : Pipe]]
      /\ end'[t].ex = p /\ end'[t].in = end[t].in
      /\ \A u \in Tasks : u # t => end'[u] = end[u]
    BY <1>1, <1>2, EndChanges DEF IInv
<1>4. pc'[t] = "fork" /\ pc'[call[t]] = pc[call[t]]
    BY <1>1, GotoChanges DEF IInv
<1>5. ThreadOk(t)'
    <2> USE DEF IInv, ThreadOk
    <2>1. EndsLeft(t)'
        BY <1>2, <1>3, <1>4 DEF EndsLeft, Left
    <2>2. PipesInPlace(t)'
        BY <1>2, <1>3, <1>4 DEF PipesInPlace, HasIn, HasEx, AfterFork
    <2>3. ForkedOnce(t)'
        BY <1>4 DEF ForkedOnce, InCall, BeforeFork, AfterFork
    <2>4. Answers(t)'
        BY <1>1, <1>4 DEF Answers, BeforeRead, BeforeFork, AfterRead
    <2> QED BY <2>1, <2>2, <2>3, <2>4
<1> QED BY <1>1, <1>2, <1>3, <1>5, LocalStep DEF IInv, Types, Calling

\* The actions of these steps.
LEMMA PipesStep ==
    ASSUME IInv, NEW t \in Threads, PipeIn(t) \/ PipeEx(t) \/ PipeFails(t)
    PROVE  IInv'
<1>1. CASE PipeIn(t)
    <2> DEFINE p == PipeOf(call[t], "in")
    <2>1. call[t] \in Helpers
        BY <1>1, CallsHaveHelpers DEF PipeIn, InCall, BeforeFork
    <2>2. /\ p \in OwnPipe(call[t], "in")
          /\ {p.r, p.w} \ Garbage = {p.r, p.w} /\ {p.r, p.w} \subseteq Ends
        BY <2>1, PipesApart, EndsApart
    <2>3. held' = [held EXCEPT ![Program] = @ \cup {p.r, p.w}]
        BY <1>1 DEF PipeIn, Opens
    <2> HIDE DEF p
    <2>4. /\ held' \in [Procs -> SUBSET (Ends \cup {Own})]
          /\ held'[Program] = held[Program] \cup ({p.r, p.w} \ Garbage)
          /\ \A n \in Helpers : held'[n] = held[n]
        BY <2>2, <2>3, NamesApart DEF IInv, Types
    <2>5. end' = [end EXCEPT ![t].in = p]
        BY <1>1 DEF PipeIn, p
    <2> QED BY <1>1, <2>2, <2>4, <2>5, PipeInStep DEF PipeIn
<1>2. CASE PipeEx(t)
    <2> DEFINE p == PipeOf(call[t], "ex")
    <2>1. call[t] \in Helpers
        BY <1>2, CallsHaveHelpers DEF PipeEx, InCall, BeforeFork
    <2>2. /\ p \in OwnPipe(call[t], "ex")
          /\ {p.r, p.w} \ Garbage = {p.r, p.w} /\ {p.r, p.w} \subseteq Ends
        BY <2>1, PipesApart, EndsApart
    <2>3. held' = [held EXCEPT ![Program] = @ \cup {p.r, p.w}]
        BY <1>2 DEF PipeEx, Opens
    <2> HIDE DEF p
    <2>4. /\ held' \in [Procs -> SUBSET (Ends \cup {Own})]
          /\ held'[Program] = held[Program] \cup ({p.r, p.w} \ Garbage)
          /\ \A n \in Helpers : held'[n] = held[n]
        BY <2>2, <2>3, NamesApart DEF IInv, Types
    <2>5. end' = [end EXCEPT ![t].ex = p]
        BY <1>2 DEF PipeEx, p
    <2> QED BY <1>2, <2>2, <2>4, <2>5, PipeExStep DEF PipeEx
<1>3. CASE PipeFails(t)
    <2>1. PICK r \in Garbage, w \in Garbage :
            \/ /\ pc[t] = "pipe_in"
               /\ end' = [end EXCEPT ![t].in = [r |-> r, w |-> w]]
               /\ Goto(t, "pipe_ex")
            \/ /\ pc[t] = "pipe_ex"
               /\ end' = [end EXCEPT ![t].ex = [r |-> r, w |-> w]]
               /\ Goto(t, "fork")
        BY <1>3 DEF PipeFails
    <2> DEFINE p == [r |-> r, w |-> w]
    <2>2. p \in OwnPipe(call[t], "in") /\ p \in OwnPipe(call[t], "ex")
          /\ {p.r, p.w} \ Garbage = {}
        BY DEF OwnPipe
    <2>3. UNCHANGED <<env, held, call, asked, said, answer, text, waited,
                      status, made>>
        BY <1>3 DEF PipeFails
    <2>4. held \in [Procs -> SUBSET (Ends \cup {Own})]
        BY DEF IInv, Types
    <2> HIDE DEF p
    <2>5. CASE pc[t] = "pipe_in"
        BY <2>1, <2>2, <2>3, <2>4, <2>5, PipeInStep DEF p
    <2>6. CASE pc[t] = "pipe_ex"
        BY <2>1, <2>2, <2>3, <2>4, <2>6, PipeExStep DEF p
    <2> QED BY <2>1, <2>5, <2>6
<1> QED BY <1>1, <1>2, <1>3

\* What a call has of its pipes is its own, or not an end of a pipe.
LEMMA OwnEnds ==
    ASSUME IInv, NEW t \in Threads, pc[t] \in HasEx,
           NEW e \in {end[t].in.r, end[t].in.w, end[t].ex.r, end[t].ex.w}
    PROVE  (e \in Ends /\ e.call = call[t]) \/ e \in Garbage
<1>1. /\ call[t] \in Helpers
      /\ end[t].in \in OwnPipe(call[t], "in")
      /\ end[t].ex \in OwnPipe(call[t], "ex")
    BY DEF IInv, ThreadOk, ForkedOnce, PipesInPlace, HasIn, HasEx, InCall,
           BeforeFork
<1>2. (end[t].in.r \in Ends /\ end[t].in.r.call = call[t]) \/
      end[t].in.r \in Garbage
    BY <1>1, PipesApart, EndsApart
<1>3. (end[t].in.w \in Ends /\ end[t].in.w.call = call[t]) \/
      end[t].in.w \in Garbage
    BY <1>1, PipesApart, EndsApart
<1>4. (end[t].ex.r \in Ends /\ end[t].ex.r.call = call[t]) \/
      end[t].ex.r \in Garbage
    BY <1>1, PipesApart, EndsApart
<1>5. (end[t].ex.w \in Ends /\ end[t].ex.w.call = call[t]) \/
      end[t].ex.w \in Garbage
    BY <1>1, PipesApart, EndsApart
<1> QED BY <1>2, <1>3, <1>4, <1>5

\* A call closes some of its ends and goes on.
LEMMA ClosesOwn ==
    ASSUME IInv, NEW t \in Threads, NEW l \in Calling \cup Ended, Goto(t, l),
           pc[t] \in HasEx,
           NEW X \in SUBSET {end[t].in.r, end[t].in.w,
                             end[t].ex.r, end[t].ex.w},
           held' = [held EXCEPT ![Program] = @ \ X],
           UNCHANGED <<env, call, end, asked, said, answer, text, waited,
                       status, made>>,
           ThreadOk(t)'
    PROVE  IInv'
<1>1. \A e \in X \cap held[Program] : e.call = call[t] \/ e = Own
    <2> SUFFICES ASSUME NEW e \in X, e \in held[Program]
                 PROVE  e.call = call[t] \/ e = Own
        OBVIOUS
    <2>1. e # NoEnd
        BY EndsApart, NamesApart DEF IInv, Types
    <2> QED BY <2>1, OwnEnds DEF Garbage
<1>2. /\ held' \in [Procs -> SUBSET (Ends \cup {Own})]
      /\ held'[Program] = held[Program] \ X
      /\ \A n \in Helpers : held'[n] = held[n]
    BY NamesApart DEF IInv, Types
<1> QED BY <1>1, <1>2, LocalStep DEF IInv, Types

\* fork fails: the call closes all it has and returns nothing.
LEMMA ForkFailsStep ==
    ASSUME IInv, NEW t \in Threads, ForkFails(t)
    PROVE  IInv'
<1> DEFINE X == {end[t].in.r, end[t].in.w, end[t].ex.r, end[t].ex.w}
<1>1. /\ pc[t] = "fork" /\ Goto(t, "returned")
      /\ held' = [held EXCEPT ![Program] = @ \ X]
      /\ UNCHANGED <<env, call, end, asked, said, answer, text, waited,
                     status, made>>
    BY DEF ForkFails
<1>2. held'[Program] = held[Program] \ X /\ pc'[t] = "returned"
    BY <1>1, NamesApart, GotoChanges DEF IInv, Types
<1>3. t \notin waited
    BY <1>1, CallsHaveHelpers DEF InCall, BeforeFork
<1>4. ThreadOk(t)'
    <2>1. EndsLeft(t)'
        BY <1>1, <1>2 DEF IInv, ThreadOk, EndsLeft, Left
    <2>2. PipesInPlace(t)' /\ ForkedOnce(t)'
        BY <1>2 DEF PipesInPlace, ForkedOnce, HasIn, HasEx, InCall, BeforeFork,
                    AfterFork
    <2>3. Answers(t)'
        BY <1>1, <1>2, <1>3 DEF Answers, BeforeRead, BeforeFork, AfterRead
    <2> QED BY <2>1, <2>2, <2>3 DEF ThreadOk
<1> QED BY <1>1, <1>4, ClosesOwn DEF Ended, HasEx

\* A call closes one of its ends after the other.
LEMMA CloseThenStep ==
    ASSUME IInv, NEW t \in Threads,
           CloseInR(t) \/ CloseExW(t) \/ CloseInW(t) \/ CloseExR(t)
    PROVE  IInv'
<1>1. PICK label \in AfterFork, next \in AfterFork,
           e \in {end[t].in.r, end[t].in.w, end[t].ex.r, end[t].ex.w} :
         /\ CloseThen(t, label, e, next)
         /\ \/ label = "close_ir" /\ next = "close_ew" /\ e = end[t].in.r
            \/ label = "close_ew" /\ next = "prompt" /\ e = end[t].ex.w
            \/ label = "close_iw" /\ next = "read" /\ e = end[t].in.w
            \/ label = "close_er" /\ next = "wait" /\ e = end[t].ex.r
    BY DEF CloseInR, CloseExW, CloseInW, CloseExR, AfterFork
<1>2. /\ pc[t] = label /\ Goto(t, next)
      /\ held' = [held EXCEPT ![Program] = @ \ {e}]
      /\ UNCHANGED <<env, call, end, asked, said, answer, text, waited,
                     status, made>>
    BY <1>1 DEF CloseThen, Close
<1>3. held'[Program] = held[Program] \ {e}
    BY <1>2, NamesApart DEF IInv, Types
<1>4. /\ call[t] \in Helpers /\ t \in Tasks /\ t \notin waited
      /\ call[t] \in Tasks /\ call[t] # t
    BY <1>2, CallsHaveHelpers DEF InCall
<1>5. pc'[t] = next /\ pc'[call[t]] = pc[call[t]]
    BY <1>2, <1>4, GotoChanges DEF IInv
<1>6. ThreadOk(t)'
    <2> USE DEF IInv, ThreadOk
    <2>1. EndsLeft(t)'
        BY <1>1, <1>2, <1>3, <1>5 DEF EndsLeft, Left
    <2>2. PipesInPlace(t)'
        BY <1>1, <1>2, <1>5 DEF PipesInPlace, HasIn, HasEx, AfterFork
    <2>3. ForkedOnce(t)'
        BY <1>1, <1>2, <1>5 DEF ForkedOnce, InCall, BeforeFork, AfterFork
    <2>4. Answers(t)'
        <3>1. Got(t)' = Got(t)
            BY <1>2 DEF Got
        <3>2. CASE label = "close_iw"
            <4>1. text[t] = Null /\ Got(t) = <<>>
                  /\ (status[call[t]] # "bad" =>
                         answer[call[t]] = said[call[t]])
                BY <1>2, <3>2 DEF Answers, BeforeRead, Got
            <4>2. <<>> \o answer[call[t]] = answer[call[t]]
                BY <1>4, ConcatEmptySeq DEF Types
            <4> QED BY <1>1, <1>2, <1>4, <1>5, <3>1, <3>2, <4>1, <4>2
                    DEF Answers, BeforeRead, BeforeFork, AfterRead
        <3>3. CASE label # "close_iw"
            BY <1>1, <1>2, <1>4, <1>5, <3>1, <3>3
               DEF Answers, BeforeRead, BeforeFork, AfterRead
        <3> QED BY <3>2, <3>3
    <2> QED BY <2>1, <2>2, <2>3, <2>4
<1> QED BY <1>1, <1>2, <1>6, ClosesOwn DEF HasEx, AfterFork, Calling

\* The child has what the program has, the ends of its own pipes among it.
LEMMA ForkStep ==
    ASSUME IInv, NEW t \in Threads, Fork(t)
    PROVE  IInv'
<1>0. PICK n \in Helpers : n = call[t]
    BY CallsHaveHelpers DEF Fork, InCall, BeforeFork
<1>1. /\ pc[t] = "fork" /\ pc' = [pc EXCEPT ![t] = "close_ir", ![n] = "forked"]
      /\ held' = [held EXCEPT ![n] = held[Program]]
      /\ end' = [end EXCEPT ![n] = end[t]]
      /\ UNCHANGED <<env, call, asked, said, answer, text, waited, status,
                     made>>
    BY <1>0 DEF Fork
<1>2. /\ t \in Tasks /\ t \notin waited /\ n \in Tasks /\ n # t
      /\ n # Program /\ n \in Procs /\ Program \in Procs
    BY <1>0, <1>1, CallsHaveHelpers, NamesApart DEF InCall, BeforeFork
<1>3. pc'[t] = "close_ir" /\ pc'[n] = "forked"
      /\ \A x \in Tasks : x \notin {t, n} => pc'[x] = pc[x]
    BY <1>1, <1>2 DEF IInv, Types
<1>4. /\ held' \in [Procs -> SUBSET (Ends \cup {Own})]
      /\ held'[n] = held[Program] /\ held'[Program] = held[Program]
      /\ \A m \in Helpers : m # n => held'[m] = held[m]
    BY <1>1, <1>2, NamesApart DEF IInv, Types
<1>5. /\ end' \in [Tasks -> [in : Pipe, ex : Pipe]] /\ end'[n] = end[t]
      /\ \A x \in Tasks : x # n => end'[x] = end[x]
    BY <1>1, <1>2 DEF IInv, Types
<1>6. /\ ThreadOk(t) /\ HelperOk(n) /\ pc[n] = "unborn"
      /\ end[t].in \in OwnPipe(n, "in") /\ end[t].ex \in OwnPipe(n, "ex")
      /\ end[t].ex = PipeOf(n, "ex") => End(n, "ex", "w") \in held[Program]
    BY <1>0, <1>1
       DEF IInv, ThreadOk, ForkedOnce, PipesInPlace, HasIn, HasEx, BeforeFork
<1>7. Types'
    <2>1. pc' \in [Tasks -> Calling \cup Ended \cup AskStates]
        BY <1>1 DEF IInv, Types, Calling, AskStates
    <2>2. /\ \A u \in Threads : pc'[u] \in Calling \cup Ended
          /\ \A m \in Helpers : pc'[m] \in AskStates
        BY <1>3, NamesApart DEF IInv, Types, Calling, AskStates
    <2> QED BY <1>1, <1>4, <1>5, <2>1, <2>2 DEF IInv, Types
<1>8. CallsApart' /\ Truncated'
    BY <1>1, <1>4 DEF IInv, CallsApart, Truncated
<1>9. ThreadOk(t)'
    <2>1. EndsLeft(t)'
        BY <1>1, <1>2, <1>3, <1>4, <1>5, <1>6 DEF ThreadOk, EndsLeft, Left
    <2>2. PipesInPlace(t)'
        BY <1>0, <1>1, <1>2, <1>3, <1>5, <1>6 DEF PipesInPlace
    <2>3. ForkedOnce(t)'
        BY <1>0, <1>1, <1>3 DEF ForkedOnce, BeforeFork
    <2>4. Answers(t)'
        BY <1>0, <1>1, <1>2, <1>3, <1>6
           DEF ThreadOk, Answers, BeforeRead, BeforeFork, AfterRead
    <2> QED BY <2>1, <2>2, <2>3, <2>4 DEF ThreadOk
<1>10. HelperOk(n)'
    <2>1. made \in Nat /\ ~ (n > made)
        BY <1>0, NamesApart DEF IInv, Types, CallsApart
    <2> QED BY <1>1, <1>3, <1>4, <1>5, <1>6, <2>1 DEF HelperOk, Alive
<1>11. \A u \in Threads : u # t =>
          pc'[u] = pc[u] /\ call'[u] = call[u] /\ end'[u] = end[u]
          /\ text'[u] = text[u]
    BY <1>1, <1>3, <1>5, NamesApart
<1>12. \A m \in Helpers : m # call'[t] =>
          /\ pc'[m] = pc[m] /\ status'[m] = status[m] /\ said'[m] = said[m]
          /\ answer'[m] = answer[m] /\ end'[m] = end[m]
          /\ held'[m] = held[m]
    <2>1. \A m \in Helpers : m # n => m \in Tasks /\ m \notin {t, n}
        BY NamesApart
    <2> QED BY <1>0, <1>1, <1>3, <1>4, <1>5, <2>1
<1>13. \A m \in Helpers : m = call'[t] => HelperOk(m)'
    BY <1>0, <1>1, <1>10
<1> QED BY <1>1, <1>4, <1>7, <1>8, <1>9, <1>11, <1>12, <1>13, ThreadStep

\* The prompt is written, if somebody can read it; nothing is closed.
LEMMA PromptStep ==
    ASSUME IInv, NEW t \in Threads, Prompt(t)
    PROVE  IInv'
<1>1. /\ pc[t] = "prompt" /\ Goto(t, "close_iw")
      /\ asked' \subseteq asked \cup {call[t]}
      /\ UNCHANGED <<env, held, call, end, said, answer, text, waited, status,
                     made>>
    BY DEF Prompt
<1>2. /\ call[t] \in Helpers /\ t \in Tasks /\ t \notin waited
      /\ call[t] \in Tasks /\ call[t] # t
    BY <1>1, CallsHaveHelpers DEF InCall, AfterFork
<1>3. pc'[t] = "close_iw" /\ pc'[call[t]] = pc[call[t]]
    BY <1>1, <1>2, GotoChanges DEF IInv
<1>4. ThreadOk(t)'
    <2> USE <1>1, <1>3 DEF IInv, ThreadOk
    <2>1. EndsLeft(t)'
        BY DEF EndsLeft, Left
    <2>2. PipesInPlace(t)'
        BY DEF PipesInPlace, HasIn, HasEx, AfterFork
    <2>3. ForkedOnce(t)'
        BY DEF ForkedOnce, InCall, BeforeFork, AfterFork
    <2>4. Answers(t)'
        BY <1>2 DEF Answers, BeforeRead, BeforeFork, AfterRead
    <2> QED BY <2>1, <2>2, <2>3, <2>4
<1>5. /\ asked' \subseteq Helpers
      /\ held \in [Procs -> SUBSET (Ends \cup {Own})]
      /\ end \in [Tasks -> [in : Pipe, ex : Pipe]]
      /\ text \in [Threads -> Seq(Chars) \cup {Null, Overrun}]
    BY <1>1, <1>2 DEF IInv, Types
<1> QED BY <1>1, <1>4, <1>5, LocalStep DEF Calling

\* A step of a thread with the answer: only its text changes, and what is in
\* the pipe.
LEMMA AnswerStep ==
    ASSUME IInv, NEW t \in Threads, pc[t] \in AfterFork,
           pc'[t] \in AfterFork,
           pc' \in [Tasks -> Calling \cup Ended \cup AskStates],
           \A x \in Tasks : x # t => pc'[x] = pc[x],
           text' \in [Threads -> Seq(Chars) \cup {Null, Overrun}],
           text'[t] # Overrun,
           \A u \in Threads : u # t => text'[u] = text[u],
           answer' \in [Helpers -> Seq(Chars)],
           \A n \in Helpers : \/ answer'[n] = answer[n]
                              \/ n = call[t] /\ answer'[n] = <<>>,
           UNCHANGED <<env, held, call, end, asked, said, waited, status,
                       made>>,
           EndsLeft(t)', Answers(t)'
    PROVE  IInv'
<1>1. /\ call[t] \in Helpers /\ t \in Tasks
      /\ call[t] \in Tasks /\ call[t] # t
    BY CallsHaveHelpers DEF InCall
<1>2. Types'
    <2>1. /\ \A u \in Threads : pc'[u] \in Calling \cup Ended
          /\ \A n \in Helpers : pc'[n] \in AskStates
        <3>1. /\ \A u \in Threads : u # t => pc'[u] = pc[u]
              /\ \A n \in Helpers : pc'[n] = pc[n]
              /\ pc'[t] \in Calling
            BY NamesApart DEF AfterFork, Calling
        <3> QED BY <3>1 DEF IInv, Types
    <2>2. \A n \in Helpers : Len(answer'[n]) <= Capacity
        BY EmptySeq, CupsGetpassAssumption DEF IInv, Types
    <2> QED BY <2>1, <2>2 DEF IInv, Types
<1>3. CallsApart' /\ Truncated'
    BY DEF IInv, CallsApart, Truncated
<1>4. ThreadOk(t)'
    <2> USE DEF IInv, ThreadOk
    <2>1. PipesInPlace(t)'
        BY <1>1 DEF PipesInPlace, HasIn, HasEx, AfterFork
    <2>2. ForkedOnce(t)'
        BY <1>1 DEF ForkedOnce, InCall, BeforeFork, AfterFork
    <2> QED BY <2>1, <2>2
<1>5. HelperOk(call[t])'
    <2>1. HelperOk(call[t]) /\ pc'[call[t]] = pc[call[t]]
        BY <1>1 DEF IInv
    <2> QED BY <1>1, <2>1 DEF HelperOk
<1>6. \A u \in Threads : u # t =>
          pc'[u] = pc[u] /\ call'[u] = call[u] /\ end'[u] = end[u]
          /\ text'[u] = text[u]
    BY NamesApart
<1>7. \A n \in Helpers : n # call'[t] =>
          /\ pc'[n] = pc[n] /\ status'[n] = status[n] /\ said'[n] = said[n]
          /\ answer'[n] = answer[n] /\ end'[n] = end[n]
          /\ held'[n] = held[n]
    BY <1>1, NamesApart
<1> QED BY <1>2, <1>3, <1>4, <1>5, <1>6, <1>7, ThreadStep

\* fgets reads what is in the pipe, or from a file of the program.
LEMMA ReadStep ==
    ASSUME IInv, NEW t \in Threads, Read(t)
    PROVE  IInv'
<1> DEFINE n == call[t]
<1>1. /\ pc[t] = "read" /\ end[t].ex.r # NoEnd
      /\ UNCHANGED <<env, held, pc, call, end, asked, said, waited, status,
                     made>>
    BY EndsApart DEF Read
<1>2. n \in Helpers /\ t \notin waited
    BY <1>1, CallsHaveHelpers DEF InCall, AfterFork
<1>3. /\ Types /\ Answers(t) /\ EndsLeft(t)
      /\ end[t].ex \in OwnPipe(n, "ex")
    BY <1>1 DEF IInv, ThreadOk, PipesInPlace, HasEx, AfterFork
<1>4. Got(t) \in Seq(Chars) /\ answer[n] \in Seq(Chars)
    BY <1>1, <1>2, <1>3, TextsApart DEF Answers, Got, Types
<1>5. EndsLeft(t)'
    BY <1>1, <1>3 DEF EndsLeft, Left
<1>6. CASE end[t].ex.r = Own
    <2>1. text' = [text EXCEPT ![t] = <<"d", "nl">>] /\ answer' = answer
        BY <1>6 DEF Read
    <2>2. end[t].ex # PipeOf(n, "ex")
        BY <1>2, <1>6, PipesApart, EndsApart
    <2>3. /\ text'[t] \in Seq(Chars) /\ text'[t] # Overrun
          /\ text' \in [Threads -> Seq(Chars) \cup {Null, Overrun}]
          /\ \A u \in Threads : u # t => text'[u] = text[u]
        BY <2>1, TextsApart DEF IInv, Types
    <2>4. Answers(t)'
        BY <1>1, <1>2, <2>2, <2>3
           DEF Answers, BeforeRead, BeforeFork, AfterRead
    <2>5. answer \in [Helpers -> Seq(Chars)] /\ pc[t] \in AfterFork
          /\ pc \in [Tasks -> Calling \cup Ended \cup AskStates]
        BY <1>1, <1>3 DEF Types, AfterFork
    <2> QED BY <1>1, <1>5, <2>1, <2>3, <2>4, <2>5, AnswerStep
<1>7. CASE end[t].ex.r # Own
    <2> DEFINE new == Got(t) \o answer[n]
    <2>1. text' = [text EXCEPT ![t] = new]
          /\ answer' = [answer EXCEPT ![n] = <<>>]
        BY <1>7 DEF Read
    <2>2. new \in Seq(Chars)
        BY <1>4, ConcatProperties
    <2>3. status[n] # "bad" /\ end[t].ex = PipeOf(n, "ex") => new = said[n]
        BY <1>1, <1>3 DEF Answers
    <2> HIDE DEF new
    <2>4. /\ text'[t] = new /\ text'[t] # Overrun
          /\ text' \in [Threads -> Seq(Chars) \cup {Null, Overrun}]
          /\ \A u \in Threads : u # t => text'[u] = text[u]
        BY <1>3, <2>1, <2>2, TextsApart DEF Types
    <2>5. answer'[n] = <<>>
          /\ answer' \in [Helpers -> Seq(Chars)]
          /\ \A m \in Helpers : m # n => answer'[m] = answer[m]
        BY <1>2, <1>3, <2>1, TextsApart DEF Types
    <2>6. Got(t)' \o answer'[n] = new
        <3>1. Got(t)' = new
            BY <2>2, <2>4, TextsApart DEF Got
        <3> QED BY <2>2, <2>5, <3>1, ConcatEmptySeq
    <2>7. Answers(t)'
        BY <1>1, <1>2, <2>2, <2>3, <2>4, <2>6
           DEF Answers, BeforeRead, BeforeFork, AfterRead
    <2>8. pc[t] \in AfterFork
          /\ pc \in [Tasks -> Calling \cup Ended \cup AskStates]
        BY <1>1, <1>3 DEF Types, AfterFork
    <2> QED BY <1>1, <1>5, <2>4, <2>5, <2>7, <2>8, AnswerStep
<1> QED BY <1>6, <1>7

\* A process that runs has its end, and so there is no more to come when
\* nobody has it.
LEMMA WriterGone ==
    ASSUME IInv, NEW t \in Threads, pc[t] \in AfterFork,
           end[t].ex = PipeOf(call[t], "ex"), Gone(call[t], "ex", "w")
    PROVE  pc[call[t]] \in Finished
<1> DEFINE n == call[t]
<1>1. n \in Helpers /\ n \in Procs
    BY CallsHaveHelpers DEF InCall
<1>2. End(n, "ex", "w") \notin held[n]
    BY <1>1 DEF Gone
<1>3. ForkedOnce(t) /\ PipesInPlace(t) /\ HelperOk(n) /\ pc[n] \in AskStates
    BY <1>1 DEF IInv, ThreadOk, Types
<1>4. pc[n] # "unborn"
    BY <1>3 DEF ForkedOnce
<1>5. pc[n] \notin Alive
    BY <1>2, <1>3 DEF PipesInPlace, HelperOk
<1> QED BY <1>3, <1>4, <1>5 DEF AskStates, Alive, Finished

\* fgets has a line, or all that there will be.
LEMMA ReadEndsStep ==
    ASSUME IInv, NEW t \in Threads, ReadEnds(t)
    PROVE  IInv'
<1> DEFINE n == call[t]
           new == IF Got(t) = <<>> THEN Null ELSE FirstLine(Got(t))
<1>1. /\ pc[t] = "read" /\ text' = [text EXCEPT ![t] = new]
      /\ Goto(t, "close_er")
      /\ UNCHANGED <<env, held, call, end, asked, said, answer, waited, status,
                     made>>
    BY DEF ReadEnds
<1>2. /\ n \in Helpers /\ t \notin waited /\ t \in Tasks /\ n # t /\ n \in Tasks
    BY <1>1, CallsHaveHelpers DEF InCall, AfterFork
<1>3. /\ Types /\ Answers(t) /\ EndsLeft(t)
      /\ end[t].ex \in OwnPipe(n, "ex")
    BY <1>1 DEF IInv, ThreadOk, PipesInPlace, HasEx, AfterFork
<1>4. Got(t) \in Seq(Chars) /\ answer[n] \in Seq(Chars)
    BY <1>1, <1>2, <1>3, TextsApart DEF Answers, Got, Types
<1>5. new \in Seq(Chars) \cup {Null}
    BY <1>4, FirstLineFits
<1>6. /\ pc'[t] = "close_er" /\ \A x \in Tasks : x # t => pc'[x] = pc[x]
      /\ pc' \in [Tasks -> Calling \cup Ended \cup AskStates]
    BY <1>1, <1>2, <1>3, GotoChanges DEF Calling
<1>7. EndsLeft(t)'
    BY <1>1, <1>3, <1>6 DEF EndsLeft, Left
<1>8. ASSUME end[t].ex = PipeOf(n, "ex"), status[n] # "bad", new # Null
      PROVE  /\ new = FirstLine(said[n])
             /\ IsLine(said[n]) \/ pc[n] \in Finished
    <2>1. Got(t) \o answer[n] = said[n] /\ new = FirstLine(Got(t))
        BY <1>1, <1>3, <1>8 DEF Answers
    <2>2. CASE IsLine(Got(t))
        BY <1>4, <2>1, <2>2, LineKept
    <2>3. CASE answer[n] = <<>> /\ Gone(n, "ex", "w")
        <3>1. Got(t) = said[n]
            BY <1>4, <2>1, <2>3, ConcatEmptySeq
        <3>2. pc[n] \in Finished
            BY <1>1, <1>8, <2>3, WriterGone DEF AfterFork
        <3> QED BY <2>1, <3>1, <3>2
    <2> QED BY <2>2, <2>3 DEF ReadEnds
<1> HIDE DEF new
<1>9. /\ text'[t] = new /\ text'[t] # Overrun
      /\ text' \in [Threads -> Seq(Chars) \cup {Null, Overrun}]
      /\ \A u \in Threads : u # t => text'[u] = text[u]
    BY <1>1, <1>3, <1>5, TextsApart DEF Types
<1>10. Answers(t)'
    BY <1>1, <1>2, <1>6, <1>8, <1>9
       DEF Answers, BeforeRead, BeforeFork, AfterRead
<1>11. /\ answer' \in [Helpers -> Seq(Chars)]
       /\ \A m \in Helpers : answer'[m] = answer[m]
       /\ pc[t] \in AfterFork /\ pc'[t] \in AfterFork
    BY <1>1, <1>3, <1>6 DEF Types, AfterFork
<1> QED BY <1>1, <1>6, <1>7, <1>9, <1>10, <1>11, AnswerStep

\* fgets fails, and the call has no answer.
LEMMA ReadFailsStep ==
    ASSUME IInv, NEW t \in Threads, ReadFails(t)
    PROVE  IInv'
<1>1. /\ pc[t] = "read" /\ text' = [text EXCEPT ![t] = Null]
      /\ Goto(t, "close_er")
      /\ UNCHANGED <<env, held, call, end, asked, said, answer, waited, status,
                     made>>
    BY DEF ReadFails
<1>2. t \notin waited /\ t \in Tasks
    BY <1>1, CallsHaveHelpers DEF InCall, AfterFork
<1>3. Types /\ EndsLeft(t)
    BY DEF IInv, ThreadOk
<1>4. /\ pc'[t] = "close_er" /\ \A x \in Tasks : x # t => pc'[x] = pc[x]
      /\ pc' \in [Tasks -> Calling \cup Ended \cup AskStates]
    BY <1>1, <1>2, <1>3, GotoChanges DEF Calling
<1>5. EndsLeft(t)'
    BY <1>1, <1>3, <1>4 DEF EndsLeft, Left
<1>6. /\ text'[t] = Null /\ text'[t] # Overrun
      /\ text' \in [Threads -> Seq(Chars) \cup {Null, Overrun}]
      /\ \A u \in Threads : u # t => text'[u] = text[u]
    BY <1>1, <1>3, TextsApart DEF Types
<1>7. Answers(t)'
    BY <1>1, <1>2, <1>4, <1>6
       DEF Answers, BeforeRead, BeforeFork, AfterRead
<1>8. /\ answer' \in [Helpers -> Seq(Chars)]
      /\ \A n \in Helpers : answer'[n] = answer[n]
      /\ pc[t] \in AfterFork /\ pc'[t] \in AfterFork
    BY <1>1, <1>3, <1>4 DEF Types, AfterFork
<1> QED BY <1>1, <1>4, <1>5, <1>6, <1>7, <1>8, AnswerStep

\* waitpid tells the call how its process has ended: not badly, if it returns
\* the answer.
LEMMA WaitStep ==
    ASSUME IInv, NEW t \in Threads, Wait(t)
    PROVE  IInv'
<1>0. PICK n \in Helpers : n = call[t]
    BY CallsHaveHelpers DEF Wait, InCall, AfterFork
<1>1. /\ pc[t] = "wait" /\ pc[n] = "zombie"
      /\ pc' = [pc EXCEPT ![t] = "returned", ![n] = "reaped"]
      /\ waited' = waited \cup {t}
      /\ text' = IF status[n] = "bad" THEN [text EXCEPT ![t] = Null] ELSE text
      /\ UNCHANGED <<env, held, call, end, asked, said, answer, status, made>>
    BY <1>0 DEF Wait
<1>2. t \in Tasks /\ n \in Tasks /\ n # t
    BY NamesApart
<1>3. /\ pc'[t] = "returned" /\ pc'[n] = "reaped"
      /\ pc' \in [Tasks -> Calling \cup Ended \cup AskStates]
      /\ \A x \in Tasks : x \notin {t, n} => pc'[x] = pc[x]
    BY <1>1, <1>2 DEF IInv, Types, Ended, AskStates
<1>4. /\ text' \in [Threads -> Seq(Chars) \cup {Null, Overrun}]
      /\ text'[t] = IF status[n] = "bad" THEN Null ELSE text[t]
      /\ \A u \in Threads : u # t => text'[u] = text[u]
    BY <1>1 DEF IInv, Types
<1>5. ThreadOk(t) /\ HelperOk(n)
    BY DEF IInv
<1>6. Types'
    <2>1. /\ \A u \in Threads : pc'[u] \in Calling \cup Ended
          /\ \A m \in Helpers : pc'[m] \in AskStates
        <3>1. /\ \A u \in Threads : u # t => pc'[u] = pc[u]
              /\ \A m \in Helpers : m # n => pc'[m] = pc[m]
            BY <1>3, NamesApart
        <3> QED BY <1>3, <3>1 DEF IInv, Types, Ended, AskStates
    <2> QED BY <1>1, <1>3, <1>4, <2>1 DEF IInv, Types
<1>7. CallsApart' /\ Truncated'
    BY <1>1, <1>4, TextsApart DEF IInv, CallsApart, Truncated
<1>8. ThreadOk(t)'
    <2>1. EndsLeft(t)'
        BY <1>1, <1>3, <1>5 DEF ThreadOk, EndsLeft, Left
    <2>2. PipesInPlace(t)' /\ ForkedOnce(t)'
        BY <1>3 DEF PipesInPlace, ForkedOnce, HasIn, HasEx, InCall, BeforeFork,
                    AfterFork
    <2>3. Answers(t)'
        BY <1>0, <1>1, <1>3, <1>4, <1>5
           DEF ThreadOk, Answers, BeforeRead, BeforeFork, AfterRead
    <2> QED BY <2>1, <2>2, <2>3 DEF ThreadOk
<1>9. \A m \in Helpers : m = call'[t] => HelperOk(m)'
    BY <1>0, <1>1, <1>3, <1>5 DEF HelperOk, Alive
<1>10. \A u \in Threads : u # t =>
          pc'[u] = pc[u] /\ call'[u] = call[u] /\ end'[u] = end[u]
          /\ text'[u] = text[u]
    BY <1>1, <1>3, <1>4, NamesApart
<1>11. \A m \in Helpers : m # call'[t] =>
          /\ pc'[m] = pc[m] /\ status'[m] = status[m] /\ said'[m] = said[m]
          /\ answer'[m] = answer[m] /\ end'[m] = end[m]
          /\ held'[m] = held[m]
    BY <1>0, <1>1, <1>3, NamesApart
<1> QED BY <1>1, <1>6, <1>7, <1>8, <1>9, <1>10, <1>11, ThreadStep

\* waitpid fails: nothing is known of the process.
LEMMA WaitFailsStep ==
    ASSUME IInv, NEW t \in Threads, WaitFails(t)
    PROVE  IInv'
<1>1. /\ pc[t] = "wait" /\ Goto(t, "returned")
      /\ UNCHANGED <<env, held, call, end, asked, said, answer, text, waited,
                     status, made>>
    BY DEF WaitFails
<1>2. t \notin waited /\ EndsLeft(t)
    BY <1>1, CallsHaveHelpers DEF InCall, AfterFork, IInv, ThreadOk
<1>3. ThreadOk(t)'
    BY <1>1, <1>2, GotoChanges, NamesApart, OutsideOk DEF IInv
<1> QED BY <1>1, <1>3, LocalStep DEF IInv, Types, Ended

\* The library or the program itself ends the program.
LEMMA EndsProgram ==
    ASSUME IInv, NEW t \in Threads, GetpassExits(t) \/ Crashes(t)
    PROVE  IInv'
BY DiesStep DEF GetpassExits, Crashes

-----------------------------------------------------------------------------
(* A step of an askpass process *)

\* Whatever a process does that has been forked and not reaped, the call it
\* belongs to can go on with what it has.
LEMMA AnsweredOk ==
    ASSUME IInv, NEW t \in Threads, NEW n \in Helpers, call[t] = n,
           UNCHANGED <<call, text, waited>>,
           pc'[t] = pc[t], end'[t] = end[t], held'[Program] = held[Program],
           pc[n] \in Alive \cup {"zombie"}, pc'[n] \in Alive \cup Finished,
           pc[n] \in Finished => pc'[n] \in Finished,
           pc'[n] \in Alive => end'[n] = end[n],
           status[n] = "bad" => status'[n] = "bad",
           status'[n] # "bad" =>
              \/ said'[n] = said[n] /\ answer'[n] = answer[n]
              \/ pc[n] \in Alive /\ \E w \in Seq(Chars) :
                     said'[n] = said[n] \o w /\ answer'[n] = answer[n] \o w
    PROVE  ThreadOk(t)'
<1>1. ThreadOk(t) /\ said[n] \in Seq(Chars) /\ answer[n] \in Seq(Chars)
    BY DEF IInv, Types
<1>2. /\ pc[n] # "unborn" /\ pc[n] # "reaped" /\ pc'[n] # "unborn"
      /\ pc'[n] \in Alive => pc[n] \in Alive
      /\ pc[n] \in Alive => pc[n] \notin Finished
    BY DEF Alive, Finished
<1>3. pc[t] \notin BeforeFork /\ t \notin waited
    BY <1>1, <1>2 DEF ThreadOk, ForkedOnce, Answers
<1>4. EndsLeft(t)'
    BY <1>1 DEF ThreadOk, EndsLeft, Left
<1>5. PipesInPlace(t)'
    <2>1. PipesInPlace(t) /\ call'[t] = n
        BY <1>1 DEF ThreadOk
    <2> QED BY <1>2, <2>1 DEF PipesInPlace
<1>6. ForkedOnce(t)'
    BY <1>1, <1>2, <1>3 DEF ThreadOk, ForkedOnce
<1>7. Got(t)' = Got(t)
    BY DEF Got
<1>8. CASE status'[n] = "bad"
    BY <1>1, <1>3, <1>4, <1>5, <1>6, <1>8 DEF ThreadOk, Answers
<1>9. CASE status'[n] # "bad" /\ said'[n] = said[n] /\ answer'[n] = answer[n]
    BY <1>1, <1>3, <1>4, <1>5, <1>6, <1>7, <1>9 DEF ThreadOk, Answers
<1>10. CASE status'[n] # "bad" /\ pc[n] \in Alive /\ \E w \in Seq(Chars) :
               said'[n] = said[n] \o w /\ answer'[n] = answer[n] \o w
    <2>1. PICK w \in Seq(Chars) :
             said'[n] = said[n] \o w /\ answer'[n] = answer[n] \o w
        BY <1>10
    <2>2. status[n] # "bad"
        BY <1>10
    <2>3. ASSUME pc[t] \in BeforeRead
          PROVE  text[t] = Null /\ answer'[n] = said'[n]
        BY <1>1, <2>1, <2>2, <2>3 DEF ThreadOk, Answers
    <2>4. ASSUME pc[t] = "read", end[t].ex = PipeOf(n, "ex")
          PROVE  Got(t) \o answer'[n] = said'[n]
        <3>1. Got(t) \o answer[n] = said[n] /\ Got(t) \in Seq(Chars)
            BY <1>1, <2>2, <2>4, TextsApart DEF ThreadOk, Answers, Got
        <3>2. (Got(t) \o answer[n]) \o w = Got(t) \o (answer[n] \o w)
            BY <1>1, <2>1, <3>1, WrittenLater, Zenon
        <3> QED BY <2>1, <3>1, <3>2
    <2>5. ASSUME pc[t] \in AfterRead, end[t].ex = PipeOf(n, "ex"),
                 text[t] # Null
          PROVE  text[t] = FirstLine(said'[n]) /\ IsLine(said'[n])
        <3>1. text[t] = FirstLine(said[n]) /\ IsLine(said[n])
            BY <1>1, <1>2, <1>10, <2>2, <2>5 DEF ThreadOk, Answers
        <3> QED BY <1>1, <2>1, <3>1, LineKept
    <2>6. pc[t] = "read" => text[t] \in Seq(Chars) \cup {Null}
        BY <1>1 DEF ThreadOk, Answers
    <2>7. Answers(t)'
        BY <1>3, <1>7, <2>3, <2>4, <2>5, <2>6 DEF Answers
    <2> QED BY <1>4, <1>5, <1>6, <2>7 DEF ThreadOk
<1> QED BY <1>8, <1>9, <1>10

\* A process goes on, and may write.
LEMMA GoesOn ==
    ASSUME IInv, NEW n \in Helpers, pc[n] \in Alive, pc'[n] \in Alive,
           pc' \in [Tasks -> Calling \cup Ended \cup AskStates],
           \A x \in Tasks : x # n => pc'[x] = pc[x],
           UNCHANGED <<env, call, end, asked, text, waited, status, made>>,
           held' \in [Procs -> SUBSET (Ends \cup {Own})],
           \A q \in Procs : q # n => held'[q] = held[q],
           End(n, "ex", "w") \in held[n] => End(n, "ex", "w") \in held'[n],
           said' \in [Helpers -> Seq(Chars)],
           answer' \in [Helpers -> Seq(Chars)], Len(answer'[n]) <= Capacity,
           \A m \in Helpers : m # n =>
              said'[m] = said[m] /\ answer'[m] = answer[m],
           \/ said'[n] = said[n] /\ answer'[n] = answer[n]
           \/ \E w \in Seq(Chars) :
                  said'[n] = said[n] \o w /\ answer'[n] = answer[n] \o w
    PROVE  IInv'
<1>1. held'[Program] = held[Program]
    BY NamesApart
<1>2. Types'
    <2>1. /\ \A u \in Threads : pc'[u] \in Calling \cup Ended
          /\ \A m \in Helpers : pc'[m] \in AskStates
        <3>1. /\ \A u \in Threads : pc'[u] = pc[u]
              /\ \A m \in Helpers : m # n => pc'[m] = pc[m]
              /\ pc'[n] \in AskStates
            BY NamesApart DEF Alive, AskStates
        <3> QED BY <3>1 DEF IInv, Types
    <2>2. \A m \in Helpers : Len(answer'[m]) <= Capacity
        BY DEF IInv, Types
    <2> QED BY <2>1, <2>2 DEF IInv, Types
<1>3. HelperOk(n)'
    <2>1. HelperOk(n) /\ pc[n] # "unborn" /\ pc'[n] # "unborn"
        BY DEF IInv, Alive
    <2> QED BY <2>1 DEF HelperOk
<1>4. \A t \in Threads : call[t] = n => ThreadOk(t)'
    <2> SUFFICES ASSUME NEW t \in Threads, call[t] = n PROVE ThreadOk(t)'
        OBVIOUS
    <2>1. pc'[t] = pc[t] /\ pc[n] \notin Finished
        BY NamesApart DEF Alive, Finished
    <2> QED BY <1>1, <2>1, AnsweredOk
<1>5. \A x \in Tasks : x # n => pc'[x] = pc[x] /\ end'[x] = end[x]
    OBVIOUS
<1>6. \A m \in Helpers : m # n =>
          /\ status'[m] = status[m] /\ said'[m] = said[m]
          /\ answer'[m] = answer[m] /\ held'[m] = held[m]
    BY NamesApart
<1> QED BY <1>1, <1>2, <1>3, <1>4, <1>5, <1>6, HelperStep

\* The child closes what is its parent's, becomes the askpass program, and
\* that reads its input and writes.
LEMMA AskpassGoesOn ==
    ASSUME IInv, NEW n \in Helpers,
           Wire(n) \/ Exec(n) \/ Reads(n) \/ Unblocks(n) \/ Writes(n)
    PROVE  IInv'
<1>1. Types /\ n \in Tasks /\ n \in Procs /\ HelperOk(n)
    BY NamesApart DEF IInv
<1>2. CASE Exec(n) \/ Reads(n) \/ Unblocks(n)
    <2>1. PICK l \in Alive : Goto(n, l)
        BY <1>2 DEF Exec, Reads, Unblocks, Alive
    <2>2. /\ pc[n] \in Alive
          /\ UNCHANGED <<env, held, call, end, asked, said, answer, text,
                         waited, status, made>>
        BY <1>2 DEF Exec, Reads, Unblocks, Alive
    <2>3. /\ pc'[n] \in Alive /\ \A x \in Tasks : x # n => pc'[x] = pc[x]
          /\ pc' \in [Tasks -> Calling \cup Ended \cup AskStates]
        BY <1>1, <2>1, GotoChanges DEF Alive, AskStates
    <2> QED BY <1>1, <2>2, <2>3, GoesOn DEF Types
<1>3. CASE Wire(n)
    <2>1. /\ pc[n] \in Alive /\ Goto(n, "wired")
          /\ held' = [held EXCEPT ![n] = @ \ {end[n].in.w, end[n].ex.r}]
          /\ UNCHANGED <<env, call, end, asked, said, answer, text, waited,
                         status, made>>
        BY <1>3 DEF Wire, Alive
    <2>2. /\ pc'[n] \in Alive /\ \A x \in Tasks : x # n => pc'[x] = pc[x]
          /\ pc' \in [Tasks -> Calling \cup Ended \cup AskStates]
        BY <1>1, <2>1, GotoChanges DEF Alive, AskStates
    <2>3. /\ held' \in [Procs -> SUBSET (Ends \cup {Own})]
          /\ held'[n] = held[n] \ {end[n].in.w, end[n].ex.r}
          /\ \A q \in Procs : q # n => held'[q] = held[q]
        BY <1>1, <2>1 DEF Types
    <2>4. end[n].in.w # End(n, "ex", "w") /\ end[n].ex.r # End(n, "ex", "w")
        <3>1. end[n].in \in OwnPipe(n, "in") /\ end[n].ex \in OwnPipe(n, "ex")
            BY <1>1, <2>1 DEF HelperOk
        <3>2. /\ end[n].in.w = End(n, "in", "w") \/ end[n].in.w \in Garbage
              /\ end[n].ex.r = End(n, "ex", "r") \/ end[n].ex.r \in Garbage
            BY <3>1, PipesApart
        <3>3. /\ End(n, "in", "w").pipe = "in" /\ End(n, "ex", "w").pipe = "ex"
              /\ End(n, "ex", "r").side = "r" /\ End(n, "ex", "w").side = "w"
              /\ End(n, "ex", "w") \notin Garbage
            BY EndsApart
        <3> QED BY <3>2, <3>3
    <2> QED BY <1>1, <2>1, <2>2, <2>3, <2>4, GoesOn DEF Types
<1>4. CASE Writes(n)
    <2>1. /\ pc[n] \in Alive
          /\ UNCHANGED <<env, held, call, end, asked, text, waited, status,
                         made>>
        BY <1>4 DEF Writes, Alive
    <2>2. CASE Full(n)
        <3>1. Goto(n, "blocked") /\ UNCHANGED <<said, answer>>
            BY <1>4, <2>2 DEF Writes
        <3>2. /\ pc'[n] \in Alive /\ \A x \in Tasks : x # n => pc'[x] = pc[x]
              /\ pc' \in [Tasks -> Calling \cup Ended \cup AskStates]
            BY <1>1, <3>1, GotoChanges DEF Alive, AskStates
        <3> QED BY <1>1, <2>1, <3>1, <3>2, GoesOn DEF Types
    <2>3. CASE ~ Full(n)
        <3>1. PICK ch \in Chars :
                 /\ said' = [said EXCEPT ![n] = Append(@, ch)]
                 /\ answer' = [answer EXCEPT ![n] = Append(@, ch)]
                 /\ UNCHANGED pc
            BY <1>4, <2>3 DEF Writes, Chars
        <3>2. said[n] \in Seq(Chars) /\ answer[n] \in Seq(Chars)
            BY <1>1 DEF Types
        <3>3. /\ Append(said[n], ch) = said[n] \o <<ch>>
              /\ Append(answer[n], ch) = answer[n] \o <<ch>>
              /\ Append(said[n], ch) \in Seq(Chars)
              /\ Append(answer[n], ch) \in Seq(Chars)
              /\ Len(Append(answer[n], ch)) = Len(answer[n]) + 1
              /\ Len(answer[n]) \in Nat /\ <<ch>> \in Seq(Chars)
            BY <3>2, AppendProperties, AppendIsConcat, LenProperties, TextsApart
        <3>4. Len(answer[n]) <= Capacity /\ Len(answer[n]) # Capacity
            BY <1>1, <2>3 DEF Types, Full
        <3>5. /\ said' \in [Helpers -> Seq(Chars)]
              /\ answer' \in [Helpers -> Seq(Chars)]
              /\ said'[n] = said[n] \o <<ch>>
              /\ answer'[n] = answer[n] \o <<ch>>
              /\ \A m \in Helpers : m # n =>
                    said'[m] = said[m] /\ answer'[m] = answer[m]
            BY <1>1, <3>1, <3>3 DEF Types
        <3>6. Len(answer'[n]) <= Capacity
            BY <3>3, <3>4, <3>5, CupsGetpassAssumption
        <3>7. pc[n] \in Alive /\ pc'[n] \in Alive
              /\ pc' \in [Tasks -> Calling \cup Ended \cup AskStates]
            BY <1>1, <2>1, <3>1 DEF Types
        <3>8. held' \in [Procs -> SUBSET (Ends \cup {Own})]
            BY <1>1, <2>1 DEF Types
        <3> QED BY <1>1, <2>1, <3>1, <3>3, <3>5, <3>6, <3>7, <3>8, GoesOn
    <2> QED BY <2>2, <2>3
<1> QED BY <1>2, <1>3, <1>4

\* A process ends; only one that has ended badly has put into the pipe what it
\* has not written itself.
LEMMA DeadStep ==
    ASSUME IInv, NEW n \in Helpers, pc[n] \in Alive,
           NEW how \in {"ok", "bad", "killed"}, Dead(n, how),
           answer' \in [Helpers -> Seq(Chars)], Len(answer'[n]) <= Capacity,
           \A m \in Helpers : m # n => answer'[m] = answer[m],
           how # "bad" => answer'[n] = answer[n]
    PROVE  IInv'
<1>1. /\ status' = [status EXCEPT ![n] = how]
      /\ held' = [held EXCEPT ![n] = {}] /\ Goto(n, "zombie")
      /\ end' = [end EXCEPT ![n] = [in |-> NoPipe, ex |-> NoPipe]]
      /\ UNCHANGED <<env, call, asked, said, text, waited, made>>
    BY DEF Dead
<1>2. Types /\ n \in Tasks /\ n \in Procs /\ n # Program
    BY NamesApart DEF IInv
<1>3. /\ pc'[n] = "zombie" /\ \A x \in Tasks : x # n => pc'[x] = pc[x]
      /\ pc' \in [Tasks -> Calling \cup Ended \cup AskStates]
    BY <1>1, <1>2, GotoChanges DEF AskStates
<1>4. /\ held' \in [Procs -> SUBSET (Ends \cup {Own})]
      /\ \A q \in Procs : q # n => held'[q] = held[q]
      /\ held'[Program] = held[Program]
    BY <1>1, <1>2, NamesApart DEF Types
<1>5. /\ status' \in [Helpers -> {"none", "ok", "bad", "killed"}]
      /\ status'[n] = how
      /\ \A m \in Helpers : m # n => status'[m] = status[m]
    BY <1>1, <1>2 DEF Types
<1>6. /\ end' \in [Tasks -> [in : Pipe, ex : Pipe]]
      /\ \A x \in Tasks : x # n => end'[x] = end[x]
    <2>1. NoPipe \in Pipe
        BY EndsApart DEF NoPipe, Pipe
    <2>2. [in |-> NoPipe, ex |-> NoPipe] \in [in : Pipe, ex : Pipe]
        BY <2>1
    <2> QED BY <1>1, <1>2, <2>2 DEF Types
<1>7. Types'
    <2>1. /\ \A u \in Threads : pc'[u] \in Calling \cup Ended
          /\ \A m \in Helpers : pc'[m] \in AskStates
        BY <1>2, <1>3, NamesApart DEF Types, AskStates
    <2>2. \A m \in Helpers : Len(answer'[m]) <= Capacity
        BY <1>2 DEF Types
    <2> QED BY <1>1, <1>2, <1>3, <1>4, <1>5, <1>6, <2>1, <2>2 DEF Types
<1>8. HelperOk(n)'
    <2>1. HelperOk(n) /\ pc[n] # "unborn"
        BY DEF IInv, Alive
    <2> QED BY <1>1, <1>3, <1>5, <2>1 DEF HelperOk, Alive
<1>9. \A t \in Threads : call[t] = n => ThreadOk(t)'
    <2> SUFFICES ASSUME NEW t \in Threads, call[t] = n PROVE ThreadOk(t)'
        OBVIOUS
    <2>1. pc'[t] = pc[t] /\ end'[t] = end[t]
        BY <1>3, <1>6, NamesApart
    <2>2. status[n] # "bad" /\ pc[n] \notin Finished
        BY DEF IInv, HelperOk, Alive, Finished
    <2>3. pc'[n] \in Finished /\ pc'[n] \notin Alive
        BY <1>3 DEF Finished, Alive
    <2>4. status'[n] # "bad" => said'[n] = said[n] /\ answer'[n] = answer[n]
        BY <1>1, <1>5
    <2> QED BY <1>1, <1>4, <2>1, <2>2, <2>3, <2>4, AnsweredOk
<1>10. \A x \in Tasks : x # n => pc'[x] = pc[x] /\ end'[x] = end[x]
    BY <1>3, <1>6
<1>11. \A m \in Helpers : m # n =>
          /\ status'[m] = status[m] /\ said'[m] = said[m]
          /\ answer'[m] = answer[m] /\ held'[m] = held[m]
    BY <1>1, <1>4, <1>5, NamesApart
<1> QED BY <1>1, <1>4, <1>7, <1>8, <1>9, <1>10, <1>11, HelperStep

\* It ends by itself, by a signal, or without having become the program.
LEMMA AskpassEnds ==
    ASSUME IInv, NEW n \in Helpers, ExecFails(n) \/ Killed(n) \/ AskEnds(n)
    PROVE  IInv'
<1>1. Types /\ Len(answer[n]) <= Capacity
    BY DEF IInv, Types
<1>2. CASE Killed(n) \/ AskEnds(n)
    <2>1. pc[n] \in Alive /\ answer' = answer
          /\ \E how \in {"ok", "bad", "killed"} : Dead(n, how)
        BY <1>2 DEF Killed, AskEnds, Alive
    <2> QED BY <1>1, <2>1, DeadStep DEF Types
<1>3. CASE ExecFails(n)
    <2> DEFINE new == IF env.printed /\ end[n].ex.w \notin Garbage
                      THEN <<"u">> ELSE answer[n]
    <2>1. pc[n] \in Alive /\ Dead(n, "bad")
        BY <1>3 DEF ExecFails, Alive
    <2>2. answer' = [answer EXCEPT ![n] = new]
        <3>1. answer = [answer EXCEPT ![n] = answer[n]]
            BY <1>1 DEF Types
        <3> QED BY <1>3, <3>1 DEF ExecFails
    <2>3. new \in Seq(Chars) /\ Len(new) <= Capacity
        <3>1. <<"u">> \in Seq(Chars) /\ Len(<<"u">>) = 1
            BY TextsApart DEF Chars
        <3>2. 1 <= Capacity
            BY CupsGetpassAssumption
        <3> QED BY <1>1, <3>1, <3>2 DEF Types
    <2> HIDE DEF new
    <2>4. /\ answer' \in [Helpers -> Seq(Chars)] /\ answer'[n] = new
          /\ \A m \in Helpers : m # n => answer'[m] = answer[m]
        BY <1>1, <2>2, <2>3 DEF Types
    <2> QED BY <2>1, <2>3, <2>4, DeadStep
<1> QED BY <1>2, <1>3

\* The program's own handler of SIGCHLD takes the status.
LEMMA ReapStep ==
    ASSUME IInv, NEW n \in Helpers, Reap(n)
    PROVE  IInv'
<1>1. /\ pc[n] = "zombie" /\ Goto(n, "reaped")
      /\ UNCHANGED <<env, held, call, end, asked, said, answer, text, waited,
                     status, made>>
    BY DEF Reap
<1>2. Types /\ n \in Tasks /\ HelperOk(n)
    BY NamesApart DEF IInv
<1>3. /\ pc'[n] = "reaped" /\ \A x \in Tasks : x # n => pc'[x] = pc[x]
      /\ pc' \in [Tasks -> Calling \cup Ended \cup AskStates]
    BY <1>1, <1>2, GotoChanges DEF AskStates
<1>4. Types'
    <2>1. /\ \A u \in Threads : pc'[u] \in Calling \cup Ended
          /\ \A m \in Helpers : pc'[m] \in AskStates
        BY <1>2, <1>3, NamesApart DEF Types, AskStates
    <2> QED BY <1>1, <1>2, <1>3, <2>1 DEF Types
<1>5. HelperOk(n)'
    BY <1>1, <1>2, <1>3 DEF HelperOk, Alive
<1>6. \A t \in Threads : call[t] = n => ThreadOk(t)'
    <2> SUFFICES ASSUME NEW t \in Threads, call[t] = n PROVE ThreadOk(t)'
        OBVIOUS
    <2>1. pc'[t] = pc[t]
        BY <1>3, NamesApart
    <2>2. pc'[n] \in Finished /\ pc'[n] \notin Alive
        BY <1>3 DEF Finished, Alive
    <2> QED BY <1>1, <2>1, <2>2, AnsweredOk
<1>7. \A x \in Tasks : x # n => pc'[x] = pc[x] /\ end'[x] = end[x]
    BY <1>1, <1>3
<1> QED BY <1>1, <1>4, <1>5, <1>6, <1>7, HelperStep

-----------------------------------------------------------------------------
(* What follows *)

LEMMA NextInvariant == IInv /\ [Next]_vars => IInv'
<1> SUFFICES ASSUME IInv, [Next]_vars PROVE IInv'
    OBVIOUS
<1>1. CASE UNCHANGED vars
    <2>1. Types' /\ CallsApart' /\ Truncated'
        BY <1>1 DEF vars, IInv, Types, CallsApart, Truncated
    <2>2. \A t \in Threads : ThreadOk(t)'
        BY <1>1, ThreadKept DEF vars, IInv
    <2>3. \A n \in Helpers : HelperOk(n)'
        BY <1>1 DEF vars, IInv, HelperOk
    <2> QED BY <2>1, <2>2, <2>3 DEF IInv
<1>2. ASSUME NEW t \in Threads, Getpass(t) \/ GetpassExits(t) \/ Library(t)
      PROVE  IInv'
    BY <1>2, GetpassStep, EndsProgram, RealGetpassStep, PipesStep, ForkStep,
       ForkFailsStep, CloseThenStep, PromptStep, ReadStep, ReadEndsStep,
       ReadFailsStep, WaitStep, WaitFailsStep
       DEF Library
<1>3. ASSUME NEW n \in Helpers, Askpass(n) \/ Writes(n) \/ Reap(n)
      PROVE  IInv'
    BY <1>3, AskpassGoesOn, AskpassEnds, ReapStep DEF Askpass
<1> QED BY <1>1, <1>2, <1>3 DEF Next

LEMMA Invariant == Spec => []IInv
BY InitInvariant, NextInvariant, PTL DEF Spec

\* Every variable has its type, and a thread that waits has a child.
THEOREM TypesCorrect == Spec => []TypeOK
<1>1. IInv => TypeOK
    BY DEF IInv, Types, TypeOK, ThreadOk, ForkedOnce, AfterFork
<1> QED BY <1>1, Invariant, PTL

\* cupsgetpass.c:84: the password that getpass returns of a program it has
\* waited for is the first line of all that this program has written, and the
\* program has not ended badly; one from the environment is without an end
\* only if it is too long.
THEOREM AnswerIsReturned == Spec => []PasswordIsAnswer
<1>1. IInv => PasswordIsAnswer
    <2> SUFFICES ASSUME IInv, NEW t \in Threads
                 PROVE  /\ text[t] = Overrun => Len(env.password) >= PassMax
                        /\ /\ t \in waited /\ text[t] # Null
                           /\ end[t].ex = PipeOf(call[t], "ex")
                           => /\ text[t] = FirstLine(said[call[t]])
                              /\ status[call[t]] \in {"ok", "killed"}
        BY DEF PasswordIsAnswer
    <2>1. text[t] = Overrun => Len(env.password) >= PassMax
        BY DEF IInv, Truncated
    <2>2. ASSUME t \in waited, text[t] # Null,
                 end[t].ex = PipeOf(call[t], "ex")
          PROVE  /\ text[t] = FirstLine(said[call[t]])
                 /\ status[call[t]] \in {"ok", "killed"}
        <3>1. /\ call[t] \in Helpers /\ pc[call[t]] = "reaped"
              /\ status[call[t]] # "bad" /\ text[t] = FirstLine(said[call[t]])
            BY <2>2 DEF IInv, ThreadOk, Answers
        <3>2. status[call[t]] # "none"
            BY <3>1 DEF IInv, HelperOk, Alive
        <3> QED BY <3>1, <3>2 DEF IInv, Types
    <2> QED BY <2>1, <2>2
<1> QED BY <1>1, Invariant, PTL

\* Whether it has an answer or has failed, a call closes every end of its pipes
\* that the program has: no other call can have taken one with it.
THEOREM EndsAreClosed == Spec => []EndsAccounted
<1>1. IInv => EndsAccounted
    BY DEF IInv, ThreadOk, EndsLeft, Left, EndsAccounted
<1> QED BY <1>1, Invariant, PTL
=============================================================================
