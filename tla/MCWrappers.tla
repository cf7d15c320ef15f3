----------------------------- MODULE MCWrappers -----------------------------
(* Programs with one wrapper or several, each with some of what can fail.  *)
EXTENDS Wrappers
CONSTANTS t1, t2

-----------------------------------------------------------------------------
(* Sockets: a program that connects to "one" and to a path *)

To(port) == [inet |-> TRUE, ip |-> "one", port |-> port]
Local == [inet |-> FALSE, ip |-> "path", port |-> 0]
MCNoNet == [callers |-> {}, dests |-> {}, preload |-> <<>>, source |-> "unset",
            iface |-> FALSE, dscp |-> FALSE, orig |-> "unset", origport |-> 0,
            tofd |-> Closed, toip |-> "unset", toport |-> 0, errno |-> FALSE,
            mode |-> "unset", faults |-> {}]
ConnLibs == {<<"connredir", "forcebindip">>, <<"forcebindip", "connredir">>}
Redir == [MCNoNet EXCEPT !.callers = {t1}, !.dests = {To(80), To(81)},
                         !.orig = "one", !.source = "good", !.toip = "two"]
MCNets ==
    {MCNoNet}
    \cup {[Redir EXCEPT !.preload = p, !.origport = o, !.toport = 8080,
                        !.faults = {"connect", "bind"}] :
             p \in ConnLibs, o \in {80, 0}}
    \cup {[Redir EXCEPT !.preload = <<"connredir">>, !.origport = 65616,
                        !.toport = 65536]}
    \cup {[Redir EXCEPT !.preload = p, !.tofd = 3, !.errno = e] :
             p \in ConnLibs, e \in BOOLEAN}
    \cup {[Redir EXCEPT !.preload = <<"connredir", "forcebindip">>, !.toip = a,
                        !.orig = o, !.errno = e] :
             a \in {"unset", "bad"}, o \in {"one", "bad"}, e \in BOOLEAN}
    \cup {[MCNoNet EXCEPT !.callers = {t1}, !.preload = p, !.iface = TRUE,
                          !.dscp = TRUE, !.mode = m, !.source = "bad",
                          !.dests = {To(80), Local},
                          !.faults = {"setsockopt", "chmod"}] :
             m \in {"good", "bad"},
             p \in {<<"ip_dscp", "forcebindiface", "uds_chmod", "forcebindip">>,
                    <<"forcebindiface", "ip_dscp", "uds_chmod">>}}
    \cup {[Redir EXCEPT !.preload = <<"connredir">>, !.toip = "one", !.toport = 81]}
    \cup {[Redir EXCEPT !.preload = <<"forcebindiface", "connredir">>,
                        !.tofd = 3, !.iface = TRUE, !.faults = {"setsockopt"}]}
    \cup {[Redir EXCEPT !.callers = {t1, t2}, !.dests = {To(80)}, !.tofd = 3,
                        !.preload = <<"forcebindip", "connredir">>]}

-----------------------------------------------------------------------------
(* Files: /d and /n with the entries f and n2, "/d/n2" and "/n" *)

F == <<"f">>
N2 == <<"n", "2">>
D == <<"/", "d">>
N == <<"/", "n">>
MCDirs == {"d", "n"}
MCTokens == {"/", "d", "n", "2", "f", "proc", "mounts", "home", "m",
             ".unlinked_inodes"}
MCNames == {F, N2}
MCPlaces == {<<"/", "n", "2">>, <<"/", "m">>}
File(i) == [ino |-> i, to |-> NoPath]
Link(i, p) == [ino |-> i, to |-> p]
Empty == [d \in MCDirs |-> [n \in MCNames |-> NoEntry]]

MCNoProg == [callers |-> {}, calls |-> {}, cwd |-> "d",
             at |-> [d \in MCDirs |-> IF d = "d" THEN D ELSE N],
             entry |-> [Empty EXCEPT !["d"][F] = File(1),
                                     !["d"][N2] = Link(2, N \o <<"/", "f">>),
                                     !["n"][F] = File(3)],
             mounts |-> <<[at |-> <<"/">>, net |-> FALSE],
                          [at |-> N, net |-> TRUE]>>,
             rewrite |-> FALSE, from |-> <<"home">>, to |-> <<"m">>,
             there |-> {LogFile}, others |-> {}, faults |-> {}]
CallOf(op, dir, path, rmdir) ==
    [op |-> op, dir |-> dir, path |-> path, rmdir |-> rmdir]
Looks == {CallOf(op, d, p, FALSE) : op \in {"lstat", "openat"}, d \in MCDirs,
              p \in {F, N2, Slash(N, F)}}
         \cup {CallOf("opendir", "d", p, FALSE) : p \in {D, N}}
Unlinks == {CallOf("unlinkat", d, p, FALSE) : d \in MCDirs, p \in {F, N2}}
           \cup {CallOf("unlinkat", "d", N, TRUE),
                 CallOf("unlinkat", "d", Slash(D, F), FALSE)}
Few == {CallOf("unlinkat", "d", p, FALSE) : p \in {F, N2}}
RootOnly == <<[at |-> <<"/">>, net |-> FALSE]>>
MCProgs ==
    {MCNoProg,
     [MCNoProg EXCEPT !.callers = {t1}, !.calls = Looks,
                      !.others = {"mount", "unmount"}],
     [MCNoProg EXCEPT !.callers = {t1}, !.calls = Looks, !.others = {"rename"},
                      !.mounts[2].at = <<"/", "m">>],
     [MCNoProg EXCEPT !.callers = {t1}, !.calls = Unlinks, !.mounts = RootOnly,
                      !.others = {"rename"},
                      !.faults = {"readlink", "unlink", "fopen"}],
     [MCNoProg EXCEPT !.callers = {t1}, !.calls = Few, !.mounts = RootOnly,
                      !.entry["n"][F] = NoEntry, !.others = {"replace"}],
     [MCNoProg EXCEPT !.callers = {t1}, !.calls = Looks,
                      !.entry["n"][F] = NoEntry, !.others = {"replace"}],
     [MCNoProg EXCEPT !.callers = {t1, t2}, !.calls = Unlinks]}
    \cup {[MCNoProg EXCEPT !.callers = {t1}, !.rewrite = TRUE, !.from = <<x>>,
                           !.calls = Looks \cup Unlinks \cup
                                {CallOf("open", "d", Slash(D, F), FALSE)}] :
             x \in {"proc", "home", "d"}}

-----------------------------------------------------------------------------
(* Processes: a program of two threads, its commands and theirs *)

MCNoWorld == [lanes |-> {}, enable |-> "unset", command |-> "prog",
              execs |-> {}, preload |-> {}, old |-> NotSet]
MCWorlds ==
    {MCNoWorld}
    \cup {[MCNoWorld EXCEPT !.lanes = {t1, t2}, !.enable = e,
                            !.preload = {"xopenhook"}] : e \in {"1", "0"}}
    \cup {[MCNoWorld EXCEPT !.lanes = {t1}, !.enable = "1", !.command = c,
                            !.execs = (Listed \cup {"/usr/bin/sh"}) \X BOOLEAN,
                            !.preload = p, !.old = o] :
             c \in {"prog", "/bin/sh", "unset"},
             p \in {{"xopenhook", "restore"}, {"xopenhook", "dontcallshell"}},
             o \in {NotSet, {"xopenhook"}, {"xopenhook", "restore"}}}
=============================================================================
