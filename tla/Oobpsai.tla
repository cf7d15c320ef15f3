------------------------------ MODULE Oobpsai ------------------------------
(***************************************************************************)
(* The table of proxy socket addresses, a directory of symbolic links      *)
(* named IP,PORT with targets IP,PORT: the proxies that keep it through    *)
(* src/src/oob-proxy-socket-address-info.c, and the servers whose recvmsg  *)
(* and sendmsg src/src/oob-proxy-socket-address-info-preload.c wraps.  One *)
(* action per system call on the table; the processes share nothing else.  *)
(***************************************************************************)
EXTENDS Naturals, FiniteSets

CONSTANTS Proxies,   \* processes that write the table
          Servers,   \* processes (or threads) that receive and send
          Peers,     \* addresses of the proxies' sockets: [fam, ip, port]
          Fakes,     \* for each peer, the addresses it may stand for
          Faults     \* unlink and symlink, if they may fail at will

Clients == UNION {Fakes[x] : x \in Peers}
Addrs == Peers \cup Clients
Absent == [fam |-> 0, ip |-> 0, port |-> 0]

ASSUME OobpsaiAssumption ==
    /\ Addrs \subseteq [fam : {4, 6}, ip : Nat, port : Nat]
    /\ Fakes \in [Peers -> SUBSET Clients]
    /\ Proxies \cap Servers = {}
    /\ Faults \subseteq {"unlink", "symlink"}

VARIABLES table,  \* the target of the link of each name
          pc,     \* the next system call of each process
          name,   \* msg_name of each server, socket_addr of each proxy
          orig,   \* orig_sock_addr_str, the target each process writes
          peer,   \* whom the last message of each server came from
          given,  \* the last target a proxy has written for each peer
                  \* successfully, Absent if none or if it was taken back
          failed, \* the msg_names with which a recvmsg has failed
          broken  \* names that could not be written since they last were

vars == <<table, pc, name, orig, peer, given, failed, broken>>

Procs == Proxies \cup Servers

\* Half of an address: update_socket_addr sets the port before it finds that
\* the target's IP address is of another family.
Half(a, b) == [fam |-> a.fam, ip |-> a.ip, port |-> b.port]
Halves == UNION {{Half(a, b) : b \in Addrs} : a \in Addrs}
Names == Addrs \cup Halves

Init ==
    /\ table = [a \in Names |-> Absent]
    /\ pc = [p \in Procs |-> "idle"]
    /\ name = [p \in Procs |-> Absent]
    /\ orig = [p \in Procs |-> Absent]
    /\ peer = [s \in Servers |-> Absent]
    /\ given = [x \in Peers |-> Absent]
    /\ failed = {}
    /\ broken = {}

Goto(p, label) == pc' = [pc EXCEPT ![p] = label]

-----------------------------------------------------------------------------
(* change_socket_address *)

UpdateSocketAddr(a, target) ==
    IF a.fam = target.fam THEN target ELSE [a EXCEPT !.port = target.port]

\* What the address in a message becomes.
Translated(a) ==
    IF table[a] = Absent THEN a
    ELSE UpdateSocketAddr(a, table[a])

-----------------------------------------------------------------------------
(* set_proxy_address_info: unlink, then symlink *)

\* Slip: the name that is freed is that of the old address.
SetUnlinkOrig(p) ==
    /\ pc[p] = "unlink"
    /\ table' = [table EXCEPT ![orig[p]] = Absent]
    /\ Goto(p, "symlink")
    /\ UNCHANGED <<name, orig, peer, given, failed, broken>>

SetUnlink(p) ==
    /\ pc[p] = "unlink"
    /\ table' = [table EXCEPT ![name[p]] = Absent]
    /\ Goto(p, "symlink")
    /\ UNCHANGED <<name, orig, peer, given, failed, broken>>

\* The result of unlink is not looked at.
SetUnlinkFails(p) ==
    /\ pc[p] = "unlink"
    /\ "unlink" \in Faults
    /\ Goto(p, "symlink")
    /\ UNCHANGED <<table, name, orig, peer, given, failed, broken>>

SetReturns(p) ==
    /\ Goto(p, "idle")
    /\ orig' = [orig EXCEPT ![p] = Absent]
    /\ name' = IF p \in Proxies THEN [name EXCEPT ![p] = Absent] ELSE name
    /\ UNCHANGED <<peer, failed>>

\* symlink fails if the name has not been freed, or is taken again.
SetSymlink(p) ==
    /\ pc[p] = "symlink"
    /\ IF table[name[p]] = Absent
       THEN /\ table' = [table EXCEPT ![name[p]] = orig[p]]
            /\ given' = IF p \in Proxies THEN [given EXCEPT ![name[p]] = orig[p]]
                        ELSE given
            /\ broken' = broken \ {name[p]}
       ELSE UNCHANGED <<table, given, broken>>
    /\ SetReturns(p)

\* A full or read-only directory, say: what was unlinked is not written anew.
SetSymlinkFails(p) ==
    /\ pc[p] = "symlink"
    /\ "symlink" \in Faults
    /\ broken' = broken \cup {name[p]}
    /\ SetReturns(p)
    /\ UNCHANGED <<table, given>>

-----------------------------------------------------------------------------
(* A proxy: one at a time looks after a peer *)

Mine(p, x) == \A q \in Proxies \ {p} : pc[q] = "idle" \/ name[q] # x

ProxySet(p) ==
    /\ pc[p] = "idle"
    /\ \E x \in Peers : \E a \in Fakes[x] :
            /\ Mine(p, x)
            /\ name' = [name EXCEPT ![p] = x]
            /\ orig' = [orig EXCEPT ![p] = a]
            /\ given' = [given EXCEPT ![x] = Absent]
    /\ Goto(p, "unlink")
    /\ UNCHANGED <<table, peer, failed, broken>>

\* unset_proxy_address_info
ProxyUnset(p) ==
    /\ pc[p] = "idle"
    /\ \E x \in Peers :
            /\ Mine(p, x)
            /\ \/ table' = [table EXCEPT ![x] = Absent]
               \/ "unlink" \in Faults /\ UNCHANGED table
            /\ given' = [given EXCEPT ![x] = Absent]
    /\ UNCHANGED <<pc, name, orig, peer, failed, broken>>

-----------------------------------------------------------------------------
(* A server *)

\* Slip: the address is not saved.
RecvUnsaved(s) ==
    /\ pc[s] = "idle"
    /\ \E x \in Peers :
            /\ name' = [name EXCEPT ![s] = x]
            /\ peer' = [peer EXCEPT ![s] = x]
    /\ Goto(s, "lookup")
    /\ UNCHANGED <<table, orig, given, failed, broken>>

\* Slip: the saved address is static, one for all threads.
RecvStatic(s) ==
    /\ pc[s] = "idle"
    /\ \E x \in Peers :
            /\ name' = [name EXCEPT ![s] = x]
            /\ orig' = [p \in Procs |-> IF p \in Servers THEN x ELSE orig[p]]
            /\ peer' = [peer EXCEPT ![s] = x]
    /\ Goto(s, "lookup")
    /\ UNCHANGED <<table, given, failed, broken>>

\* recvmsg has returned a message from x, which is saved as it is.
Recv(s) ==
    /\ pc[s] = "idle"
    /\ \E x \in Peers :
            /\ name' = [name EXCEPT ![s] = x]
            /\ orig' = [orig EXCEPT ![s] = x]
            /\ peer' = [peer EXCEPT ![s] = x]
    /\ Goto(s, "lookup")
    /\ UNCHANGED <<table, given, failed, broken>>

\* recvmsg has failed, for want of a message say: its result is not looked at
\* and msg_name is what the last call on the same msghdr left.
RecvFails(s) ==
    /\ pc[s] = "idle"
    /\ name[s] # Absent
    /\ orig' = [orig EXCEPT ![s] = name[s]]
    /\ peer' = [peer EXCEPT ![s] = Absent]
    /\ Goto(s, "lookup")
    /\ failed' = failed \cup {name[s]}
    /\ UNCHANGED <<table, name, given, broken>>

\* Slip: the address is saved after it has been changed.
LookupSaves(s) ==
    /\ pc[s] = "lookup"
    /\ name' = [name EXCEPT ![s] = Translated(name[s])]
    /\ orig' = [orig EXCEPT ![s] = Translated(name[s])]
    /\ Goto(s, "unlink")
    /\ UNCHANGED <<table, peer, given, failed, broken>>

Lookup(s) ==
    /\ pc[s] = "lookup"
    /\ name' = [name EXCEPT ![s] = Translated(@)]
    /\ Goto(s, "unlink")
    /\ UNCHANGED <<table, orig, peer, given, failed, broken>>

\* sendmsg: the message has gone to msg_name before it is translated.
Send(s) ==
    /\ pc[s] = "idle"
    /\ name[s] # Absent
    /\ name' = [name EXCEPT ![s] = Translated(@)]
    /\ peer' = [peer EXCEPT ![s] = Absent]
    /\ UNCHANGED <<table, pc, orig, given, failed, broken>>

Next ==
    \/ \E p \in Proxies : ProxySet(p) \/ ProxyUnset(p)
    \/ \E s \in Servers : Recv(s) \/ RecvFails(s) \/ Lookup(s) \/ Send(s)
    \/ \E p \in Procs : \/ SetUnlink(p) \/ SetUnlinkFails(p)
                       \/ SetSymlink(p) \/ SetSymlinkFails(p)

Spec == Init /\ [][Next]_vars

-----------------------------------------------------------------------------
(* Properties *)

\* Every variable has its type: names are addresses, whole or half changed.
TypeOK ==
    /\ table \in [Names -> Names \cup {Absent}]
    /\ pc \in [Procs -> {"idle", "lookup", "unlink", "symlink"}]
    /\ name \in [Procs -> Names \cup {Absent}]
    /\ orig \in [Procs -> Names \cup {Absent}]
    /\ \A p \in Procs : pc[p] # "idle" => name[p] # Absent /\ orig[p] # Absent
    /\ \A p \in Proxies : pc[p] # "idle" =>
            pc[p] # "lookup" /\ name[p] \in Peers /\ orig[p] \in Fakes[name[p]]
    /\ peer \in [Servers -> Peers \cup {Absent}]
    /\ given \in [Peers -> Clients \cup {Absent}]
    /\ failed \subseteq Names /\ broken \subseteq Names

\* A server sees a message as coming from where it came from, or from an
\* address that the proxies may give to that peer: however its calls and those
\* of others are mixed and fail, it never sees another peer's client or half of
\* an address.
SeenBelongsToPeer ==
    \A s \in Servers : pc[s] = "idle" /\ peer[s] # Absent =>
        name[s] \in {peer[s]} \cup Fakes[peer[s]]

\* A server that has received a message finds the peer again under the address
\* it was shown, unless a server is just writing that name anew, a symlink of
\* it has failed since it was last written, or it may have been written after a
\* recvmsg that failed.
RoundTrip ==
    \A s \in Servers : pc[s] = "idle" /\ peer[s] # Absent =>
        \/ name[s] = peer[s]
        \/ table[name[s]] = peer[s]
        \/ \E t \in Servers : pc[t] = "symlink" /\ name[t] = name[s]
        \/ name[s] \in broken \cup failed

\* What a proxy has written for a peer is undone, except by a proxy, only by a
\* server that looked the peer up before it was written, and so is about to
\* write that the peer stands for itself, or whose recvmsg has failed.
LostToStaleLookupOnly ==
    [][\A x \in Peers :
         given[x] # Absent /\ given'[x] = given[x] /\ table[x] = given[x] =>
            \/ table'[x] = table[x]
            \/ \E s \in Servers : /\ pc[s] = "unlink" /\ name[s] = x
                                  /\ orig[s] = x \/ orig[s] \in failed]_vars
=============================================================================
