--------------------------- MODULE OobpsaiProofs ---------------------------
(***************************************************************************)
(* Proofs about Oobpsai for any number of proxies, servers, peers and      *)
(* clients: its types, that no server sees another peer's client, that     *)
(* what a proxy has written is lost only to a stale lookup, and that a     *)
(* peer is found again under the address a server was shown for it.        *)
(***************************************************************************)
EXTENDS Oobpsai, TLAPS

\* A name has an address family and an IP address; no name is Absent.
LEMMA NamesAreAddresses ==
    /\ Addrs \subseteq Names
    /\ Peers \subseteq Names /\ Clients \subseteq Names
    /\ Absent \notin Names
    /\ \A x \in Peers : Fakes[x] \subseteq Clients
<1>1. Addrs \subseteq Names
  BY DEF Names
<1>2. Peers \subseteq Names /\ Clients \subseteq Names
  BY <1>1 DEF Addrs
<1>3. Absent \notin Names
  <2>1. \A n \in Names : n.fam \in {4, 6}
    BY OobpsaiAssumption DEF Names, Halves, Half
  <2> QED
    BY <2>1 DEF Absent
<1>4. \A x \in Peers : Fakes[x] \subseteq Clients
  BY OobpsaiAssumption
<1> QED
  BY <1>1, <1>2, <1>3, <1>4

\* Half of an address is a name: it has the port of one and the rest of
\* another, and half of a half is again half of an address.
LEMMA HalvesClosed ==
    ASSUME NEW a \in Names, NEW b \in Names
    PROVE  [a EXCEPT !.port = b.port] \in Names
<1>1. PICK c \in Addrs : /\ a = [fam |-> c.fam, ip |-> c.ip, port |-> a.port]
  BY OobpsaiAssumption DEF Names, Halves, Half
<1>2. PICK d \in Addrs : b.port = d.port
  BY DEF Names, Halves, Half
<1>3. [a EXCEPT !.port = b.port] = Half(c, d)
  BY <1>1, <1>2 DEF Half
<1>4. Half(c, d) \in Halves
  BY DEF Halves
<1> QED
  BY <1>3, <1>4 DEF Names

\* change_socket_address leaves a name in the message.
LEMMA TranslatedIsName ==
    ASSUME TypeOK, NEW a \in Names
    PROVE  Translated(a) \in Names
<1>1. CASE table[a] = Absent
  BY <1>1 DEF Translated
<1>2. CASE table[a] # Absent
  <2>1. table[a] \in Names
    BY <1>2 DEF TypeOK
  <2> QED
    BY <1>2, <2>1, HalvesClosed DEF Translated, UpdateSocketAddr
<1> QED
  BY <1>1, <1>2

\* Every reachable state of the table, the proxies and the servers is well
\* typed, whatever fails and however their calls are mixed.
THEOREM TypeCorrect == Spec => []TypeOK
<1>1. Init => TypeOK
  BY DEF Init, TypeOK, Procs
<1>2. TypeOK /\ [Next]_vars => TypeOK'
  <2> SUFFICES ASSUME TypeOK, [Next]_vars
               PROVE  TypeOK'
    OBVIOUS
  <2>1. ASSUME NEW p \in Proxies, ProxySet(p)
        PROVE  TypeOK'
    BY <2>1, NamesAreAddresses DEF TypeOK, ProxySet, Goto, Procs
  <2>2. ASSUME NEW p \in Proxies, ProxyUnset(p)
        PROVE  TypeOK'
    BY <2>2, NamesAreAddresses DEF TypeOK, ProxyUnset, Procs
  <2>3. ASSUME NEW s \in Servers, Recv(s)
        PROVE  TypeOK'
    BY <2>3, NamesAreAddresses, OobpsaiAssumption DEF TypeOK, Recv, Goto, Procs
  <2>4. ASSUME NEW s \in Servers, RecvFails(s)
        PROVE  TypeOK'
    BY <2>4, OobpsaiAssumption DEF TypeOK, RecvFails, Goto, Procs
  <2>5. ASSUME NEW s \in Servers, Lookup(s)
        PROVE  TypeOK'
    <3>1. name[s] \in Names
      BY <2>5 DEF TypeOK, Lookup, Procs
    <3>2. Translated(name[s]) \in Names
      BY <3>1, TranslatedIsName
    <3> QED
      BY <2>5, <3>2, NamesAreAddresses, OobpsaiAssumption DEF TypeOK, Lookup, Goto, Procs
  <2>6. ASSUME NEW s \in Servers, Send(s)
        PROVE  TypeOK'
    <3>1. name[s] \in Names
      BY <2>6 DEF TypeOK, Send, Procs
    <3>2. Translated(name[s]) \in Names
      BY <3>1, TranslatedIsName
    <3> QED
      BY <2>6, <3>2, NamesAreAddresses, OobpsaiAssumption DEF TypeOK, Send, Procs
  <2>7. ASSUME NEW p \in Procs, SetUnlink(p) \/ SetUnlinkFails(p)
        PROVE  TypeOK'
    <3>1. CASE SetUnlink(p)
      BY <3>1 DEF TypeOK, SetUnlink, Goto
    <3>2. CASE SetUnlinkFails(p)
      BY <3>2 DEF TypeOK, SetUnlinkFails, Goto
    <3> QED
      BY <2>7, <3>1, <3>2
  <2>8. ASSUME NEW p \in Procs, SetSymlink(p) \/ SetSymlinkFails(p)
        PROVE  TypeOK'
    <3>1. CASE SetSymlink(p)
      BY <3>1, NamesAreAddresses DEF TypeOK, SetSymlink, SetReturns, Goto, Procs
    <3>2. CASE SetSymlinkFails(p)
      BY <3>2, NamesAreAddresses
         DEF TypeOK, SetSymlinkFails, SetReturns, Goto, Procs
    <3> QED
      BY <2>8, <3>1, <3>2
  <2>9. CASE UNCHANGED vars
    BY <2>9 DEF TypeOK, vars
  <2> QED
    BY <2>1, <2>2, <2>3, <2>4, <2>5, <2>6, <2>7, <2>8, <2>9 DEF Next
<1> QED
  BY <1>1, <1>2, PTL DEF Spec

-----------------------------------------------------------------------------
(* SeenBelongsToPeer.  A peer and the addresses it may stand for are a group. *)
(* Where groups are disjoint and of one family, an entry of the table, a      *)
(* message and a saved address never leave the group they belong to.          *)

Group(x) == {x} \cup Fakes[x]

\* A peer and its clients speak the same address family.
SameFamily == \A x \in Peers : \A a, b \in Group(x) : a.fam = b.fam

\* No client is a peer, and none is behind two peers.
DisjointGroups ==
    \A x, y \in Peers : Group(x) \cap Group(y) # {} => x = y

EntriesInGroup ==
    \A x \in Peers : \A a \in Group(x) : table[a] \in Group(x) \cup {Absent}

MessagesInGroup ==
    \A p \in Procs :
        /\ name[p] \in Addrs \cup {Absent}
        /\ pc[p] # "idle" => \A x \in Peers :
                                name[p] \in Group(x) => orig[p] \in Group(x)

SeenInGroup ==
    \A s \in Servers : peer[s] # Absent => name[s] \in Group(peer[s])

GroupInv == TypeOK /\ EntriesInGroup /\ MessagesInGroup /\ SeenInGroup

\* Every address is in the group of some peer, and a group has only addresses.
LEMMA GroupsCover ==
    /\ \A a \in Addrs : \E x \in Peers : a \in Group(x)
    /\ \A x \in Peers : Group(x) \subseteq Addrs
    /\ Absent \notin Addrs
<1>1. \A a \in Addrs : \E x \in Peers : a \in Group(x)
  BY DEF Addrs, Clients, Group
<1>2. \A x \in Peers : Group(x) \subseteq Addrs
  BY NamesAreAddresses DEF Addrs, Group
<1> QED
  BY <1>1, <1>2, NamesAreAddresses

\* change_socket_address keeps an address in its group.
LEMMA TranslatedInGroup ==
    ASSUME SameFamily, EntriesInGroup, NEW x \in Peers, NEW a \in Group(x)
    PROVE  Translated(a) \in Group(x)
<1>1. CASE table[a] = Absent
  BY <1>1 DEF Translated
<1>2. CASE table[a] # Absent
  <2>1. table[a] \in Group(x)
    BY <1>2 DEF EntriesInGroup
  <2>2. a.fam = table[a].fam
    BY <2>1 DEF SameFamily
  <2> QED
    BY <1>2, <2>1, <2>2 DEF Translated, UpdateSocketAddr
<1> QED
  BY <1>1, <1>2

\* GroupInv holds initially and every step keeps it.
LEMMA GroupInvInductive ==
    ASSUME SameFamily, DisjointGroups
    PROVE  /\ Init => GroupInv
           /\ GroupInv /\ TypeOK' /\ [Next]_vars => GroupInv'
<1>1. Init => GroupInv
  <2> SUFFICES ASSUME Init PROVE GroupInv
    OBVIOUS
  <2>1. TypeOK
    BY DEF Init, TypeOK, Procs
  <2>2. EntriesInGroup
    BY GroupsCover, NamesAreAddresses DEF Init, EntriesInGroup
  <2>3. MessagesInGroup
    BY DEF Init, MessagesInGroup
  <2>4. SeenInGroup
    BY DEF Init, SeenInGroup
  <2> QED
    BY <2>1, <2>2, <2>3, <2>4 DEF GroupInv
<1>2. GroupInv /\ TypeOK' /\ [Next]_vars => GroupInv'
  <2> SUFFICES ASSUME GroupInv, TypeOK', [Next]_vars
               PROVE  EntriesInGroup' /\ MessagesInGroup' /\ SeenInGroup'
    BY DEF GroupInv
  <2> USE DEF GroupInv
  <2>1. ASSUME NEW p \in Proxies, ProxySet(p)
        PROVE  EntriesInGroup' /\ MessagesInGroup' /\ SeenInGroup'
    <3>1. PICK x \in Peers : \E a \in Fakes[x] :
                                /\ name' = [name EXCEPT ![p] = x]
                                /\ orig' = [orig EXCEPT ![p] = a]
      BY <2>1 DEF ProxySet
    <3>a. PICK a \in Fakes[x] : orig' = [orig EXCEPT ![p] = a]
      BY <3>1
    <3>2. EntriesInGroup'
      BY <2>1 DEF ProxySet, EntriesInGroup
    <3>3. \A y \in Peers : x \in Group(y) => y = x
      BY DEF DisjointGroups, Group
    <3>4. x \in Addrs /\ a \in Group(x)
      BY DEF Addrs, Group
    <3>5. MessagesInGroup'
      BY <2>1, <3>1, <3>a, <3>3, <3>4 DEF ProxySet, Goto, MessagesInGroup, TypeOK, Procs
    <3>6. SeenInGroup'
      BY <2>1, <3>1, OobpsaiAssumption DEF ProxySet, SeenInGroup, TypeOK, Procs
    <3> QED
      BY <3>2, <3>5, <3>6
  <2>2. ASSUME NEW p \in Proxies, ProxyUnset(p)
        PROVE  EntriesInGroup' /\ MessagesInGroup' /\ SeenInGroup'
    <3>1. EntriesInGroup'
      BY <2>2, GroupsCover, NamesAreAddresses DEF ProxyUnset, EntriesInGroup, TypeOK
    <3> QED
      BY <2>2, <3>1 DEF ProxyUnset, MessagesInGroup, SeenInGroup
  <2>3. ASSUME NEW s \in Servers, Recv(s)
        PROVE  EntriesInGroup' /\ MessagesInGroup' /\ SeenInGroup'
    <3>1. PICK x \in Peers : /\ name' = [name EXCEPT ![s] = x]
                             /\ orig' = [orig EXCEPT ![s] = x]
                             /\ peer' = [peer EXCEPT ![s] = x]
      BY <2>3 DEF Recv
    <3>2. EntriesInGroup'
      BY <2>3 DEF Recv, EntriesInGroup
    <3>3. x \in Addrs /\ x \in Group(x)
      BY DEF Addrs, Group
    <3>4. MessagesInGroup'
      BY <2>3, <3>1, <3>3 DEF Recv, Goto, MessagesInGroup, TypeOK, Procs
    <3>5. SeenInGroup'
      BY <2>3, <3>1, <3>3 DEF SeenInGroup, TypeOK, Procs
    <3> QED
      BY <3>2, <3>4, <3>5
  <2>4. ASSUME NEW s \in Servers, RecvFails(s)
        PROVE  EntriesInGroup' /\ MessagesInGroup' /\ SeenInGroup'
    BY <2>4 DEF RecvFails, Goto, EntriesInGroup, MessagesInGroup, SeenInGroup,
                TypeOK, Procs
  <2>5. ASSUME NEW s \in Servers, Lookup(s)
        PROVE  EntriesInGroup' /\ MessagesInGroup' /\ SeenInGroup'
    <3>1. name[s] \in Addrs
      BY <2>5 DEF Lookup, MessagesInGroup, TypeOK, Procs
    <3>2. PICK x \in Peers : name[s] \in Group(x)
      BY <3>1, GroupsCover
    <3>3. Translated(name[s]) \in Group(x)
      BY <3>2, TranslatedInGroup
    <3>4. \A y \in Peers : name[s] \in Group(y) \/ Translated(name[s]) \in Group(y)
                             => y = x
      BY <3>2, <3>3 DEF DisjointGroups
    <3>5. orig[s] \in Group(x)
      BY <2>5, <3>2 DEF Lookup, MessagesInGroup, Procs
    <3>6. EntriesInGroup'
      BY <2>5 DEF Lookup, EntriesInGroup
    <3>7. MessagesInGroup'
      BY <2>5, <3>3, <3>4, <3>5, GroupsCover
         DEF Lookup, Goto, MessagesInGroup, TypeOK, Procs
    <3>8. SeenInGroup'
      BY <2>5, <3>3, <3>4 DEF Lookup, SeenInGroup, TypeOK, Procs
    <3> QED
      BY <3>6, <3>7, <3>8
  <2>6. ASSUME NEW s \in Servers, Send(s)
        PROVE  EntriesInGroup' /\ MessagesInGroup' /\ SeenInGroup'
    <3>1. PICK x \in Peers : name[s] \in Group(x)
      BY <2>6, GroupsCover DEF Send, MessagesInGroup, Procs
    <3>2. Translated(name[s]) \in Addrs
      BY <3>1, TranslatedInGroup, GroupsCover
    <3>3. EntriesInGroup'
      BY <2>6 DEF Send, EntriesInGroup
    <3>4. MessagesInGroup'
      BY <2>6, <3>2 DEF Send, MessagesInGroup, TypeOK, Procs
    <3>5. SeenInGroup'
      BY <2>6 DEF Send, SeenInGroup, TypeOK, Procs
    <3> QED
      BY <3>3, <3>4, <3>5
  <2>7. ASSUME NEW p \in Procs, SetUnlink(p) \/ SetUnlinkFails(p)
        PROVE  EntriesInGroup' /\ MessagesInGroup' /\ SeenInGroup'
    <3>1. EntriesInGroup'
      BY <2>7, GroupsCover, NamesAreAddresses
         DEF SetUnlink, SetUnlinkFails, EntriesInGroup, TypeOK
    <3>2. MessagesInGroup'
      BY <2>7 DEF SetUnlink, SetUnlinkFails, Goto, MessagesInGroup, TypeOK
    <3> QED
      BY <2>7, <3>1, <3>2 DEF SetUnlink, SetUnlinkFails, SeenInGroup
  <2>8. ASSUME NEW p \in Procs, SetSymlink(p) \/ SetSymlinkFails(p)
        PROVE  EntriesInGroup' /\ MessagesInGroup' /\ SeenInGroup'
    <3>1. \A x \in Peers : name[p] \in Group(x) => orig[p] \in Group(x)
      BY <2>8 DEF SetSymlink, SetSymlinkFails, MessagesInGroup
    <3>2. EntriesInGroup'
      BY <2>8, <3>1, GroupsCover, NamesAreAddresses
         DEF SetSymlink, SetSymlinkFails, EntriesInGroup, TypeOK
    <3>3. MessagesInGroup'
      BY <2>8 DEF SetSymlink, SetSymlinkFails, SetReturns, Goto,
                  MessagesInGroup, TypeOK
    <3>4. SeenInGroup'
      BY <2>8, OobpsaiAssumption
         DEF SetSymlink, SetSymlinkFails, SetReturns, SeenInGroup, TypeOK, Procs
    <3> QED
      BY <3>2, <3>3, <3>4
  <2>9. CASE UNCHANGED vars
    BY <2>9 DEF vars, EntriesInGroup, MessagesInGroup, SeenInGroup
  <2> QED
    BY <2>1, <2>2, <2>3, <2>4, <2>5, <2>6, <2>7, <2>8, <2>9 DEF Next
<1> QED
  BY <1>1, <1>2

\* A server sees a message as coming from its peer or from one of the clients
\* behind that peer, for every table and every mix of calls, if the clients of
\* a peer are its own and of its family.
THEOREM SeenCorrect ==
    ASSUME SameFamily, DisjointGroups
    PROVE  Spec => []SeenBelongsToPeer
<1>1. Init => GroupInv
  BY GroupInvInductive
<1>2. GroupInv /\ TypeOK' /\ [Next]_vars => GroupInv'
  BY GroupInvInductive
<1>3. GroupInv => SeenBelongsToPeer
  BY DEF GroupInv, SeenInGroup, SeenBelongsToPeer, Group
<1> QED
  BY <1>1, <1>2, <1>3, TypeCorrect, PTL DEF Spec

-----------------------------------------------------------------------------
(* LostToStaleLookupOnly.  A server's orig is a peer unless its recvmsg has    *)
(* failed, so that in the group of x it can only be x; and a proxy that is     *)
(* writing an entry has given it up first, as the only one that writes it.     *)

OrigIsPeer ==
    \A s \in Servers : pc[s] # "idle" => orig[s] \in Peers \cup failed

WritersAlone ==
    \A p \in Proxies : pc[p] # "idle" =>
        /\ given[name[p]] = Absent
        /\ \A q \in Proxies \ {p} : pc[q] # "idle" => name[q] # name[p]

LostInv == GroupInv /\ OrigIsPeer /\ WritersAlone

\* LostInv holds initially and every step keeps it.
LEMMA LostInvInductive ==
    /\ Init => OrigIsPeer /\ WritersAlone
    /\ TypeOK /\ TypeOK' /\ OrigIsPeer /\ WritersAlone /\ [Next]_vars
            => OrigIsPeer' /\ WritersAlone'
<1>1. Init => OrigIsPeer /\ WritersAlone
  BY DEF Init, OrigIsPeer, WritersAlone, Procs
<1>2. ASSUME TypeOK, TypeOK', OrigIsPeer, WritersAlone, [Next]_vars
      PROVE  OrigIsPeer' /\ WritersAlone'
  <2> USE <1>2, OobpsaiAssumption
  <2>1. ASSUME NEW p \in Proxies, ProxySet(p)
        PROVE  OrigIsPeer' /\ WritersAlone'
    <3>1. PICK x \in Peers : /\ Mine(p, x)
                             /\ name' = [name EXCEPT ![p] = x]
                             /\ given' = [given EXCEPT ![x] = Absent]
      BY <2>1 DEF ProxySet
    <3>2. OrigIsPeer'
      BY <2>1 DEF ProxySet, Goto, OrigIsPeer, TypeOK, Procs
    <3>3. WritersAlone'
      BY <2>1, <3>1 DEF ProxySet, Goto, Mine, WritersAlone, TypeOK, Procs
    <3> QED
      BY <3>2, <3>3
  <2>2. ASSUME NEW p \in Proxies, ProxyUnset(p)
        PROVE  OrigIsPeer' /\ WritersAlone'
    BY <2>2 DEF ProxyUnset, OrigIsPeer, WritersAlone, TypeOK
  <2>3. ASSUME NEW s \in Servers, Recv(s)
        PROVE  OrigIsPeer' /\ WritersAlone'
    BY <2>3 DEF Recv, Goto, OrigIsPeer, WritersAlone, TypeOK, Procs
  <2>4. ASSUME NEW s \in Servers, RecvFails(s)
        PROVE  OrigIsPeer' /\ WritersAlone'
    BY <2>4 DEF RecvFails, Goto, OrigIsPeer, WritersAlone, TypeOK, Procs
  <2>5. ASSUME NEW s \in Servers, Lookup(s)
        PROVE  OrigIsPeer' /\ WritersAlone'
    BY <2>5 DEF Lookup, Goto, OrigIsPeer, WritersAlone, TypeOK, Procs
  <2>6. ASSUME NEW s \in Servers, Send(s)
        PROVE  OrigIsPeer' /\ WritersAlone'
    BY <2>6 DEF Send, OrigIsPeer, WritersAlone, TypeOK, Procs
  <2>7. ASSUME NEW p \in Procs, SetUnlink(p) \/ SetUnlinkFails(p)
        PROVE  OrigIsPeer' /\ WritersAlone'
    BY <2>7 DEF SetUnlink, SetUnlinkFails, Goto, OrigIsPeer, WritersAlone,
                TypeOK, Procs
  <2>8. ASSUME NEW p \in Procs, SetSymlink(p) \/ SetSymlinkFails(p)
        PROVE  OrigIsPeer' /\ WritersAlone'
    BY <2>8 DEF SetSymlink, SetSymlinkFails, SetReturns, Goto, OrigIsPeer,
                WritersAlone, TypeOK, Procs
  <2>9. CASE UNCHANGED vars
    BY <2>9 DEF vars, OrigIsPeer, WritersAlone
  <2> QED
    BY <2>1, <2>2, <2>3, <2>4, <2>5, <2>6, <2>7, <2>8, <2>9 DEF Next
<1> QED
  BY <1>1, <1>2

\* What a step may do to an entry that a proxy has written.
LEMMA EntryStep ==
    ASSUME DisjointGroups, LostInv, [Next]_vars, NEW x \in Peers,
           given[x] # Absent, given'[x] = given[x], table[x] = given[x],
           table'[x] # table[x]
    PROVE  \E s \in Servers : /\ pc[s] = "unlink" /\ name[s] = x
                              /\ orig[s] = x \/ orig[s] \in failed
<1>1. PICK p \in Procs : SetUnlink(p)
  <2>1. ASSUME NEW p \in Proxies, ProxyUnset(p) PROVE FALSE
    <3>1. PICK y \in Peers : /\ table' = [table EXCEPT ![y] = Absent]
                             /\ given' = [given EXCEPT ![y] = Absent]
      BY <2>1 DEF ProxyUnset
    <3>2. x \in Names /\ table \in [Names -> Names \cup {Absent}]
      BY NamesAreAddresses DEF LostInv, GroupInv, TypeOK
    <3>3. given \in [Peers -> Clients \cup {Absent}]
      BY DEF LostInv, GroupInv, TypeOK
    <3>4. x = y
      BY <3>1, <3>2
    <3> QED
      BY <3>1, <3>3, <3>4
  <2>2. ASSUME NEW p \in Procs, SetSymlink(p) PROVE FALSE
    <3>1. x \in Names /\ table \in [Names -> Names \cup {Absent}]
      BY NamesAreAddresses DEF LostInv, GroupInv, TypeOK
    <3>2. table[x] # Absent
      OBVIOUS
    <3>3. table' \in {table, [table EXCEPT ![name[p]] = orig[p]]}
      BY <2>2 DEF SetSymlink
    <3>4. name[p] = x
      BY <3>1, <3>3
    <3> QED
      BY <2>2, <3>2, <3>4 DEF SetSymlink
  <2>3. ASSUME NEW p \in Proxies, ProxySet(p) PROVE FALSE
    BY <2>3 DEF ProxySet
  <2>4. ASSUME NEW s \in Servers, Recv(s) \/ RecvFails(s) \/ Lookup(s) \/ Send(s)
        PROVE  FALSE
    BY <2>4 DEF Recv, RecvFails, Lookup, Send
  <2>5. ASSUME NEW p \in Procs, SetUnlinkFails(p) \/ SetSymlinkFails(p)
        PROVE  FALSE
    BY <2>5 DEF SetUnlinkFails, SetSymlinkFails
  <2>6. ~ UNCHANGED vars
    BY DEF vars
  <2> QED
    BY <2>1, <2>2, <2>3, <2>4, <2>5, <2>6 DEF Next
<1>2. pc[p] = "unlink" /\ name[p] = x
  BY <1>1 DEF SetUnlink, LostInv, GroupInv, TypeOK
<1>3. p \in Servers
  BY <1>2 DEF LostInv, WritersAlone, Procs
<1>4. orig[p] \in Group(x)
  BY <1>2 DEF LostInv, GroupInv, MessagesInGroup, Group
<1>5. orig[p] \in Peers => orig[p] = x
  BY <1>4 DEF DisjointGroups, Group
<1> QED
  BY <1>2, <1>3, <1>5 DEF LostInv, OrigIsPeer

\* What a proxy has written for a peer is undone, except by a proxy, only by a
\* server with a stale lookup or a failed recvmsg, for every table and every
\* mix of calls.
THEOREM LostCorrect ==
    ASSUME SameFamily, DisjointGroups
    PROVE  Spec => LostToStaleLookupOnly
<1>1. Init => GroupInv /\ OrigIsPeer /\ WritersAlone
  BY GroupInvInductive, LostInvInductive
<1>2. GroupInv /\ TypeOK' /\ [Next]_vars => GroupInv'
  BY GroupInvInductive
<1>3. TypeOK /\ TypeOK' /\ OrigIsPeer /\ WritersAlone /\ [Next]_vars
            => OrigIsPeer' /\ WritersAlone'
  BY LostInvInductive
<1>4. GroupInv /\ OrigIsPeer /\ WritersAlone /\ [Next]_vars =>
        [\A x \in Peers :
         given[x] # Absent /\ given'[x] = given[x] /\ table[x] = given[x] =>
            \/ table'[x] = table[x]
            \/ \E s \in Servers : /\ pc[s] = "unlink" /\ name[s] = x
                                  /\ orig[s] = x \/ orig[s] \in failed]_vars
  BY EntryStep DEF LostInv
<1> QED
  BY <1>1, <1>2, <1>3, <1>4, TypeCorrect, PTL DEF Spec, LostToStaleLookupOnly

-----------------------------------------------------------------------------
(* RoundTrip.  A server writes under a client's name that it stands for the   *)
(* peer it has a message from; only a server whose recvmsg has failed on that *)
(* name writes something else, that the name stands for itself, and only a    *)
(* symlink that fails leaves nothing under it.                                *)

EntriesReturn ==
    \A x \in Peers : \A a \in Fakes[x] \ {x} :
        \/ table[a] \in {Absent, x}
        \/ table[a] = a /\ a \in failed

SavedReturns ==
    \A s \in Servers :
        /\ pc[s] = "lookup" => name[s] = orig[s]
        /\ pc[s] \in {"unlink", "symlink"} =>
              orig[s] \in Peers \/ name[s] = orig[s] \/ name[s] \in Peers

RoundInv == LostInv /\ EntriesReturn /\ SavedReturns /\ RoundTrip

\* What a name of a client becomes, and what is written under it, is the peer
\* or the name itself.
LEMMA ReturnsOrStays ==
    ASSUME SameFamily, DisjointGroups, RoundInv,
           NEW x \in Peers, NEW a \in Fakes[x] \ {x}
    PROVE  /\ Translated(a) \in {x, a}
           /\ \A p \in Procs : pc[p] = "symlink" /\ name[p] = a =>
                 p \in Servers /\ (orig[p] = x \/ (orig[p] = a /\ a \in failed))
<1>1. a.fam = x.fam /\ a \in Group(x) /\ x \in Group(x)
  BY DEF SameFamily, Group
<1>2. a \notin Peers
  BY <1>1 DEF DisjointGroups, Group
<1>3. table[a] \in {Absent, x, a}
  BY DEF RoundInv, EntriesReturn
<1>4. Translated(a) \in {x, a}
  BY <1>1, <1>3 DEF Translated, UpdateSocketAddr
<1>5. ASSUME NEW p \in Procs, pc[p] = "symlink", name[p] = a
      PROVE  p \in Servers /\ (orig[p] = x \/ (orig[p] = a /\ a \in failed))
  <2>1. p \in Servers
    BY <1>2, <1>5 DEF RoundInv, LostInv, GroupInv, TypeOK, Procs
  <2>2. orig[p] \in Peers \cup failed /\ orig[p] \in Group(x)
    BY <1>1, <1>5, <2>1 DEF RoundInv, LostInv, GroupInv, OrigIsPeer,
                            MessagesInGroup
  <2>3. orig[p] \in Peers => orig[p] = x
    BY <2>2 DEF DisjointGroups, Group
  <2>4. orig[p] \in Peers \/ orig[p] = a
    BY <1>2, <1>5, <2>1 DEF RoundInv, SavedReturns
  <2> QED
    BY <2>1, <2>2, <2>3, <2>4
<1> QED
  BY <1>4, <1>5

\* What an idle server sees is the peer, or a name of its own.
LEMMA SeenNames ==
    ASSUME RoundInv, NEW s \in Servers, pc[s] = "idle", peer[s] # Absent
    PROVE  peer[s] \in Peers /\ name[s] \in {peer[s]} \cup Fakes[peer[s]]
BY DEF RoundInv, LostInv, GroupInv, TypeOK, SeenInGroup, Group

\* A step of one server that is not writing, and writes nothing.
LEMMA ServerStep ==
    ASSUME RoundInv, TypeOK, NEW s \in Servers, pc[s] # "symlink",
           table' = table, failed \subseteq failed', broken \subseteq broken',
           \A u \in Servers \ {s} :
              /\ pc'[u] = pc[u] /\ name'[u] = name[u]
              /\ orig'[u] = orig[u] /\ peer'[u] = peer[u],
           pc'[s] # "idle" \/ peer'[s] = Absent,
           pc'[s] = "lookup" => name'[s] = orig'[s],
           pc'[s] \in {"unlink", "symlink"} =>
              orig'[s] \in Peers \/ name'[s] = orig'[s] \/ name'[s] \in Peers
    PROVE  EntriesReturn' /\ SavedReturns' /\ RoundTrip'
<1>1. EntriesReturn'
  BY DEF RoundInv, EntriesReturn
<1>2. SavedReturns'
  BY DEF RoundInv, SavedReturns
<1>3. RoundTrip'
  <2> SUFFICES ASSUME NEW u \in Servers, pc'[u] = "idle", peer'[u] # Absent
               PROVE  \/ name'[u] = peer'[u]
                      \/ table'[name'[u]] = peer'[u]
                      \/ \E t \in Servers : pc'[t] = "symlink"
                                            /\ name'[t] = name'[u]
                      \/ name'[u] \in broken' \cup failed'
    BY DEF RoundTrip
  <2>1. u # s
    OBVIOUS
  <2>2. /\ pc[u] = "idle" /\ peer[u] # Absent
        /\ name'[u] = name[u] /\ peer'[u] = peer[u]
    BY <2>1
  <2>3. \/ name[u] = peer[u]
        \/ table[name[u]] = peer[u]
        \/ \E t \in Servers : pc[t] = "symlink" /\ name[t] = name[u]
        \/ name[u] \in broken \cup failed
    BY <2>2 DEF RoundInv, RoundTrip
  <2> QED
    BY <2>2, <2>3
<1> QED
  BY <1>1, <1>2, <1>3

\* A step that clears one name, which a server that does it is going to write
\* anew if it is not a peer's.
LEMMA ClearingStep ==
    ASSUME RoundInv, TypeOK, DisjointGroups, NEW p \in Procs, NEW a \in Names,
           table' = [table EXCEPT ![a] = Absent],
           UNCHANGED <<name, orig, peer, failed, broken>>,
           \A u \in Servers \ {p} : pc'[u] = pc[u],
           p \in Servers => pc[p] = "unlink" /\ pc'[p] = "symlink",
           a \in Peers \/ (p \in Servers /\ name[p] = a)
    PROVE  EntriesReturn' /\ SavedReturns' /\ RoundTrip'
<1>0. \A x \in Peers : \A b \in Fakes[x] \ {x} : b \notin Peers /\ b \in Names
  BY NamesAreAddresses DEF DisjointGroups, Group
<1>t. \A b \in Names : table'[b] = IF b = a THEN Absent ELSE table[b]
  BY DEF TypeOK
<1>1. EntriesReturn'
  BY <1>0, <1>t DEF RoundInv, EntriesReturn
<1>2. SavedReturns'
  BY DEF RoundInv, SavedReturns
<1>3. RoundTrip'
  <2> SUFFICES ASSUME NEW u \in Servers, pc'[u] = "idle", peer[u] # Absent
               PROVE  \/ name[u] = peer[u]
                      \/ table'[name[u]] = peer[u]
                      \/ \E t \in Servers : pc'[t] = "symlink"
                                            /\ name[t] = name[u]
                      \/ name[u] \in broken \cup failed
    BY DEF RoundTrip
  <2>1. pc[u] = "idle"
    OBVIOUS
  <2>2. \/ name[u] = peer[u]
        \/ table[name[u]] = peer[u]
        \/ \E t \in Servers : pc[t] = "symlink" /\ name[t] = name[u]
        \/ name[u] \in broken \cup failed
    BY <2>1 DEF RoundInv, RoundTrip
  <2>3. peer[u] \in Peers /\ name[u] \in {peer[u]} \cup Fakes[peer[u]]
    BY <2>1, SeenNames
  <2>4. CASE name[u] = peer[u]
    BY <2>4
  <2>5. CASE name[u] # peer[u] /\ name[u] # a
    BY <1>0, <1>t, <2>2, <2>3, <2>5
  <2>6. CASE name[u] # peer[u] /\ name[u] = a
    BY <1>0, <2>3, <2>6
  <2> QED
    BY <2>4, <2>5, <2>6
<1> QED
  BY <1>1, <1>2, <1>3

\* A step that writes an entry, or finds the name taken.
LEMMA WritingStep ==
    ASSUME SameFamily, DisjointGroups, RoundInv, TypeOK,
           NEW p \in Procs, SetSymlink(p)
    PROVE  EntriesReturn' /\ SavedReturns' /\ RoundTrip'
<1> DEFINE a == name[p]
<1>0. \A x \in Peers : \A b \in Fakes[x] \ {x} :
        /\ b \notin Peers /\ b \in Names /\ b # Absent /\ x # Absent
  BY NamesAreAddresses DEF DisjointGroups, Group
<1>1. /\ pc[p] = "symlink" /\ pc'[p] = "idle"
      /\ \A u \in Servers \ {p} : pc'[u] = pc[u] /\ orig'[u] = orig[u]
      /\ \A u \in Servers : name'[u] = name[u]
      /\ peer' = peer /\ failed' = failed
      /\ table' = IF table[a] = Absent THEN [table EXCEPT ![a] = orig[p]]
                                       ELSE table
      /\ broken' \in {broken, broken \ {a}}
  BY OobpsaiAssumption DEF SetSymlink, SetReturns, Goto, TypeOK, Procs
<1>2. \A b \in Names : table'[b] = IF b = a /\ table[b] = Absent
                                   THEN orig[p] ELSE table[b]
  BY <1>1 DEF TypeOK
<1> HIDE DEF a
<1>3. \A x \in Peers : \A b \in Fakes[x] \ {x} :
        b = a => p \in Servers /\ (orig[p] = x \/ (orig[p] = b /\ b \in failed))
  BY <1>1, ReturnsOrStays DEF a
<1>4. EntriesReturn'
  BY <1>0, <1>1, <1>2, <1>3 DEF RoundInv, EntriesReturn
<1>5. SavedReturns'
  BY <1>1 DEF RoundInv, SavedReturns
<1>6. RoundTrip'
  <2> SUFFICES ASSUME NEW u \in Servers, pc'[u] = "idle", peer[u] # Absent
               PROVE  \/ name[u] = peer[u]
                      \/ table'[name[u]] = peer[u]
                      \/ \E t \in Servers : pc'[t] = "symlink"
                                            /\ name[t] = name[u]
                      \/ name[u] \in broken' \cup failed
    BY <1>1 DEF RoundTrip
  <2>1. peer[u] \in Peers /\ name[u] \in {peer[u]} \cup Fakes[peer[u]]
    BY DEF RoundInv, LostInv, GroupInv, TypeOK, SeenInGroup, Group
  <2>2. CASE name[u] = peer[u]
    BY <2>2
  <2>3. CASE name[u] # peer[u] /\ name[u] = a
    \* The entry is there now: it was, or it has been written.
    <3>1. table'[a] # Absent
      BY <1>0, <1>2, <1>3, <2>1, <2>3
    <3> QED
      BY <1>0, <1>1, <1>4, <2>1, <2>3, <3>1 DEF EntriesReturn
  <2>4. CASE name[u] # peer[u] /\ name[u] # a
    <3>1. u # p /\ pc[u] = "idle"
      BY <1>1, <2>4 DEF a
    <3>2. \/ table[name[u]] = peer[u]
          \/ \E t \in Servers : pc[t] = "symlink" /\ name[t] = name[u]
          \/ name[u] \in broken \cup failed
      BY <2>4, <3>1 DEF RoundInv, RoundTrip
    <3> QED
      BY <1>0, <1>1, <1>2, <2>1, <2>4, <3>2 DEF a
  <2> QED
    BY <2>2, <2>3, <2>4
<1> QED
  BY <1>4, <1>5, <1>6

\* A step that fails to write an entry.
LEMMA BreakingStep ==
    ASSUME RoundInv, TypeOK, NEW p \in Procs, SetSymlinkFails(p)
    PROVE  EntriesReturn' /\ SavedReturns' /\ RoundTrip'
<1>1. /\ pc[p] = "symlink" /\ pc'[p] = "idle"
      /\ \A u \in Servers \ {p} : pc'[u] = pc[u] /\ orig'[u] = orig[u]
      /\ \A u \in Servers : name'[u] = name[u]
      /\ table' = table /\ peer' = peer /\ failed' = failed
      /\ broken' = broken \cup {name[p]}
  BY OobpsaiAssumption DEF SetSymlinkFails, SetReturns, Goto, TypeOK, Procs
<1>2. EntriesReturn' /\ SavedReturns'
  BY <1>1 DEF RoundInv, EntriesReturn, SavedReturns
<1>3. RoundTrip'
  <2> SUFFICES ASSUME NEW u \in Servers, pc'[u] = "idle", peer[u] # Absent
               PROVE  \/ name[u] = peer[u]
                      \/ table[name[u]] = peer[u]
                      \/ \E t \in Servers : pc'[t] = "symlink"
                                            /\ name[t] = name[u]
                      \/ name[u] \in broken' \cup failed
    BY <1>1 DEF RoundTrip
  <2>1. CASE name[u] = name[p]
    BY <1>1, <2>1
  <2>2. CASE name[u] # name[p]
    <3>1. u # p /\ pc[u] = "idle"
      BY <1>1, <2>2
    <3>2. \/ name[u] = peer[u]
          \/ table[name[u]] = peer[u]
          \/ \E t \in Servers : pc[t] = "symlink" /\ name[t] = name[u]
          \/ name[u] \in broken \cup failed
      BY <3>1 DEF RoundInv, RoundTrip
    <3> QED
      BY <1>1, <2>2, <3>2
  <2> QED
    BY <2>1, <2>2
<1> QED
  BY <1>2, <1>3

\* What change_socket_address finds is the peer, or the name that was saved.
LEMMA LookupReturns ==
    ASSUME SameFamily, DisjointGroups, RoundInv, TypeOK,
           NEW s \in Servers, pc[s] = "lookup"
    PROVE  \/ orig[s] \in Peers \/ Translated(name[s]) = orig[s]
           \/ Translated(name[s]) \in Peers
<1>1. name[s] = orig[s] /\ name[s] # Absent /\ name[s] \in Addrs
  BY DEF RoundInv, LostInv, GroupInv, MessagesInGroup, SavedReturns, TypeOK,
         Procs
<1>2. CASE name[s] \in Peers
  BY <1>1, <1>2
<1>3. CASE name[s] \notin Peers
  <2>1. PICK x \in Peers : name[s] \in Fakes[x] \ {x}
    BY <1>1, <1>3 DEF Addrs, Clients
  <2> QED
    BY <1>1, <2>1, ReturnsOrStays
<1> QED
  BY <1>2, <1>3

\* RoundInv holds initially and every step keeps it.
LEMMA RoundInvInductive ==
    ASSUME SameFamily, DisjointGroups
    PROVE  /\ Init => EntriesReturn /\ SavedReturns /\ RoundTrip
           /\ RoundInv /\ [Next]_vars
                  => EntriesReturn' /\ SavedReturns' /\ RoundTrip'
<1>1. Init => EntriesReturn /\ SavedReturns /\ RoundTrip
  BY NamesAreAddresses
     DEF Init, EntriesReturn, SavedReturns, RoundTrip, Procs
<1>2. ASSUME RoundInv, [Next]_vars
      PROVE  EntriesReturn' /\ SavedReturns' /\ RoundTrip'
  <2> USE <1>2
  <2>t. TypeOK /\ EntriesReturn /\ SavedReturns /\ RoundTrip
    BY DEF RoundInv, LostInv, GroupInv
  <2>1. ASSUME NEW p \in Proxies, ProxySet(p)
        PROVE  EntriesReturn' /\ SavedReturns' /\ RoundTrip'
    <3>1. PICK x \in Peers : \E a \in Fakes[x] :
                                /\ name' = [name EXCEPT ![p] = x]
                                /\ orig' = [orig EXCEPT ![p] = a]
      BY <2>1 DEF ProxySet
    <3>2. /\ \A s \in Servers : /\ name'[s] = name[s] /\ orig'[s] = orig[s]
                                /\ pc'[s] = pc[s]
          /\ UNCHANGED <<table, peer, failed, broken>>
      BY <2>1, <2>t, <3>1, OobpsaiAssumption DEF ProxySet, Goto, TypeOK, Procs
    <3> QED
      BY <2>t, <3>2 DEF EntriesReturn, SavedReturns, RoundTrip
  <2>2. ASSUME NEW p \in Proxies, ProxyUnset(p)
        PROVE  EntriesReturn' /\ SavedReturns' /\ RoundTrip'
    <3>1. PICK x \in Peers : \/ table' = [table EXCEPT ![x] = Absent]
                             \/ table' = table
      BY <2>2 DEF ProxyUnset
    <3>2. /\ UNCHANGED <<pc, name, orig, peer, failed, broken>>
          /\ p \in Procs /\ p \notin Servers /\ x \in Names
      BY <2>2, NamesAreAddresses, OobpsaiAssumption DEF ProxyUnset, Procs
    <3>3. CASE table' = table
      BY <2>t, <3>2, <3>3 DEF EntriesReturn, SavedReturns, RoundTrip
    <3> QED
      BY <2>t, <3>1, <3>2, <3>3, ClearingStep
  <2>3. ASSUME NEW s \in Servers, Recv(s)
        PROVE  EntriesReturn' /\ SavedReturns' /\ RoundTrip'
    <3>1. PICK x \in Peers : /\ name' = [name EXCEPT ![s] = x]
                             /\ orig' = [orig EXCEPT ![s] = x]
                             /\ peer' = [peer EXCEPT ![s] = x]
      BY <2>3 DEF Recv
    <3>2. /\ pc[s] = "idle" /\ pc'[s] = "lookup" /\ name'[s] = orig'[s]
          /\ table' = table /\ failed' = failed /\ broken' = broken
          /\ \A u \in Servers \ {s} :
                /\ pc'[u] = pc[u] /\ name'[u] = name[u]
                /\ orig'[u] = orig[u] /\ peer'[u] = peer[u]
      BY <2>3, <2>t, <3>1 DEF Recv, Goto, TypeOK, Procs
    <3> QED
      BY <2>t, <3>2, ServerStep
  <2>4. ASSUME NEW s \in Servers, RecvFails(s)
        PROVE  EntriesReturn' /\ SavedReturns' /\ RoundTrip'
    <3>1. /\ pc[s] = "idle" /\ pc'[s] = "lookup" /\ name'[s] = orig'[s]
          /\ table' = table /\ failed \subseteq failed' /\ broken' = broken
          /\ \A u \in Servers \ {s} :
                /\ pc'[u] = pc[u] /\ name'[u] = name[u]
                /\ orig'[u] = orig[u] /\ peer'[u] = peer[u]
      BY <2>4, <2>t DEF RecvFails, Goto, TypeOK, Procs
    <3> QED
      BY <2>t, <3>1, ServerStep
  <2>5. ASSUME NEW s \in Servers, Lookup(s)
        PROVE  EntriesReturn' /\ SavedReturns' /\ RoundTrip'
    <3>1. /\ pc[s] = "lookup" /\ pc'[s] = "unlink"
          /\ name'[s] = Translated(name[s]) /\ orig'[s] = orig[s]
          /\ table' = table /\ failed' = failed /\ broken' = broken
          /\ \A u \in Servers \ {s} :
                /\ pc'[u] = pc[u] /\ name'[u] = name[u]
                /\ orig'[u] = orig[u] /\ peer'[u] = peer[u]
      BY <2>5, <2>t DEF Lookup, Goto, TypeOK, Procs
    <3>2. orig'[s] \in Peers \/ name'[s] = orig'[s] \/ name'[s] \in Peers
      BY <2>t, <3>1, LookupReturns
    <3> QED
      BY <2>t, <3>1, <3>2, ServerStep
  <2>6. ASSUME NEW s \in Servers, Send(s)
        PROVE  EntriesReturn' /\ SavedReturns' /\ RoundTrip'
    <3>1. /\ pc[s] = "idle" /\ pc'[s] = "idle" /\ peer'[s] = Absent
          /\ table' = table /\ failed' = failed /\ broken' = broken
          /\ \A u \in Servers \ {s} :
                /\ pc'[u] = pc[u] /\ name'[u] = name[u]
                /\ orig'[u] = orig[u] /\ peer'[u] = peer[u]
      BY <2>6, <2>t DEF Send, TypeOK, Procs
    <3> QED
      BY <2>t, <3>1, ServerStep
  <2>7. ASSUME NEW p \in Procs, SetUnlink(p)
        PROVE  EntriesReturn' /\ SavedReturns' /\ RoundTrip'
    <3>1. /\ pc[p] = "unlink" /\ pc'[p] = "symlink" /\ name[p] \in Names
          /\ table' = [table EXCEPT ![name[p]] = Absent]
          /\ UNCHANGED <<name, orig, peer, failed, broken>>
          /\ \A u \in Servers \ {p} : pc'[u] = pc[u]
          /\ name[p] \in Peers \/ p \in Servers
      BY <2>7, <2>t DEF SetUnlink, Goto, TypeOK, Procs
    <3> QED
      BY <2>t, <3>1, ClearingStep
  <2>8. ASSUME NEW p \in Procs, SetSymlink(p)
        PROVE  EntriesReturn' /\ SavedReturns' /\ RoundTrip'
    BY <2>8, <2>t, WritingStep
  <2>9. ASSUME NEW p \in Procs, SetUnlinkFails(p)
        PROVE  EntriesReturn' /\ SavedReturns' /\ RoundTrip'
    <3>1. /\ pc[p] = "unlink" /\ pc'[p] = "symlink"
          /\ UNCHANGED <<table, name, orig, peer, failed, broken>>
          /\ \A u \in Procs \ {p} : pc'[u] = pc[u]
      BY <2>9, <2>t DEF SetUnlinkFails, Goto, TypeOK
    <3> QED
      BY <2>t, <3>1 DEF EntriesReturn, SavedReturns, RoundTrip, Procs
  <2>10. ASSUME NEW p \in Procs, SetSymlinkFails(p)
         PROVE  EntriesReturn' /\ SavedReturns' /\ RoundTrip'
    BY <2>10, <2>t, BreakingStep
  <2>11. CASE UNCHANGED vars
    BY <2>11, <2>t DEF vars, EntriesReturn, SavedReturns, RoundTrip
  <2> QED
    BY <2>1, <2>2, <2>3, <2>4, <2>5, <2>6, <2>7, <2>8, <2>9, <2>10, <2>11
       DEF Next
<1> QED
  BY <1>1, <1>2

\* A server that has received a message finds the peer again under the address
\* it was shown, unless a server is just writing that name anew, a symlink of
\* it has failed since it was last written, or a server whose recvmsg has failed
\* may have written it, for every table, every mix of calls and every failure.
THEOREM RoundTripCorrect ==
    ASSUME SameFamily, DisjointGroups
    PROVE  Spec => []RoundTrip
<1>1. Init => GroupInv /\ OrigIsPeer /\ WritersAlone /\ EntriesReturn
              /\ SavedReturns /\ RoundTrip
  BY GroupInvInductive, LostInvInductive, RoundInvInductive
<1>2. GroupInv /\ TypeOK' /\ [Next]_vars => GroupInv'
  BY GroupInvInductive
<1>3. TypeOK /\ TypeOK' /\ OrigIsPeer /\ WritersAlone /\ [Next]_vars
            => OrigIsPeer' /\ WritersAlone'
  BY LostInvInductive
<1>4. GroupInv /\ OrigIsPeer /\ WritersAlone /\ EntriesReturn /\ SavedReturns
            /\ RoundTrip /\ [Next]_vars
            => EntriesReturn' /\ SavedReturns' /\ RoundTrip'
  BY RoundInvInductive DEF RoundInv, LostInv
<1> QED
  BY <1>1, <1>2, <1>3, <1>4, TypeCorrect, PTL DEF Spec
=============================================================================
