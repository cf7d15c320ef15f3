----------------------------- MODULE MCAutossl -----------------------------
(* A client, its environments, and what it connects to. *)
EXTENDS Autossl, TLC

Symmetry == Permutations(Threads)

To(port) == [inet |-> TRUE, ip |-> "one", port |-> port]
Plain == [noports |-> TRUE, ports |-> <<>>, anyip |-> TRUE, ips |-> <<>>,
          cmd |-> FALSE, errno |-> FALSE, map |-> <<>>]

\* Two threads, one port.
MCTwoDests == {To(80)}
MCTwoEnvs == {Wrapped(Plain)}

\* One thread.  Port 443 is upgraded and mapped in its turn in one of the
\* environments, so that a helper's connection starts another helper; port
\* 65616 is 80 in 16 bits.
Other == [inet |-> TRUE, ip |-> "two", port |-> 80]
Local == [inet |-> FALSE, ip |-> "", port |-> 0]
MCDests == {To(80), To(8080), To(443), Other, Local}
Ips(ips) == [Plain EXCEPT !.anyip = FALSE, !.ips = ips]
MCEnvs ==
    { Plain,
      Wrapped(Plain),
      [Wrapped(Plain) EXCEPT !.errno = FALSE, !.ports = <<443, 0, 80>>],
      [Wrapped(Plain) EXCEPT !.ports = <<65616, 8080>>],
      [Wrapped(Plain) EXCEPT !.cmd = FALSE],
      Wrapped([Plain EXCEPT !.ports = <<443, 8080>>, !.map = <<<<443, 8443>>>>]),
      Wrapped([Plain EXCEPT !.ports = <<0>>, !.map = <<<<80, 8443>>>>]),
      Wrapped(Ips(<<"two", "bad">>)),
      Wrapped(Ips(<<"two", "one">>)),
      [Wrapped(Ips(<<"bad">>)) EXCEPT !.errno = FALSE] }
=============================================================================
