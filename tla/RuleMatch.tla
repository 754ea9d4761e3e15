----------------------------- MODULE RuleMatch -----------------------------
(***************************************************************************)
(* How a rule is matched with a packet: the hosts as fw_get_hostip_mask    *)
(* takes them, the mask as fwrules_entry_get_action builds it, the ports,  *)
(* the application, and the first rule that matches.                       *)
(*                                                                         *)
(* Abstractions.  An address has two groups of GroupBits bits for four of  *)
(* eight; arithmetic is modulo the width of an address, as it is modulo    *)
(* 2^32 in the code.  A port is 0 for any.                                 *)
(***************************************************************************)
EXTENDS Integers, SequencesExt

CONSTANT GroupBits

ASSUME MatchAssumption == GroupBits \in Nat \ {0}

\* 1 << n.
Pow2[n \in Nat] == IF n = 0 THEN 1 ELSE 2 * Pow2[n - 1]

Bits    == 2 * GroupBits
Ones    == Pow2[Bits] - 1
Group   == 0..(Pow2[GroupBits] - 1)
Address == 0..Ones

\* What strtok and sscanf make of a host: "0/0", or groups and a mask.
Zero == [zero |-> TRUE, groups |-> <<0, 0>>, mask |-> 0]
Cidr(g, h, m) == [zero |-> FALSE, groups |-> <<g, h>>, mask |-> m]

\* fw_get_hostip_mask: whether RULES ADD takes the host, and its address.
Parses(host) ==
  host.zero \/ (host.groups \in Group \X Group /\ host.mask \in 0..Bits)
HostIp(host) == host.groups[1] * Pow2[GroupBits] + host.groups[2]

\* Mutant: 1 << (m - 1).
MaskTooShort(m, undef) ==
  IF m = 0 THEN undef ELSE ((Pow2[m - 1] - 1) * Pow2[Bits - m]) % Pow2[Bits]

\* ((2 << (m - 1)) - 1) << (width - m): for m = 0 the shifts are undefined, and
\* the build decides what comes out.
Mask(m, undef) ==
  IF m = 0 THEN undef ELSE ((2 * Pow2[m - 1] - 1) * Pow2[Bits - m]) % Pow2[Bits]

\* All ones if the shifts count modulo the width (x86), none if they do not.
Undefined == {Ones, 0}

\* x & mask is y & mask: the bits of the mask are those of x and of y.
Bit(x, i) == (x \div Pow2[i]) % 2
SameUnder(mask, x, y) ==
  \A i \in 0..(Bits - 1) : Bit(mask, i) = 1 => Bit(x, i) = Bit(y, i)

SameNet(host, ip, undef) ==
  host.zero \/ SameUnder(Mask(host.mask, undef), HostIp(host), ip)

SamePort(rule, packet) == rule \in {0, packet}

\* A NULL application, and one that could not be found.
Unknown == {"null", "*"}

\* The tests of one rule.  The first interface, position 0, is taken for none.
Hits(r, p, app, undef) ==
  /\ r.iface # 0 /\ r.iface = p.iface
  /\ r.dir = p.dir /\ r.proto = p.proto
  /\ SameNet(r.src, p.src, undef) /\ SameNet(r.dst, p.dst, undef)
  /\ SamePort(r.sport, p.sport) /\ SamePort(r.dport, p.dport)
  /\ app \in Unknown \cup {r.app}

\* fwrules_entry_get_action: the first rule that matches, or the default of the
\* packet's direction.
Action(rules, p, app, undef, default) ==
  LET i == SelectInSeq(rules, LAMBDA r : Hits(r, p, app, undef))
  IN  IF i = 0 THEN default[p.dir] ELSE rules[i].action

-----------------------------------------------------------------------------
(* The reference: a CIDR net is the addresses with the same prefix.        *)

InNet(host, ip) ==
  host.zero \/ LET low == Pow2[Bits - host.mask] IN HostIp(host) \div low = ip \div low

\* What a rule is for, by protocol_commands.txt:120-128.
Covers(r, p, app) ==
  /\ <<r.iface, r.dir, r.proto>> = <<p.iface, p.dir, p.proto>>
  /\ InNet(r.src, p.src) /\ InNet(r.dst, p.dst)
  /\ r.sport = 0 \/ r.sport = p.sport
  /\ r.dport = 0 \/ r.dport = p.dport
  /\ app \notin Unknown => r.app = app
=============================================================================
