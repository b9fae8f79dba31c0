----------------------------- MODULE IpWhitelist -----------------------------
(***************************************************************************)
(* The IP whitelist (crates/core/src/ip_whitelist.rs).  Addresses are      *)
(* numbers of AddressBits bits, an entry is the trimmed text of one line   *)
(* of the list by what it parses to.                                       *)
(***************************************************************************)
EXTENDS Naturals

CONSTANTS AddressBits,   \* length of an address
          LoopbackAddrs  \* the addresses IpAddr::is_loopback accepts

ASSUME AddressAssumption ==
    /\ AddressBits \in Nat \ {0}
    /\ LoopbackAddrs \subseteq 0 .. (2 ^ AddressBits - 1)
    /\ LoopbackAddrs # {}
    /\ 0 \notin LoopbackAddrs   \* the unspecified address

Addresses == 0 .. (2 ^ AddressBits - 1)

\* One address, a network with its prefix length, or text that parses to neither.
Ip(a) == [kind |-> "ip", addr |-> a, len |-> AddressBits]
Net(a, n) == [kind |-> "net", addr |-> a, len |-> n]
Junk == [kind |-> "junk", addr |-> 0, len |-> 0]
Blank == [kind |-> "blank", addr |-> 0, len |-> 0]

\* 127.0.0.1, REQUIRED_LOOPBACK_IP.
Loopback == Ip(CHOOSE a \in LoopbackAddrs : TRUE)

Entries ==
    {Ip(a) : a \in Addresses} \cup {Net(a, n) : a \in Addresses, n \in 0 .. AddressBits}
        \cup {Junk, Blank}

\* The list as a set: the order and the repetitions that it removes are left out.
normalize_allowed_ips(entries) == {Loopback} \cup {e \in entries : e # Blank}

\* 0.0.0.0 and :: are the address 0.
ValidEntry(e) ==
    \/ e.kind = "net" /\ e.len # 0
    \/ e.kind = "ip" /\ e.addr # 0

\* Whether the leading e.len bits of the address and of the entry agree.
entry_matches_client_ip(e, ip) ==
    /\ e.kind \in {"ip", "net"}
    /\ LET host == 2 ^ (AddressBits - e.len)
       IN  ip \div host = e.addr \div host

is_client_ip_allowed(ip, entries) ==
    \/ ip \in LoopbackAddrs
    \/ \E e \in entries : entry_matches_client_ip(e, ip)
==============================================================================
