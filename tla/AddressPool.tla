----------------------------- MODULE AddressPool -----------------------------
(***************************************************************************)
(* NewIPPool (server/client_manager): the addresses of the VPN's subnet    *)
(* that clients may be given, in the order in which Allocate tries them.   *)
(* ClientManager numbers them from 1 on.                                   *)
(*                                                                         *)
(* An address is a sequence of octets, of OctetBits bits each.  The        *)
(* configuration may name any subnet and any address of the server.  One   *)
(* of 0 bits is left out: it contains every address, and NewIPPool never   *)
(* returns.                                                                *)
(***************************************************************************)
EXTENDS Integers, Sequences, FiniteSetsExt

CONSTANTS OctetBits, Octets     \* 8 and 4 in the code

ASSUME AddressAssumption == OctetBits \in Nat \ {0} /\ Octets \in Nat \ {0}

VARIABLES prefix,       \* bits of the subnet's mask
          network,      \* its first address
          serverIP,
          candidate,    \* the loop's ip
          available     \* IPPool.available

addrVars == <<prefix, network, serverIP, candidate, available>>

Values == 2^OctetBits
IPv4   == [1..Octets -> 0..(Values - 1)]

(* net.ParseCIDR: the mask, and the address with the host's bits cleared.  *)
MaskOf(bits) == [i \in 1..Octets |->
                    LET ones == bits - (i - 1) * OctetBits
                    IN  Values - 2^(OctetBits - Max({0, Min({ones, OctetBits})}))]
Masked(ip, mask) == [i \in 1..Octets |-> ip[i] - (ip[i] % (Values - mask[i]))]

Within(ip) == Masked(ip, MaskOf(prefix)) = network

broadcastIP == [i \in 1..Octets |-> network[i] + (Values - 1 - MaskOf(prefix)[i])]

(* A mutant: no octet but the last is ever incremented.                    *)
incrementLast(ip) == [ip EXCEPT ![Octets] = (@ + 1) % Values]

(* The last octet that does not wrap to 0 is the last one to change.       *)
incrementIP(ip) ==
    LET last == Max({0} \cup {i \in 1..Octets : ip[i] # Values - 1})
    IN  [i \in 1..Octets |-> IF i < last THEN ip[i] ELSE (ip[i] + 1) % Values]
-----------------------------------------------------------------------------
PoolOf(bits, ip, server) == /\ prefix = bits /\ serverIP = server
                            /\ network = Masked(ip, MaskOf(bits))
                            /\ candidate = Masked(ip, MaskOf(bits))
                            /\ available = <<>>

(* One round of the loop: the network's address, the broadcast address and *)
(* the server's are left out.                                              *)
NewIPPool ==
    /\ Within(candidate)
    /\ available' = IF candidate \in {network, broadcastIP, serverIP} THEN available
                    ELSE Append(available, candidate)
    /\ candidate' = incrementIP(candidate)
    /\ UNCHANGED <<prefix, network, serverIP>>

AddrInit == \E bits \in 1..(Octets * OctetBits) : \E ip, server \in IPv4 : PoolOf(bits, ip, server)
AddrSpec == AddrInit /\ [][NewIPPool]_addrVars
-----------------------------------------------------------------------------
(* Addresses in the order of the numbers they stand for.                   *)
Before(a, b) == \E i \in 1..Octets : a[i] < b[i] /\ \A j \in 1..(i - 1) : a[j] = b[j]

(* Those of the subnet but for its first, its last and the server's.       *)
Usable == LET inside == {ip \in IPv4 : Within(ip)}
          IN  {ip \in inside : /\ ip # serverIP
                               /\ \E a \in inside : Before(a, ip)
                               /\ \E b \in inside : Before(ip, b)}

InPool == {available[i] : i \in 1..Len(available)}

(* For a subnet of any size and place, up to the last address there is,    *)
(* after which the candidate wraps, the pool that the loop leaves has the  *)
(* usable addresses of the subnet, all of them and no other, each once and *)
(* in order.                                                               *)
PoolIsExact == /\ \A i \in 2..Len(available) : Before(available[i - 1], available[i])
               /\ ~Within(candidate) => InPool = Usable
=============================================================================
