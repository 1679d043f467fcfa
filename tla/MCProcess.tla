----------------------------- MODULE MCProcess -----------------------------
(* What the server's process keeps beside its dispatch loop: the life of   *)
(* the VPN, the clocks of idle sessions, the rate limiter, the API's       *)
(* state, the configuration file, the address pool made from it at         *)
(* start-up, and the TUN device it opens, as the client does.  They share  *)
(* no state, so a behaviour takes the steps of one part, and the others    *)
(* stay as they begin.                                                     *)
EXTENDS Keepalive, VpnLifecycle, RateLimit, LocalApi, ConfigStore, AddressPool, TunDevice

CONSTANT Parts      \* those this run checks

VARIABLE part

otherVars   == <<rateVars, apiVars, configVars, tunVars>>
processVars == <<vars, vpnVars, otherVars, addrVars>>

(* The server's address: the first of the subnet, or one that is in few.   *)
MCLowest == [i \in 1..Octets |-> 0]
PoolInit == \E bits \in 1..(Octets * OctetBits) :
               \E ip \in {a \in IPv4 : Masked(a, MaskOf(bits)) = a} :
                  \E server \in {incrementIP(ip), [MCLowest EXCEPT ![Octets] = 2]} : PoolOf(bits, ip, server)

MCInit == /\ VpnInit /\ RateInit /\ ApiInit /\ ConfigInit /\ TunInit
          /\ Init
          /\ part \in Parts
          /\ part # "keepalive" => age = 0 /\ sinceSwept = 0
          /\ part # "device" => goos = "linux"
          /\ IF part = "pool" THEN PoolInit ELSE PoolOf(Octets * OctetBits, MCLowest, MCLowest)

MCNext == /\ \/ part = "vpn"       /\ VpnNext    /\ UNCHANGED <<vars, otherVars, addrVars>>
             \/ part = "keepalive" /\ Next       /\ UNCHANGED <<vpnVars, otherVars, addrVars>>
             \/ part = "pool"      /\ NewIPPool  /\ UNCHANGED <<vars, vpnVars, otherVars>>
             \/ /\ UNCHANGED <<vars, vpnVars, addrVars>>
                /\ \/ part = "limiter" /\ RateNext   /\ UNCHANGED <<apiVars, configVars, tunVars>>
                   \/ part = "api"     /\ ApiNext    /\ UNCHANGED <<rateVars, configVars, tunVars>>
                   \/ part = "config"  /\ ConfigNext /\ UNCHANGED <<rateVars, apiVars, tunVars>>
                   \/ part = "device"  /\ TunNext    /\ UNCHANGED <<rateVars, apiVars, configVars>>
          /\ UNCHANGED part

MCSpec == MCInit /\ [][MCNext]_<<processVars, part>>
-----------------------------------------------------------------------------
(* The characters of an address, a port and a setting that matter.         *)
MCAddresses == {<<"2", ":", "b">>}
MCLANAddress == <<"3">>
MCPort      == <<"4", "4", "3">>
=============================================================================
