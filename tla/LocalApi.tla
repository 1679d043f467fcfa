------------------------------- MODULE LocalApi ------------------------------
(***************************************************************************)
(* The state behind the local HTTP API (server/api) from the start of the  *)
(* process to its end: the public address, the tokens, which live in       *)
(* memory only, and the ring of log lines.  Handlers run concurrently, and *)
(* each does what it does to the state under its lock, in one step.        *)
(*                                                                         *)
(* Time is counted in TicksPerHour; a time.Duration holds Durations values *)
(* (2^64 in the code), half of them negative, and wraps.                   *)
(***************************************************************************)
EXTENDS Integers, InviteLink

CONSTANTS Addresses,    \* public addresses the services or the user may give, as text
          LANAddress, Port,
          Services,     \* how many services DetectPublicIP asks
          TTLs,         \* values of ttl_hours in requests
          DefaultTTL,   \* 72 in the code
          TicksPerHour, Durations,
          LogSize,      \* 500 in the code
          MaxInvites, MaxLines, MaxBoots, End      \* bounds

ASSUME ApiAssumption == /\ TTLs \subseteq Int /\ DefaultTTL \in Nat /\ TicksPerHour \in Nat
                        /\ Durations \in Nat \ {0} /\ Services \in Nat

VARIABLES clock,
          boot,         \* which start of the process this is
          up,           \* the process runs
          serving,      \* the API listens
          publicIP,
          tokens,       \* the token store: token -> its TokenRecord
          issued,       \* tokens drawn so far; the n-th is n
          refused,      \* history: issued tokens that ValidateToken has refused
          logBuf,
          lines         \* log lines of this boot so far; the n-th is n

apiVars == <<clock, boot, up, serving, publicIP, tokens, issued, refused, logBuf, lines>>

None      == <<>>
Text(n)   == [i \in 1..n |-> "a"]       \* base64url, which needs no escapes
ApiInit == /\ clock = 0 /\ boot = 0 /\ up = FALSE /\ serving = FALSE /\ publicIP = None
           /\ tokens = <<>> /\ issued = 0 /\ refused = {}
           /\ logBuf = <<>> /\ lines = 0
-----------------------------------------------------------------------------
(* The first service that answers with an address; else the address of the *)
(* LAN; a network without one gives "unknown".                             *)
DetectPublicIP(answers) ==
    LET first == SelectInSeq(answers, LAMBDA a : a # None)
    IN  IF first = 0 THEN {LANAddress, <<"unknown">>} ELSE {answers[first]}

(* New and Start of the API.  When the address cannot be had, a goroutine  *)
(* logs it, and the process goes on without.                               *)
Listens == serving' \in BOOLEAN

(* main up to apiSrv.Start: public_ip in the file overrides what is found. *)
ApiStarts == /\ ~up /\ boot < MaxBoots
             /\ \/ \E answers \in [1..Services -> Addresses \cup {None}] : publicIP' \in DetectPublicIP(answers)
                \/ publicIP' \in Addresses
             /\ up' = TRUE /\ Listens
             /\ boot' = boot + 1
             /\ UNCHANGED <<clock, tokens, issued, refused, logBuf, lines>>

(* The process ends, or is killed: tokens and lines are lost.              *)
ApiExits == /\ up
            /\ up' = FALSE /\ serving' = FALSE /\ publicIP' = None
            /\ tokens' = <<>> /\ logBuf' = <<>> /\ lines' = 0
            /\ UNCHANGED <<clock, boot, issued, refused>>

Wrapped(d) == LET m == d % Durations IN IF m >= Durations \div 2 THEN m - Durations ELSE m
TTL(asked) == IF asked <= 0 THEN DefaultTTL ELSE asked

randomID == issued + 1

TokenRecord(id, ttl) == [issuedAt |-> clock, revoked |-> FALSE, ttl |-> ttl,
                         expiresAt |-> clock + Wrapped(ttl * TicksPerHour),
                         link |-> ServerLink(publicIP, Port, Text(id))]

(* A request that cannot be decoded counts as one without a ttl.           *)
handleInvite(asked) ==
    /\ serving /\ issued < MaxInvites
    /\ issued' = randomID
    /\ tokens' = [t \in DOMAIN tokens \cup {randomID} |->
                   IF t = randomID THEN TokenRecord(t, TTL(asked)) ELSE tokens[t]]
    /\ UNCHANGED <<clock, boot, up, serving, publicIP, refused, logBuf, lines>>

(* A mutant: revoking a second time undoes it.                             *)
handleRevokeToggles(t) ==
    /\ serving /\ t \in DOMAIN tokens
    /\ tokens' = [tokens EXCEPT ![t].revoked = ~@]
    /\ UNCHANGED <<clock, boot, up, serving, publicIP, issued, refused, logBuf, lines>>

handleRevokeInvite(t) ==
    /\ serving /\ t \in DOMAIN tokens
    /\ tokens' = [tokens EXCEPT ![t].revoked = TRUE]
    /\ UNCHANGED <<clock, boot, up, serving, publicIP, issued, refused, logBuf, lines>>

Valid(t) == up /\ t \in DOMAIN tokens /\ ~tokens[t].revoked /\ clock <= tokens[t].expiresAt

(* A handshake with the token; only its refusal leaves a trace here.       *)
ValidateToken(t) ==
    /\ up /\ ~Valid(t)
    /\ refused' = refused \cup {t}
    /\ UNCHANGED <<clock, boot, up, serving, publicIP, tokens, issued, logBuf, lines>>

AddLog == /\ up /\ lines < MaxLines
          /\ lines' = lines + 1
          /\ logBuf' = LET all == Append(logBuf, lines + 1)
                       IN  IF Len(all) > LogSize THEN SubSeq(all, Len(all) - LogSize + 1, Len(all)) ELSE all
          /\ UNCHANGED <<clock, boot, up, serving, publicIP, tokens, issued, refused>>

TimePasses == /\ clock < End /\ clock' = clock + 1
              /\ UNCHANGED <<boot, up, serving, publicIP, tokens, issued, refused, logBuf, lines>>

ApiNext == \/ ApiStarts \/ ApiExits \/ AddLog \/ TimePasses
           \/ \E asked \in TTLs : handleInvite(asked)
           \/ \E t \in 1..issued : handleRevokeInvite(t) \/ ValidateToken(t)

ApiSpec == ApiInit /\ [][ApiNext]_apiVars
-----------------------------------------------------------------------------
(* An invitation lives as long as was asked for, unless it is revoked or   *)
(* the process ends, if its lifetime fits a time.Duration; and one that    *)
(* was refused once is never accepted again, even one whose lifetime       *)
(* wrapped.                                                                *)
InvitesAreHonoured ==
    /\ \A t \in refused : ~Valid(t)
    /\ \A t \in DOMAIN tokens :
          ~tokens[t].revoked /\ tokens[t].ttl * TicksPerHour < Durations \div 2 =>
              (Valid(t) <=> clock - tokens[t].issuedAt <= tokens[t].ttl * TicksPerHour)

(* The desktop app reads the server's address and the token from the link  *)
(* just issued, whatever address was found or given, and the apps for      *)
(* phones read such a link in the form their documentation shows.          *)
LinksAreRead ==
    \A t \in DOMAIN tokens \cap {issued} :
        LET addr == publicIP \o <<":">> \o Port
        IN  /\ parseInviteLink(tokens[t].link) = [server |-> addr, token |-> Text(t)]
            /\ ParseInviteLink(ConnectLink(addr, Text(t))) = [server |-> addr, token |-> Text(t)]

(* README.md:316: a friend taps the link on a phone, and HomeTunnel opens  *)
(* and connects.                                                           *)
PhonesReadLinks ==
    \A t \in DOMAIN tokens : ParseInviteLink(tokens[t].link) # NoLink
=============================================================================
