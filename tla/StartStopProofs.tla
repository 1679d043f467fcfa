--------------------------- MODULE StartStopProofs ---------------------------
(***************************************************************************)
(* What the server's process keeps from one start to the next, proved for  *)
(* any number of starts.  ConfigStore, for any keys and settings, crashes  *)
(* and edits: the invariant follows the saved key and the user's setting   *)
(* from the file into memory and back.  VpnLifecycle, for any number of    *)
(* calls of startVPN and stopVPN: what Running says is what is open.       *)
(* LocalApi, for any tokens, lifetimes and boots: a token is accepted for  *)
(* as long as was asked for, and never after it was refused.               *)
(***************************************************************************)
EXTENDS ConfigStore, VpnLifecycle, LocalApi, AddressPool,
        FiniteSetTheorems, SequenceTheorems, WellFoundedInduction, TLAPS

(* A complete file has the setting the user last wrote; before there is    *)
(* any file the user has written none.                                     *)
FileHasSetting == /\ file.is = "json" => "setting" \in DOMAIN file.has /\ file.has["setting"] = wrote
                  /\ file.is = "absent" => wrote = "default"

FileHasSaved == saved # NoKey => /\ file.is = "json"
                                 /\ "secret_key" \in DOMAIN file.has /\ file.has["secret_key"] = saved

(* What is in memory once the file is loaded; while a key is generated and *)
(* written, none is saved.                                                 *)
LoadedIsWritten ==
    /\ stage \in {"keygen", "save", "write", "serve"} => cfg["setting"] = wrote
    /\ stage \in {"keygen", "serve"} /\ saved # NoKey => cfg["secret_key"] = saved
    /\ stage \in {"save", "write"} => saved = NoKey
    /\ DOMAIN cfg = Fields

StoreInv == FileHasSetting /\ FileHasSaved /\ LoadedIsWritten

(* The first start finds no file.                                          *)
LEMMA InitInv == ConfigInit => StoreInv
<1> SUFFICES ASSUME ConfigInit PROVE StoreInv
  OBVIOUS
<1>1. file.is = "absent" /\ wrote = "default" /\ saved = NoKey /\ stage = "down" BY DEF ConfigInit, Absent
<1>2. DOMAIN cfg = Fields BY DEF ConfigInit, DefaultServerConfig
<1> QED BY <1>1, <1>2 DEF StoreInv, FileHasSetting, FileHasSaved, LoadedIsWritten

(* The user's edits change the file while nothing is loaded.               *)
LEMMA EditKeepsInv == ASSUME StoreInv, UserEdits PROVE StoreInv'
<1>1. PICK choice \in Settings :
        /\ wrote' = choice
        /\ \/ /\ file.is = "json"
              /\ file' = JSON([f \in DOMAIN file.has \cup {"setting"} |->
                                  IF f = "setting" THEN choice ELSE file.has[f]])
              /\ saved' = saved
           \/ file' \in {Plain(choice), Documented(choice)} /\ saved' = NoKey
  BY DEF UserEdits
<1>2. LoadedIsWritten' BY DEF UserEdits, StoreInv, LoadedIsWritten
<1>3. CASE file' \in {Plain(choice), Documented(choice)} /\ saved' = NoKey
  <2>1. file'.is = "json" /\ "setting" \in DOMAIN file'.has /\ file'.has["setting"] = choice
    BY <1>3 DEF Plain, Documented, JSON
  <2> QED BY <1>1, <1>2, <1>3, <2>1 DEF StoreInv, FileHasSetting, FileHasSaved
<1>4. CASE /\ file.is = "json" /\ saved' = saved
           /\ file' = JSON([f \in DOMAIN file.has \cup {"setting"} |->
                               IF f = "setting" THEN choice ELSE file.has[f]])
  <2>1. /\ file'.is = "json"
        /\ DOMAIN file'.has = DOMAIN file.has \cup {"setting"}
        /\ file'.has["setting"] = choice
        /\ "secret_key" \in DOMAIN file.has => file'.has["secret_key"] = file.has["secret_key"]
    BY <1>4 DEF JSON
  <2> QED BY <1>1, <1>2, <1>4, <2>1 DEF StoreInv, FileHasSetting, FileHasSaved
<1> QED BY <1>1, <1>3, <1>4

(* Loading takes the file's setting and key, or refuses the file.          *)
LEMMA LoadKeepsInv == ASSUME StoreInv, LoadServerConfig PROVE StoreInv'
<1>1. (FileHasSetting /\ FileHasSaved)'
  BY DEF LoadServerConfig, disk, StoreInv, FileHasSetting, FileHasSaved
<1>2. stage = "load" /\ wrote' = wrote /\ saved' = saved BY DEF LoadServerConfig, disk
<1>3. CASE file.is = "absent" /\ cfg' = DefaultServerConfig /\ stage' = "keygen"
  <2>1. saved = NoKey /\ wrote = "default" BY <1>3 DEF StoreInv, FileHasSetting, FileHasSaved
  <2>2. cfg'["setting"] = "default" /\ DOMAIN cfg' = Fields
    BY <1>3 DEF DefaultServerConfig, Fields
  <2> QED BY <1>1, <1>2, <1>3, <2>1, <2>2 DEF StoreInv, LoadedIsWritten
<1>4. CASE /\ Parses /\ stage' = "keygen"
           /\ cfg' = [f \in Fields |-> IF f \in DOMAIN file.has THEN file.has[f] ELSE DefaultServerConfig[f]]
  <2>1. DOMAIN cfg' = Fields BY <1>4
  <2>2. cfg'["setting"] = wrote
    BY <1>4 DEF Parses, Fields, StoreInv, FileHasSetting
  <2>3. saved # NoKey => cfg'["secret_key"] = saved
    BY <1>4 DEF Fields, StoreInv, FileHasSaved
  <2> QED BY <1>1, <1>2, <1>4, <2>1, <2>2, <2>3 DEF StoreInv, LoadedIsWritten
<1>5. CASE stage' = "refused" /\ cfg' = cfg
  BY <1>1, <1>2, <1>5 DEF StoreInv, LoadedIsWritten
<1> QED BY <1>3, <1>4, <1>5 DEF LoadServerConfig

(* A key is generated only when none was saved.                            *)
LEMMA GenerateKeepsInv == ASSUME StoreInv, GenerateKey PROVE StoreInv'
<1>1. (FileHasSetting /\ FileHasSaved)'
  BY DEF GenerateKey, disk, StoreInv, FileHasSetting, FileHasSaved
<1>2. stage = "keygen" /\ wrote' = wrote /\ saved' = saved BY DEF GenerateKey, disk
<1>3. CASE cfg["secret_key"] # NoKey /\ stage' = "serve" /\ cfg' = cfg
  BY <1>1, <1>2, <1>3 DEF StoreInv, LoadedIsWritten
<1>4. CASE cfg["secret_key"] = NoKey /\ stage' = "save" /\ \E k \in Keys : cfg' = [cfg EXCEPT !["secret_key"] = k]
  <2>1. saved = NoKey BY <1>2, <1>4 DEF StoreInv, LoadedIsWritten
  <2>2. cfg'["setting"] = cfg["setting"] /\ DOMAIN cfg' = Fields
    BY <1>4 DEF StoreInv, LoadedIsWritten, Fields
  <2> QED BY <1>1, <1>2, <1>4, <2>1, <2>2 DEF StoreInv, LoadedIsWritten
<1> QED BY <1>3, <1>4 DEF GenerateKey

(* A save that is cut short leaves a file that no start takes for one.     *)
LEMMA SaveKeepsInv == ASSUME StoreInv, SaveOpens \/ SaveWrites PROVE StoreInv'
<1>1. CASE SaveOpens
  BY <1>1 DEF SaveOpens, Torn, StoreInv, FileHasSetting, FileHasSaved, LoadedIsWritten
<1>2. CASE SaveWrites
  <2>1. stage = "write" /\ stage' = "serve" /\ wrote' = wrote /\ cfg' = cfg BY <1>2 DEF SaveWrites
  <2>2. CASE file' = JSON(cfg) /\ saved' = cfg["secret_key"]
    <3>1. file'.is = "json" /\ file'.has = cfg BY <2>2 DEF JSON
    <3> QED BY <2>1, <2>2, <3>1 DEF Fields, StoreInv, FileHasSetting, FileHasSaved, LoadedIsWritten
  <2>3. CASE file' = file /\ saved' = saved
    BY <2>1, <2>3 DEF StoreInv, FileHasSetting, FileHasSaved, LoadedIsWritten
  <2> QED BY <1>2, <2>2, <2>3 DEF SaveWrites
<1> QED BY <1>1, <1>2

(* Every step keeps the invariant.                                         *)
LEMMA NextInv == StoreInv /\ [ConfigNext]_configVars => StoreInv'
<1> SUFFICES ASSUME StoreInv, [ConfigNext]_configVars PROVE StoreInv'
  OBVIOUS
<1>1. CASE Start \/ UNCHANGED configVars
  BY <1>1 DEF Start, configVars, disk, StoreInv, FileHasSetting, FileHasSaved, LoadedIsWritten
<1>2. CASE Stop
  <2>1. DOMAIN cfg' = Fields BY <1>2 DEF Stop, DefaultServerConfig
  <2> QED BY <1>2, <2>1 DEF Stop, disk, StoreInv, FileHasSetting, FileHasSaved, LoadedIsWritten
<1> QED BY <1>1, <1>2, EditKeepsInv, LoadKeepsInv, GenerateKeepsInv, SaveKeepsInv DEF ConfigNext

(* The inductive invariant holds throughout.                               *)
THEOREM StoreInvariant == ConfigSpec => []StoreInv
BY InitInv, NextInv, PTL DEF ConfigSpec
-----------------------------------------------------------------------------
(* Wherever a start or the write of server.json is cut short, a server     *)
(* that serves has the user's setting and the key that was saved (config.go *)
(* LoadServerConfig, SaveServerConfig; main.go: main).                     *)
THEOREM ServesSaved == ConfigSpec => []ServesWhatWasSaved
<1>1. StoreInv => ServesWhatWasSaved
  BY DEF StoreInv, FileHasSaved, LoadedIsWritten, ServesWhatWasSaved
<1> QED BY <1>1, StoreInvariant, PTL
-----------------------------------------------------------------------------
Labels == {"idle", "open", "nat", "listen", "check", "spawn", "announce",
           "cancel", "closeConn", "useConn", "teardown", "closeTun", "stopped"}

VpnTypeOK == /\ nat \in Nat /\ calls \in Nat
             /\ pc \in [Threads -> Labels] /\ call \in [Threads -> Nat]

(* What is open between two calls, and at the start of one.                *)
AtRest == IF running THEN tun # Nil /\ tuns = {tun} /\ udpConn # Nil /\ socks = {udpConn}
          ELSE tuns = {} /\ socks = {}

(* Half open: the device is, the socket is not yet.                        *)
HasDevice == ~running /\ tun # Nil /\ tuns = {tun}
HasBoth   == HasDevice /\ udpConn # Nil /\ socks = {udpConn}

(* While stops are in progress, one or several, what is open goes down to  *)
(* nothing, which is what Running says once one of them has ended.         *)
Closing == /\ IF tun = Nil THEN tuns = {} ELSE tuns \subseteq {tun}
           /\ IF udpConn = Nil THEN socks = {} ELSE socks \subseteq {udpConn}
           /\ ~running => tuns = {} /\ socks = {}

(* What is open when a call is at a label.  Only main starts while the VPN *)
(* runs, and its start fails then.                                         *)
StageFits(t) ==
    /\ pc[t] = "open"   => AtRest /\ (running => t = Main)
    /\ pc[t] = "nat"    => HasDevice /\ socks = {}
    /\ pc[t] = "listen" => HasDevice /\ socks = {}
    /\ pc[t] = "check"  => IF err THEN HasDevice /\ socks = {} ELSE HasBoth
    /\ pc[t] \in {"spawn", "announce"} => HasBoth
    /\ pc[t] \in Stopping  => Closing
    /\ pc[t] = "useConn"   => udpConn # Nil
    /\ pc[t] \in {"teardown", "closeTun", "stopped"} => socks = {}
    /\ pc[t] = "closeTun"  => tun # Nil
    /\ pc[t] = "stopped"   => tuns = {}

OneStart == ~overlapped => \A t, u \in Busy : t = u \/ {pc[t], pc[u]} \subseteq Stopping

VpnInv == /\ VpnTypeOK /\ OneStart
          /\ ~overlapped => ~panicked
          /\ alive /\ ~overlapped => (Busy = {} => AtRest) /\ \A t \in Threads : StageFits(t)

(* The process starts within its invariant.                                *)
LEMMA VpnStarts == VpnInit => VpnInv
BY DEF VpnInit, VpnInv, VpnTypeOK, OneStart, Busy, AtRest, StageFits, Labels, Stopping

(* What is open at rest can be closed.                                     *)
LEMMA RestCloses == AtRest => Closing
BY DEF AtRest, Closing

(* A call begins: beside another one nothing is claimed any more, unless   *)
(* both are stops.                                                         *)
LEMMA BeginKeeps ==
    ASSUME VpnInv, NEW t \in Threads, NEW label \in {"open", "cancel"}, Begin(t, label),
           label = "open" => t = Main \/ ~running
    PROVE  VpnInv'
<1>1. /\ alive /\ pc[t] = "idle" /\ pc' = [pc EXCEPT ![t] = label]
      /\ calls' = calls + 1 /\ call' = [call EXCEPT ![t] = calls + 1]
      /\ overlapped' = (overlapped \/ \E u \in Busy : ~({label, pc[u]} \subseteq Stopping))
      /\ UNCHANGED <<running, tun, udpConn, err, tuns, socks, nat, alive, panicked>>
  BY DEF Begin, At, Goto, shared, os
<1>2. VpnTypeOK'
  BY <1>1 DEF VpnInv, VpnTypeOK, Labels
<1>3. ~overlapped' => ~overlapped /\ \A u \in Busy : label \in Stopping /\ pc[u] \in Stopping
  BY <1>1, Zenon
<1>4. pc \in [Threads -> Labels] /\ pc'[t] = label /\ \A u \in Threads : u # t => pc'[u] = pc[u]
  BY <1>1 DEF VpnInv, VpnTypeOK
<1>5. Busy' = Busy \cup {t}
  BY <1>4 DEF Busy
<1>6. OneStart'
  <2> SUFFICES ASSUME ~overlapped', NEW u \in Busy', NEW v \in Busy', u # v
               PROVE  pc'[u] \in Stopping /\ pc'[v] \in Stopping
    BY DEF OneStart, Stopping
  <2>1. CASE u = t
    BY <1>3, <1>4, <1>5, <2>1 DEF Busy
  <2>2. CASE v = t
    BY <1>3, <1>4, <1>5, <2>2 DEF Busy
  <2>3. CASE u # t /\ v # t
    BY <1>3, <1>4, <1>5, <2>3 DEF Busy
  <2> QED BY <2>1, <2>2, <2>3
<1>7. ~overlapped' => ~panicked'
  BY <1>1, <1>3 DEF VpnInv
<1>8. ASSUME ~overlapped' PROVE (Busy' = {} => AtRest') /\ \A u \in Threads : StageFits(u)'
  <2>1. \A u \in Threads : StageFits(u)
    BY <1>1, <1>3, <1>8 DEF VpnInv
  <2>2. \A u \in Threads : u # t => StageFits(u)'
    BY <1>1, <1>4, <2>1 DEF StageFits, AtRest, HasDevice, HasBoth, Closing
  <2>3. CASE Busy = {}
    <3>1. AtRest /\ Closing
      BY <1>1, <1>3, <1>8, <2>3, RestCloses DEF VpnInv
    <3>2. AtRest' /\ Closing'
      BY <3>1, <1>1 DEF AtRest, Closing
    <3>3. StageFits(t)'
      BY <3>2, <1>1, <1>4 DEF StageFits
    <3> QED BY <1>5, <2>2, <3>3
  <2>4. CASE Busy # {}
    <3>1. PICK u \in Busy : label \in Stopping /\ pc[u] \in Stopping
      BY <1>3, <1>8, <2>4
    <3>2. Closing
      BY <2>1, <3>1 DEF StageFits, Busy
    <3>3. Closing'
      BY <3>2, <1>1 DEF Closing
    <3>4. label = "cancel"
      BY <3>1 DEF Stopping
    <3>5. StageFits(t)'
      BY <3>3, <3>4, <1>4 DEF StageFits
    <3> QED BY <1>5, <2>2, <3>5
  <2> QED BY <2>3, <2>4
<1> QED BY <1>2, <1>6, <1>7, <1>8 DEF VpnInv

(* When a call is alone, its own stage is all there is to show.            *)
LEMMA AloneKeeps ==
    ASSUME VpnInv, NEW t \in Threads, pc[t] \notin Stopping \cup {"idle"}, NEW label \in Labels,
           pc' = [pc EXCEPT ![t] = label], label \notin Stopping, nat' \in Nat,
           UNCHANGED <<calls, call, overlapped>>,
           ~overlapped => ~panicked',
           ~overlapped /\ alive' => IF label = "idle" THEN AtRest' ELSE StageFits(t)'
    PROVE  VpnInv'
<1>1. pc \in [Threads -> Labels] /\ pc'[t] = label /\ \A u \in Threads : u # t => pc'[u] = pc[u]
  BY DEF VpnInv, VpnTypeOK
<1>2. VpnTypeOK'
  BY <1>1 DEF VpnInv, VpnTypeOK
<1>3. ~overlapped => \A u \in Threads : u # t => pc[u] = "idle"
  BY DEF VpnInv, OneStart, Busy
<1>4. OneStart'
  BY <1>1, <1>3 DEF OneStart, Busy
<1>5. ~overlapped => \A u \in Threads : u # t => StageFits(u)'
  BY <1>1, <1>3 DEF StageFits, Stopping
<1>6. label = "idle" => StageFits(t)'
  BY <1>1 DEF StageFits, Stopping
<1>7. label # "idle" => Busy' # {}
  BY <1>1 DEF Busy
<1> QED BY <1>2, <1>4, <1>5, <1>6, <1>7 DEF VpnInv

(* What a step of a call may use, when it is alone.                        *)
LEMMA AloneHas ==
    ASSUME VpnInv, NEW t \in Threads, alive
    PROVE  /\ ~overlapped => StageFits(t) /\ ~panicked
           /\ nat \in Nat /\ call[t] \in Nat /\ call[t] # Nil
BY LifecycleAssumption DEF LifecycleAssumption, VpnInv, VpnTypeOK

(* A step of startVPN keeps the invariant, whether it succeeds or fails    *)
(* (main.go: startVPN).                                                    *)
LEMMA StartKeeps ==
    ASSUME VpnInv, NEW t \in Threads,
           OpenTun(t) \/ SetupNAT(t) \/ ListenUDP(t) \/ CheckListen(t) \/ Spawn(t) \/ Announce(t)
    PROVE  VpnInv'
<1> USE DEF At, Goto, Return, Panics, shared, os, made, AtRest, HasDevice, HasBoth, Labels, Stopping
<1>1. CASE OpenTun(t)
  <2>1. /\ alive /\ pc[t] = "open" /\ UNCHANGED <<running, udpConn, err, socks, nat, calls, call, overlapped, panicked>>
    BY <1>1 DEF OpenTun
  <2>2. CASE tuns = {} /\ tun' = call[t] /\ tuns' = tuns \cup {call[t]} /\ pc' = [pc EXCEPT ![t] = "nat"]
    <3>1. ~overlapped => StageFits(t)'
      BY <2>1, <2>2, AloneHas DEF VpnInv, VpnTypeOK, StageFits
    <3> QED BY <2>1, <2>2, <3>1, AloneHas, AloneKeeps
  <2>3. CASE tun' = Nil /\ tuns' = tuns /\ pc' = [pc EXCEPT ![t] = "idle"] /\ alive' = ~(t = Main)
    <3>1. ~overlapped /\ alive' => AtRest'
      BY <2>1, <2>3, AloneHas DEF StageFits
    <3> QED BY <2>1, <2>3, <3>1, AloneHas, AloneKeeps
  <2> QED BY <1>1, <2>2, <2>3, Zenon DEF OpenTun
<1>2. CASE SetupNAT(t)
  <2>1. /\ alive /\ pc[t] = "nat"
        /\ UNCHANGED <<running, tun, udpConn, err, tuns, socks, calls, call, overlapped>>
    BY <1>2 DEF SetupNAT
  <2>2. CASE tun = Nil /\ pc' = [pc EXCEPT ![t] = "idle"] /\ nat' = nat
    <3>1. overlapped
      BY <2>1, <2>2, AloneHas DEF StageFits
    <3> QED BY <2>1, <2>2, <3>1, AloneHas, AloneKeeps
  <2>3. CASE tun # Nil /\ nat' \in {nat, nat + 1} /\ pc' = [pc EXCEPT ![t] = "listen"] /\ panicked' = panicked
    <3>1. ~overlapped => StageFits(t)' /\ ~panicked'
      BY <2>1, <2>3, AloneHas DEF VpnInv, VpnTypeOK, StageFits
    <3>2. nat' \in Nat /\ pc[t] # "idle" /\ "listen" \in Labels /\ "listen" # "idle"
      BY <2>1, <2>3, AloneHas
    <3> QED BY <2>1, <2>3, <3>1, <3>2, AloneKeeps
  <2> QED BY <1>2, <2>2, <2>3 DEF SetupNAT
<1>3. CASE ListenUDP(t)
  <2>1. /\ alive /\ pc[t] = "listen" /\ pc' = [pc EXCEPT ![t] = "check"]
        /\ UNCHANGED <<running, tun, tuns, nat, calls, call, overlapped, panicked>>
    BY <1>3 DEF ListenUDP
  <2>2. \/ socks = {} /\ udpConn' = call[t] /\ ~err' /\ socks' = {call[t]}
        \/ err' /\ socks' = socks
    BY <1>3 DEF ListenUDP
  <2>3. ~overlapped => StageFits(t)'
    BY <2>1, <2>2, AloneHas DEF VpnInv, VpnTypeOK, StageFits
  <2> QED BY <2>1, <2>3, AloneHas, AloneKeeps
<1>4. CASE CheckListen(t)
  <2>1. /\ alive /\ pc[t] = "check"
        /\ UNCHANGED <<running, tun, udpConn, err, socks, nat, calls, call, overlapped>>
    BY <1>4 DEF CheckListen
  <2>2. CASE err /\ tun = Nil /\ pc' = [pc EXCEPT ![t] = "idle"]
    <3>1. overlapped
      BY <2>1, <2>2, AloneHas DEF StageFits
    <3> QED BY <2>1, <2>2, <3>1, AloneHas, AloneKeeps
  <2>3. CASE err /\ tuns' = tuns \ {tun} /\ pc' = [pc EXCEPT ![t] = "idle"] /\ panicked' = panicked
    <3>1. ~overlapped => AtRest'
      BY <2>1, <2>3, AloneHas DEF StageFits
    <3> QED BY <2>1, <2>3, <3>1, AloneHas, AloneKeeps
  <2>4. CASE ~err /\ pc' = [pc EXCEPT ![t] = "spawn"] /\ tuns' = tuns /\ panicked' = panicked
    <3>1. ~overlapped => StageFits(t)'
      BY <2>1, <2>4, AloneHas DEF VpnInv, VpnTypeOK, StageFits
    <3> QED BY <2>1, <2>4, <3>1, AloneHas, AloneKeeps
  <2> QED BY <1>4, <2>2, <2>3, <2>4 DEF CheckListen
<1>5. CASE Spawn(t)
  <2>1. /\ alive /\ pc[t] = "spawn" /\ pc' = [pc EXCEPT ![t] = "announce"]
        /\ UNCHANGED <<running, tun, udpConn, err, tuns, socks, nat, calls, call, overlapped>>
        /\ (udpConn = Nil \/ tun = Nil) \/ panicked' = panicked
    BY <1>5 DEF Spawn
  <2>2. ~overlapped => StageFits(t)' /\ ~panicked'
    BY <2>1, AloneHas DEF VpnInv, VpnTypeOK, StageFits
  <2> QED BY <2>1, <2>2, AloneHas, AloneKeeps
<1>6. CASE Announce(t)
  <2>1. /\ alive /\ pc[t] = "announce" /\ pc' = [pc EXCEPT ![t] = "idle"] /\ running'
        /\ UNCHANGED <<tun, udpConn, err, tuns, socks, nat, calls, call, overlapped, panicked>>
    BY <1>6 DEF Announce
  <2>2. ~overlapped => AtRest'
    BY <2>1, AloneHas DEF StageFits
  <2> QED BY <2>1, <2>2, AloneHas, AloneKeeps
<1> QED BY <1>1, <1>2, <1>3, <1>4, <1>5, <1>6

(* A step of a stop, beside which other stops may be in progress: what is  *)
(* open only becomes less, and Running FALSE only when nothing is.         *)
LEMMA StopStepKeeps ==
    ASSUME VpnInv, NEW t \in Threads, alive, pc[t] \in Stopping, NEW label \in Labels,
           pc' = [pc EXCEPT ![t] = label], label \in Stopping \cup {"idle"}, nat' \in Nat,
           UNCHANGED <<calls, call, overlapped, tun, udpConn>>,
           ~overlapped => /\ ~panicked'
                          /\ tuns' \subseteq tuns /\ socks' \subseteq socks /\ running' \in {running, FALSE}
                          /\ running' # running => tuns' = {} /\ socks' = {}
                          /\ IF label = "idle" THEN AtRest' ELSE StageFits(t)'
    PROVE  VpnInv'
<1>1. pc \in [Threads -> Labels] /\ pc'[t] = label /\ \A u \in Threads : u # t => pc'[u] = pc[u]
  BY DEF VpnInv, VpnTypeOK
<1>2. VpnTypeOK'
  BY <1>1 DEF VpnInv, VpnTypeOK
<1>3. ~overlapped => \A u \in Threads : u # t => pc[u] \in Stopping \cup {"idle"}
  BY DEF VpnInv, OneStart, Busy, Stopping
<1>4. OneStart'
  BY <1>1, <1>3 DEF OneStart, Busy, Stopping
<1>5. ~overlapped => \A u \in Threads : u # t => StageFits(u)'
  <2> SUFFICES ASSUME ~overlapped, NEW u \in Threads, u # t PROVE StageFits(u)'
    OBVIOUS
  <2>1. StageFits(u) /\ pc'[u] = pc[u] /\ pc[u] \in Stopping \cup {"idle"}
    BY <1>1, <1>3 DEF VpnInv
  <2>2. pc[u] \in Stopping => Closing'
    BY <2>1 DEF StageFits, Closing
  <2> QED BY <2>1, <2>2 DEF StageFits, Stopping
<1>6. label = "idle" => StageFits(t)'
  BY <1>1 DEF StageFits, Stopping
<1>7. label # "idle" => Busy' # {}
  BY <1>1 DEF Busy
<1> QED BY <1>2, <1>4, <1>5, <1>6, <1>7 DEF VpnInv

(* A step of stopVPN keeps the invariant (main.go: stopVPN).               *)
LEMMA StopKeeps ==
    ASSUME VpnInv, NEW t \in Threads,
           Cancel(t) \/ TestConn(t) \/ CloseConn(t) \/ TeardownNAT(t) \/ CloseTun(t) \/ Stopped(t)
    PROVE  VpnInv'
<1> USE DEF At, Goto, Panics, shared, os, made, Labels, Stopping
<1>0. alive => /\ ~overlapped => StageFits(t) /\ ~panicked
               /\ nat \in Nat
  BY AloneHas
<1>1. CASE Cancel(t)
  <2>1. /\ alive /\ pc[t] = "cancel" /\ pc' = [pc EXCEPT ![t] = "closeConn"]
        /\ UNCHANGED <<running, tun, udpConn, tuns, socks, nat, calls, call, overlapped, panicked>>
    BY <1>1 DEF Cancel
  <2>2. ~overlapped => StageFits(t)'
    BY <1>0, <2>1 DEF VpnInv, VpnTypeOK, StageFits, Closing
  <2> QED BY <1>0, <2>1, <2>2, StopStepKeeps
<1>2. CASE TestConn(t)
  <2>1. /\ alive /\ pc[t] = "closeConn"
        /\ pc' = [pc EXCEPT ![t] = IF udpConn = Nil THEN "teardown" ELSE "useConn"]
        /\ UNCHANGED <<running, tun, udpConn, tuns, socks, nat, calls, call, overlapped, panicked>>
    BY <1>2 DEF TestConn
  <2>2. ~overlapped => StageFits(t)'
    BY <1>0, <2>1 DEF VpnInv, VpnTypeOK, StageFits, Closing
  <2>3. CASE udpConn = Nil
    BY <1>0, <2>1, <2>2, <2>3, StopStepKeeps
  <2>4. CASE udpConn # Nil
    BY <1>0, <2>1, <2>2, <2>4, StopStepKeeps
  <2> QED BY <2>3, <2>4
<1>3. CASE CloseConn(t)
  <2>1. /\ alive /\ pc[t] = "useConn"
        /\ UNCHANGED <<running, tun, udpConn, tuns, nat, calls, call, overlapped>>
    BY <1>3 DEF CloseConn
  <2>2. CASE udpConn = Nil /\ pc' = [pc EXCEPT ![t] = "idle"] /\ socks' = socks
    <3>1. overlapped
      BY <1>0, <2>1, <2>2 DEF StageFits
    <3> QED BY <1>0, <2>1, <2>2, <3>1, StopStepKeeps
  <2>3. CASE udpConn # Nil /\ socks' = socks \ {udpConn} /\ pc' = [pc EXCEPT ![t] = "teardown"] /\ panicked' = panicked
    <3>1. ~overlapped => StageFits(t)'
      BY <1>0, <2>1, <2>3 DEF VpnInv, VpnTypeOK, StageFits, Closing
    <3> QED BY <1>0, <2>1, <2>3, <3>1, StopStepKeeps
  <2> QED BY <1>3, <2>2, <2>3 DEF CloseConn
<1>4. CASE TeardownNAT(t)
  <2>1. /\ alive /\ pc[t] = "teardown"
        /\ UNCHANGED <<running, tun, udpConn, tuns, socks, calls, call, overlapped, panicked>>
    BY <1>4 DEF TeardownNAT
  <2>2. CASE tun = Nil /\ pc' = [pc EXCEPT ![t] = "stopped"] /\ nat' = nat
    <3>1. ~overlapped => StageFits(t)'
      BY <1>0, <2>1, <2>2 DEF VpnInv, VpnTypeOK, StageFits, Closing
    <3> QED BY <1>0, <2>1, <2>2, <3>1, StopStepKeeps
  <2>3. CASE /\ tun # Nil /\ pc' = [pc EXCEPT ![t] = "closeTun"]
             /\ nat' \in {nat} \cup {n \in {nat - 1} : nat > 0}
    <3>1. ~overlapped => StageFits(t)'
      BY <1>0, <2>1, <2>3 DEF VpnInv, VpnTypeOK, StageFits, Closing
    <3>2. nat' \in Nat
      BY <1>0, <2>1, <2>3
    <3> QED BY <1>0, <2>1, <2>3, <3>1, <3>2, StopStepKeeps
  <2> QED BY <1>4, <2>2, <2>3 DEF TeardownNAT
<1>5. CASE CloseTun(t)
  <2>1. /\ alive /\ pc[t] = "closeTun"
        /\ UNCHANGED <<running, tun, udpConn, socks, nat, calls, call, overlapped>>
    BY <1>5 DEF CloseTun
  <2>2. CASE tun = Nil /\ pc' = [pc EXCEPT ![t] = "idle"] /\ tuns' = tuns
    <3>1. overlapped
      BY <1>0, <2>1, <2>2 DEF StageFits
    <3> QED BY <1>0, <2>1, <2>2, <3>1, StopStepKeeps
  <2>3. CASE tun # Nil /\ tuns' = tuns \ {tun} /\ pc' = [pc EXCEPT ![t] = "stopped"] /\ panicked' = panicked
    <3>1. ~overlapped => StageFits(t)'
      BY <1>0, <2>1, <2>3 DEF VpnInv, VpnTypeOK, StageFits, Closing
    <3> QED BY <1>0, <2>1, <2>3, <3>1, StopStepKeeps
  <2> QED BY <1>5, <2>2, <2>3 DEF CloseTun
<1>6. CASE Stopped(t)
  <2>1. /\ alive /\ pc[t] = "stopped" /\ pc' = [pc EXCEPT ![t] = "idle"] /\ running' = FALSE
        /\ UNCHANGED <<tun, udpConn, tuns, socks, nat, calls, call, overlapped, panicked>>
    BY <1>6 DEF Stopped
  <2>2. ~overlapped => tuns' = {} /\ socks' = {} /\ AtRest'
    BY <1>0, <2>1 DEF StageFits, AtRest
  <2> QED BY <1>0, <2>1, <2>2, StopStepKeeps
<1> QED BY <1>1, <1>2, <1>3, <1>4, <1>5, <1>6

(* Where each call is tells what is open, in every state in which calls    *)
(* did not overlap.                                                        *)
THEOREM VpnInvariant == VpnSpec => []VpnInv
<1>1. VpnInv /\ [VpnNext]_vpnVars => VpnInv'
  <2> SUFFICES ASSUME VpnInv, [VpnNext]_vpnVars PROVE VpnInv'
    OBVIOUS
  <2>1. CASE MainStarts
    BY <2>1, BeginKeeps DEF MainStarts, Threads
  <2>2. ASSUME NEW w \in Workers, HandleStart(w) PROVE VpnInv'
    BY <2>2, BeginKeeps DEF HandleStart, Threads
  <2>3. ASSUME NEW t \in Threads, HandleStop(t) PROVE VpnInv'
    BY <2>3, BeginKeeps DEF HandleStop
  <2>4. ASSUME NEW t \in Threads, Step(t) PROVE VpnInv'
    BY <2>4, StartKeeps, StopKeeps DEF Step
  <2>5. CASE UNCHANGED goroutines
    <3>1. AtRest' = AtRest /\ HasDevice' = HasDevice /\ HasBoth' = HasBoth /\ Closing' = Closing
      BY <2>5 DEF goroutines, shared, os, AtRest, HasDevice, HasBoth, Closing
    <3>2. \A t \in Threads : StageFits(t)' = StageFits(t)
      BY <2>5, <3>1 DEF goroutines, shared, os, StageFits
    <3>3. OneStart' = OneStart /\ Busy' = Busy /\ VpnTypeOK' = VpnTypeOK
      BY <2>5 DEF goroutines, made, os, OneStart, Busy, VpnTypeOK
    <3> HIDE DEF AtRest, HasDevice, HasBoth, Closing, StageFits, OneStart, Busy, VpnTypeOK
    <3> QED BY <2>5, <3>1, <3>2, <3>3 DEF goroutines, made, VpnInv
  <2>6. ASSUME NEW l, LoopEnds(l) \/ ReadBegins(l) \/ ReadReturns(l) \/ ReaderEnds(l) PROVE VpnInv'
    BY <2>5, <2>6 DEF LoopEnds, ReadBegins, ReadReturns, ReaderEnds
  <2>7. CASE UNCHANGED vpnVars
    BY <2>5, <2>7 DEF vpnVars, goroutines
  <2> QED BY <2>1, <2>2, <2>3, <2>4, <2>6, <2>7 DEF VpnNext
<1> QED BY <1>1, VpnStarts, PTL DEF VpnSpec

(* RunningMatchesResources: after any number of calls, failures included,  *)
(* in which no start had another call beside it, Running says what is      *)
(* open, and no nil pointer was dereferenced (main.go: startVPN, stopVPN). *)
THEOREM RunningTellsOpen == VpnSpec => []RunningMatchesResources
<1>1. VpnInv => RunningMatchesResources
  BY DEF VpnInv, RunningMatchesResources, Quiet, handleStatus, AtRest
<1> QED BY <1>1, VpnInvariant, PTL

(* Devices have the number of the call that opened them, and reads those   *)
(* of devices.                                                             *)
NumbersInv == /\ calls \in 0..MaxCalls
              /\ call \in [Threads -> 0..calls] /\ pc \in [Threads -> Labels]
              /\ \A t \in Threads : pc[t] # "idle" => call[t] # 0
              /\ tuns \subseteq 1..MaxCalls /\ Kept \subseteq 1..MaxCalls

LEMMA ReadsKeep == ASSUME NEW l, ReadReturns(l) PROVE Kept' \in {Kept, Kept \ {l.tun}} /\ l.tun \in Kept
BY DEF ReadReturns, Kept

LEMMA NumbersHold == VpnSpec => []NumbersInv
<1>1. VpnInit => NumbersInv
  BY LifecycleAssumption DEF LifecycleAssumption, VpnInit, NumbersInv, Kept, Labels
<1>2. NumbersInv /\ [VpnNext]_vpnVars => NumbersInv'
  <2> SUFFICES ASSUME NumbersInv, [VpnNext]_vpnVars PROVE NumbersInv'
    OBVIOUS
  <2>1. MaxCalls \in Nat /\ calls \in Nat /\ calls <= MaxCalls
    BY LifecycleAssumption DEF LifecycleAssumption, NumbersInv
  <2>2. ASSUME NEW t \in Threads, NEW label \in {"open", "cancel"}, Begin(t, label) PROVE NumbersInv'
    <3>1. /\ calls < MaxCalls /\ calls' = calls + 1 /\ call' = [call EXCEPT ![t] = calls + 1]
          /\ pc' = [pc EXCEPT ![t] = label] /\ tuns' = tuns /\ reading' = reading
      BY <2>2 DEF Begin, Goto, os, spawned
    <3>2. call' \in [Threads -> 0..calls'] /\ calls' \in 0..MaxCalls
      BY <2>1, <3>1 DEF NumbersInv
    <3>3. pc' \in [Threads -> Labels] /\ \A u \in Threads : pc'[u] # "idle" => call'[u] # 0
      BY <2>1, <3>1 DEF NumbersInv, Labels
    <3> QED BY <3>1, <3>2, <3>3 DEF NumbersInv, Kept
  <2>3. ASSUME NEW t \in Threads, Step(t) PROVE NumbersInv'
    <3>1. calls' = calls /\ call' = call /\ reading' = reading /\ pc[t] # "idle"
      BY <2>3 DEF Step, OpenTun, SetupNAT, ListenUDP, CheckListen, Spawn, Announce, Cancel, TestConn, CloseConn,
                  TeardownNAT, CloseTun, Stopped, At, made, spawned
    <3>2. PICK label \in Labels : pc' = [pc EXCEPT ![t] = label]
      BY <2>3 DEF Step, OpenTun, SetupNAT, ListenUDP, CheckListen, Spawn, Announce, Cancel, TestConn, CloseConn,
                  TeardownNAT, CloseTun, Stopped, Goto, Return, Panics, Labels
    <3>3. tuns' \subseteq tuns \cup {call[t]}
      BY <2>3 DEF Step, OpenTun, SetupNAT, ListenUDP, CheckListen, Spawn, Announce, Cancel, TestConn, CloseConn,
                  TeardownNAT, CloseTun, Stopped, os, shared
    <3>4. call[t] \in 1..MaxCalls
      BY <2>1, <3>1 DEF NumbersInv
    <3> QED BY <3>1, <3>2, <3>3, <3>4 DEF NumbersInv, Kept
  <2>4. ASSUME NEW l, LoopEnds(l) \/ ReaderEnds(l) PROVE NumbersInv'
    BY <2>4 DEF LoopEnds, ReaderEnds, goroutines, os, made, NumbersInv, Kept
  <2>5. ASSUME NEW l, ReadBegins(l) PROVE NumbersInv'
    <3>1. Kept' = Kept \cup {l.tun} /\ l.tun \in tuns
      BY <2>5 DEF ReadBegins, Kept
    <3> QED BY <2>5, <3>1 DEF ReadBegins, goroutines, os, made, NumbersInv
  <2>6. ASSUME NEW l, ReadReturns(l) PROVE NumbersInv'
    BY <2>6, ReadsKeep DEF ReadReturns, goroutines, os, made, NumbersInv
  <2>7. CASE UNCHANGED vpnVars
    BY <2>7 DEF vpnVars, spawned, os, made, NumbersInv, Kept
  <2> QED BY <2>2, <2>3, <2>4, <2>5, <2>6, <2>7 DEF VpnNext, MainStarts, HandleStart, HandleStop, Threads
<1> QED BY <1>1, <1>2, PTL DEF VpnSpec

(* ServerUsesDevice: for any number of threads and calls, however they     *)
(* overlap, each step is one of the abstract device or leaves it alone     *)
(* (main.go: startVPN, stopVPN, tunReadLoop; core/tunnel: Open, Close).    *)
THEOREM DeviceIsTaken == VpnSpec => ServerUsesDevice
<1> USE DEF ServerDevice!deviceVars
<1>1. VpnInit => ServerDevice!DeviceInit
  BY DEF VpnInit, Kept, ServerDevice!DeviceInit
<1>2. NumbersInv /\ [VpnNext]_vpnVars => [ServerDevice!DeviceNext]_(ServerDevice!deviceVars)
  <2> SUFFICES ASSUME NumbersInv, [VpnNext]_vpnVars
               PROVE  [ServerDevice!DeviceNext]_(ServerDevice!deviceVars)
    OBVIOUS
  <2>1. ASSUME UNCHANGED <<tuns, alive>>, Kept' = Kept PROVE UNCHANGED ServerDevice!deviceVars
    BY <2>1
  <2>2. ASSUME NEW t \in Threads, NEW label, Begin(t, label) PROVE UNCHANGED ServerDevice!deviceVars
    BY <2>1, <2>2 DEF Begin, os, spawned, Kept
  <2>3. ASSUME NEW t \in Threads, Step(t) PROVE [ServerDevice!DeviceNext]_(ServerDevice!deviceVars)
    <3>1. Kept' = Kept /\ alive
      BY <2>3 DEF Step, OpenTun, SetupNAT, ListenUDP, CheckListen, Spawn, Announce, Cancel, TestConn, CloseConn,
                  TeardownNAT, CloseTun, Stopped, At, spawned, Kept
    <3>2. CASE ~alive'
      BY <3>2 DEF ServerDevice!DeviceNext, ServerDevice!Abandoned
    <3>3. CASE alive' /\ tuns' = tuns
      BY <2>1, <3>1, <3>3
    <3>4. CASE alive' /\ tuns = {} /\ Kept = {} /\ pc[t] = "open" /\ tuns' = tuns \cup {call[t]}
      <4>1. call[t] \in 1..MaxCalls
        BY <3>4, LifecycleAssumption DEF LifecycleAssumption, NumbersInv
      <4>2. ServerDevice!Obtain(call[t])
        BY <3>1, <3>4 DEF ServerDevice!Obtain
      <4> QED BY <4>1, <4>2 DEF ServerDevice!DeviceNext
    <3>5. CASE alive' /\ tuns' = tuns \ {tun} /\ tun \in tuns
      <4>1. tun \in 1..MaxCalls
        BY <3>5 DEF NumbersInv
      <4>2. ServerDevice!Release(tun)
        BY <3>1, <3>5 DEF ServerDevice!Release
      <4> QED BY <4>1, <4>2 DEF ServerDevice!DeviceNext
    <3>6. \/ tuns' = tuns
          \/ tuns' = tuns \ {tun}
          \/ tuns = {} /\ Kept = {} /\ pc[t] = "open" /\ tuns' = tuns \cup {call[t]}
      BY <2>3 DEF Step, OpenTun, SetupNAT, ListenUDP, CheckListen, Spawn, Announce, Cancel, TestConn, CloseConn,
                  TeardownNAT, CloseTun, Stopped, At, os
    <3>7. tun \notin tuns => tuns \ {tun} = tuns
      OBVIOUS
    <3> QED BY <3>2, <3>3, <3>4, <3>5, <3>6, <3>7
  <2>4. ASSUME NEW l, LoopEnds(l) \/ ReaderEnds(l) PROVE UNCHANGED ServerDevice!deviceVars
    BY <2>1, <2>4 DEF LoopEnds, ReaderEnds, goroutines, os, Kept
  <2>5. ASSUME NEW l, ReadBegins(l) PROVE ServerDevice!DeviceNext
    <3>1. Kept' = Kept \cup {l.tun} /\ l.tun \in tuns /\ alive /\ alive' = alive /\ tuns' = tuns
      BY <2>5 DEF ReadBegins, goroutines, os, Kept
    <3>2. ServerDevice!ReadBegins(l.tun) /\ l.tun \in 1..MaxCalls
      BY <3>1 DEF ServerDevice!ReadBegins, NumbersInv
    <3> QED BY <3>2 DEF ServerDevice!DeviceNext
  <2>6. ASSUME NEW l, ReadReturns(l) PROVE [ServerDevice!DeviceNext]_(ServerDevice!deviceVars)
    <3>1. /\ Kept' \in {Kept, Kept \ {l.tun}} /\ l.tun \in 1..MaxCalls
          /\ alive /\ alive' = alive /\ tuns' = tuns
      BY <2>6, ReadsKeep DEF ReadReturns, goroutines, os, NumbersInv
    <3>2. CASE Kept' = Kept
      BY <2>1, <3>1, <3>2
    <3>3. CASE Kept' = Kept \ {l.tun}
      BY <3>1, <3>3 DEF ServerDevice!ReadEnds, ServerDevice!DeviceNext
    <3> QED BY <3>1, <3>2, <3>3
  <2>7. CASE UNCHANGED vpnVars
    BY <2>1, <2>7 DEF vpnVars, spawned, os, Kept
  <2> QED BY <2>2, <2>3, <2>4, <2>5, <2>6, <2>7 DEF VpnNext, MainStarts, HandleStart, HandleStop, Threads
<1> QED BY <1>1, <1>2, NumbersHold, PTL DEF VpnSpec, ServerUsesDevice, ServerDevice!DeviceSpec
-----------------------------------------------------------------------------
Live(t) == t \in DOMAIN tokens /\ ~tokens[t].revoked /\ clock <= tokens[t].expiresAt

Record(r) == /\ r.issuedAt \in Nat /\ r.issuedAt <= clock /\ r.ttl \in Nat
             /\ r.expiresAt = r.issuedAt + Wrapped(r.ttl * TicksPerHour)

(* Tokens are those issued since the process came up, each with the expiry *)
(* of its issue, and one that was refused is dead.                         *)
ApiInv == /\ clock \in Nat /\ issued \in Nat
          /\ DOMAIN tokens \subseteq 1..issued /\ refused \subseteq 1..issued
          /\ \A t \in DOMAIN tokens : Record(tokens[t])
          /\ \A t \in refused : ~Live(t)
          /\ serving => up
          /\ ~up => DOMAIN tokens = {}

(* A lifetime that fits a time.Duration is computed without wrapping.      *)
LEMMA FitsUnwrapped ==
    ASSUME NEW d \in Nat, d < Durations \div 2
    PROVE  Wrapped(d) = d
<1>1. d % Durations = d
  BY ApiAssumption DEF ApiAssumption
<1> QED BY <1>1, ApiAssumption DEF ApiAssumption, Wrapped

(* Every lifetime, wrapped or not, is a time.                              *)
LEMMA WrappedInt == ASSUME NEW d \in Nat PROVE Wrapped(d) \in Int
BY ApiAssumption DEF ApiAssumption, Wrapped

(* A lifetime that is asked for, or the default, is never negative.        *)
LEMMA TTLIsNat == ASSUME NEW asked \in TTLs PROVE TTL(asked) \in Nat /\ TTL(asked) * TicksPerHour \in Nat
BY ApiAssumption DEF ApiAssumption, TTL

(* A token that is issued has a record of its own (api.go: handleInvite).  *)
LEMMA InviteKeeps ==
    ASSUME ApiInv, NEW asked \in TTLs, handleInvite(asked)
    PROVE  ApiInv'
<1> DEFINE id == issued + 1
           new == TokenRecord(id, TTL(asked))
<1>1. /\ issued' = id /\ serving /\ UNCHANGED <<clock, up, serving, refused>>
      /\ tokens' = [t \in DOMAIN tokens \cup {id} |-> IF t = id THEN new ELSE tokens[t]]
  BY DEF handleInvite, randomID
<1>2. id \in Nat /\ id \notin DOMAIN tokens /\ id \notin refused /\ 1..issued \subseteq 1..id /\ id \in 1..id
  BY DEF ApiInv
<1>3. Record(new)
  <2>1. TTL(asked) \in Nat
    BY TTLIsNat
  <2> QED BY <2>1 DEF TokenRecord, Record, ApiInv
<1> HIDE DEF new, id
<1>4. /\ DOMAIN tokens' = DOMAIN tokens \cup {id}
      /\ tokens'[id] = new
      /\ \A t \in DOMAIN tokens : tokens'[t] = tokens[t]
  BY <1>1, <1>2
<1>5. \A t \in DOMAIN tokens' : Record(tokens[t])'
  BY <1>1, <1>3, <1>4 DEF ApiInv, Record
<1>6. \A t \in refused' : ~Live(t)'
  BY <1>1, <1>2, <1>4 DEF ApiInv, Live
<1> QED BY <1>1, <1>2, <1>4, <1>5, <1>6 DEF ApiInv

(* A token that was refused is refused ever after, and one that was not    *)
(* revoked is accepted as long as was asked for (api.go: handleInvite,     *)
(* handleRevokeInvite, ValidateToken).                                     *)
THEOREM TokensAreHonoured == ApiSpec => []InvitesAreHonoured
<1>1. ApiInit => ApiInv
  BY DEF ApiInit, ApiInv
<1>2. ApiInv /\ [ApiNext]_apiVars => ApiInv'
  <2> SUFFICES ASSUME ApiInv, [ApiNext]_apiVars PROVE ApiInv'
    OBVIOUS
  <2>1. CASE ApiStarts
    BY <2>1 DEF ApiStarts, ApiInv, Record, Live
  <2>2. CASE ApiExits
    BY <2>2 DEF ApiExits, ApiInv, Record, Live
  <2>3. CASE AddLog \/ UNCHANGED apiVars
    <3>1. UNCHANGED <<clock, up, serving, tokens, issued, refused>>
      BY <2>3 DEF AddLog, apiVars
    <3> QED BY <3>1 DEF ApiInv, Record, Live
  <2>4. CASE TimePasses
    <3>1. clock' = clock + 1 /\ UNCHANGED <<up, serving, tokens, issued, refused>>
      BY <2>4 DEF TimePasses
    <3>2. ASSUME NEW t \in DOMAIN tokens PROVE tokens[t].expiresAt \in Int
      <4>1. Record(tokens[t]) /\ tokens[t].ttl * TicksPerHour \in Nat
        BY ApiAssumption DEF ApiAssumption, ApiInv, Record
      <4> QED BY <4>1, WrappedInt DEF Record
    <3> QED BY <3>1, <3>2 DEF ApiInv, Record, Live
  <2>5. ASSUME NEW asked \in TTLs, handleInvite(asked) PROVE ApiInv'
    BY <2>5, InviteKeeps
  <2>6. ASSUME NEW t \in 1..issued, handleRevokeInvite(t) PROVE ApiInv'
    <3>1. /\ t \in DOMAIN tokens /\ tokens' = [tokens EXCEPT ![t].revoked = TRUE]
          /\ UNCHANGED <<clock, up, serving, issued, refused>>
      BY <2>6 DEF handleRevokeInvite
    <3>2. /\ DOMAIN tokens' = DOMAIN tokens
          /\ \A u \in DOMAIN tokens : u # t => tokens'[u] = tokens[u]
          /\ tokens'[t] = [tokens[t] EXCEPT !.revoked = TRUE]
      BY <3>1
    <3> QED BY <3>1, <3>2 DEF ApiInv, Record, Live
  <2>7. ASSUME NEW t \in 1..issued, ValidateToken(t) PROVE ApiInv'
    BY <2>7 DEF ValidateToken, Valid, ApiInv, Record, Live
  <2> QED BY <2>1, <2>2, <2>3, <2>4, <2>5, <2>6, <2>7 DEF ApiNext
<1>3. ApiInv => InvitesAreHonoured
  <2> SUFFICES ASSUME ApiInv PROVE InvitesAreHonoured
    OBVIOUS
  <2>1. \A t \in refused : ~Valid(t)
    BY DEF ApiInv, Valid, Live
  <2>2. ASSUME NEW t \in DOMAIN tokens, ~tokens[t].revoked,
               tokens[t].ttl * TicksPerHour < Durations \div 2
        PROVE  Valid(t) <=> clock - tokens[t].issuedAt <= tokens[t].ttl * TicksPerHour
    <3> DEFINE d == tokens[t].ttl * TicksPerHour
    <3>1. Record(tokens[t]) /\ up /\ d \in Nat
      BY ApiAssumption DEF ApiAssumption, ApiInv, Record
    <3>2. Wrapped(d) = d
      BY <2>2, <3>1, FitsUnwrapped
    <3>3. tokens[t].expiresAt = tokens[t].issuedAt + d
      BY <3>1, <3>2 DEF Record
    <3> HIDE DEF d
    <3>4. Valid(t) <=> clock <= tokens[t].issuedAt + d
      BY <2>2, <3>1, <3>3 DEF Valid
    <3>5. Valid(t) <=> clock - tokens[t].issuedAt <= d
      BY <3>1, <3>4 DEF Record, ApiInv
    <3> QED BY <3>5 DEF d
  <2> QED BY <2>1, <2>2 DEF InvitesAreHonoured
<1> QED BY <1>1, <1>2, <1>3, PTL DEF ApiSpec
-----------------------------------------------------------------------------
(* The maximum of a set is the element that none exceeds.                  *)
LEMMA MaxIs == ASSUME NEW S \in SUBSET Int, NEW m \in S, \A x \in S : x <= m PROVE Max(S) = m
<1>1. \A x \in S : m >= x
  OBVIOUS
<1>2. \A k \in S : (\A x \in S : k >= x) => k = m
  OBVIOUS
<1> QED BY <1>1, <1>2 DEF Max

(* Its minimum likewise.                                                   *)
LEMMA MinIs == ASSUME NEW S \in SUBSET Int, NEW m \in S, \A x \in S : m <= x PROVE Min(S) = m
<1>1. \A k \in S : (\A x \in S : k <= x) => k = m
  OBVIOUS
<1> QED BY <1>1 DEF Min

(* Among natural numbers there is a least.                                 *)
LEMMA LeastIs == ASSUME NEW S \in SUBSET Nat, S # {} PROVE \E m \in S : \A x \in S : m <= x
<1>1. PICK m \in S : \A x \in S : ~ (<<x, m>> \in OpToRel(<, Nat))
  BY NatLessThanWellFounded, WFMin
<1>2. \A x \in S : ~ (x < m)
  BY <1>1 DEF OpToRel
<1> QED BY <1>2

(* And among bounded ones a greatest.                                      *)
LEMMA GreatestIs == ASSUME NEW S \in SUBSET Nat, S # {}, NEW n \in Nat, \A x \in S : x <= n
                    PROVE  \E m \in S : \A x \in S : x <= m
<1> DEFINE T == {n - x : x \in S}
<1>1. T \in SUBSET Nat /\ T # {}
  <2>1. \A x \in S : n - x \in Nat
    OBVIOUS
  <2> QED BY <2>1
<1>2. PICK t \in T : \A y \in T : t <= y
  BY <1>1, LeastIs
<1>3. PICK m \in S : t = n - m
  OBVIOUS
<1>4. ASSUME NEW x \in S PROVE x <= m
  <2>1. n - x \in T
    OBVIOUS
  <2>2. n - m <= n - x
    BY <1>2, <1>3, <2>1
  <2> QED BY <2>2
<1> QED BY <1>4
-----------------------------------------------------------------------------
(* Powers of two, counted as sets: positive, ...                           *)
LEMMA PowerIs == ASSUME NEW n \in Nat
                 PROVE  /\ IsFiniteSet(SUBSET (1..n)) /\ Cardinality(SUBSET (1..n)) = 2^n
                        /\ 2^n \in Nat \ {0}
<1>1. IsFiniteSet(1..n) /\ Cardinality(1..n) = n
  BY FS_Interval
<1>2. IsFiniteSet(SUBSET (1..n)) /\ Cardinality(SUBSET (1..n)) = 2^n
  BY <1>1, FS_SUBSET
<1>3. 2^n \in Nat
  BY <1>2, FS_CardinalityType
<1>4. 2^n # 0
  BY <1>2, FS_EmptySet
<1> QED BY <1>2, <1>3, <1>4

(* ... growing, ...                                                        *)
LEMMA PowerGrows == ASSUME NEW m \in Nat, NEW n \in Nat, m < n PROVE 2^m < 2^n
<1> DEFINE S == SUBSET (1..m)
           T == SUBSET (1..n)
<1>1. S \in SUBSET T /\ S # T
  <2>1. 1..m \subseteq 1..n
    OBVIOUS
  <2>2. {n} \in T /\ {n} \notin S
    OBVIOUS
  <2> QED BY <2>1, <2>2
<1>2. /\ IsFiniteSet(T) /\ Cardinality(T) = 2^n /\ Cardinality(S) = 2^m
      /\ 2^n \in Nat /\ 2^m \in Nat
  BY PowerIs
<1> HIDE DEF S, T
<1>3. Cardinality(S) <= Cardinality(T) /\ (Cardinality(T) = Cardinality(S) => T = S)
  BY <1>1, <1>2, FS_Subset
<1>4. 2^m <= 2^n /\ 2^m # 2^n
  BY <1>1, <1>2, <1>3
<1> QED BY <1>2, <1>4

(* ... and a multiple of each before.                                      *)
LEMMA PowerSplits == ASSUME NEW m \in Nat, NEW n \in Nat PROVE 2^(m + n) = 2^m * 2^n
<1> DEFINE A == 1..m
           B == (m + 1)..(m + n)
           S == SUBSET (1..(m + n))
           T == (SUBSET A) \X (SUBSET B)
           f == [X \in S |-> <<X \cap A, X \cap B>>]
<1>1. A \cup B = 1..(m + n) /\ A \cap B = {}
  OBVIOUS
<1>2. f \in [S -> T]
  OBVIOUS
<1>3. \A X, Y \in S : f[X] = f[Y] => X = Y
  <2> SUFFICES ASSUME NEW X \in S, NEW Y \in S, f[X] = f[Y] PROVE X = Y
    OBVIOUS
  <2>1. X \cap A = Y \cap A /\ X \cap B = Y \cap B
    OBVIOUS
  <2>2. X \subseteq A \cup B /\ Y \subseteq A \cup B
    BY <1>1
  <2> HIDE DEF A, B
  <2> QED BY <2>1, <2>2
<1>4. ASSUME NEW t \in T PROVE \E X \in S : f[X] = t
  <2>1. PICK X \in SUBSET A, Y \in SUBSET B : t = <<X, Y>>
    OBVIOUS
  <2>2. X \cup Y \in S
    BY <1>1
  <2>3. (X \cup Y) \cap A = X /\ (X \cup Y) \cap B = Y
    <3> HIDE DEF A, B
    <3> QED BY <1>1
  <2>4. f[X \cup Y] = <<X, Y>>
    BY <2>2, <2>3
  <2> QED BY <2>1, <2>2, <2>4
<1>5. ExistsBijection(S, T)
  <2> HIDE DEF S, T, f
  <2>1. f \in Injection(S, T)
    BY <1>2, <1>3 DEF Injection, IsInjective
  <2>2. f \in Surjection(S, T)
    BY <1>2, <1>4 DEF Surjection
  <2> QED BY <2>1, <2>2 DEF ExistsBijection, Bijection
<1>6. m + n \in Nat /\ IsFiniteSet(S) /\ Cardinality(S) = 2^(m + n)
  BY PowerIs
<1>7. IsFiniteSet(SUBSET A) /\ Cardinality(SUBSET A) = 2^m
  BY PowerIs
<1>8. IsFiniteSet(SUBSET B) /\ Cardinality(SUBSET B) = 2^n
  <2>1. m + 1 \in Int /\ m + n \in Int
    OBVIOUS
  <2>2. IsFiniteSet(B) /\ Cardinality(B) = IF m + 1 > m + n THEN 0 ELSE m + n - (m + 1) + 1
    BY <2>1, FS_Interval
  <2>3. IsFiniteSet(B) /\ Cardinality(B) = n
    BY <2>2
  <2> HIDE DEF B
  <2> QED BY <2>3, FS_SUBSET
<1> HIDE DEF S, A, B
<1>9. Cardinality(T) = 2^m * 2^n
  BY <1>7, <1>8, FS_Product
<1>10. Cardinality(T) = Cardinality(S)
  <2> HIDE DEF T
  <2> QED BY <1>5, <1>6, FS_Bijection
<1> QED BY <1>6, <1>9, <1>10
-----------------------------------------------------------------------------
(* A number rounded down to a multiple of d.                               *)
Floor(x, d) == x - (x % d)

(* Rounding is idempotent, and to a multiple of 1 it does nothing.         *)
LEMMA FloorIs ==
    ASSUME NEW d \in Nat \ {0}, NEW x \in Nat
    PROVE  /\ x % d \in 0..(d - 1) /\ Floor(x, d) \in 0..x
           /\ Floor(Floor(x, d), d) = Floor(x, d) /\ Floor(x, 1) = x
<1> DEFINE q == x \div d
           r == x % d
<1>1. q \in Nat /\ r \in 0..(d - 1) /\ x = d * q + r
  OBVIOUS
<1> HIDE DEF q, r
<1>2. d * q \in Nat /\ Floor(x, d) = d * q
  BY <1>1 DEF Floor, r
<1>3. (d * q) % d = 0
  BY <1>1
<1>4. Floor(d * q, d) = d * q
  BY <1>2, <1>3 DEF Floor
<1>5. Floor(x, 1) = x
  BY DEF Floor
<1>6. r <= x /\ Floor(x, d) \in 0..x
  BY <1>1, <1>2
<1>7. x % d \in 0..(d - 1)
  BY <1>1 DEF r
<1> QED BY <1>2, <1>4, <1>5, <1>6, <1>7, Zenon

(* The remainder is what is written as one.                                *)
LEMMA RemainderIs ==
    ASSUME NEW d \in Nat \ {0}, NEW q \in Nat, NEW c \in 0..(d - 1)
    PROVE  (d * q + c) % d = c
<1> DEFINE x == d * q + c
           p == x \div d
           r == x % d
<1>0. d * q \in Nat /\ x \in Nat
  OBVIOUS
<1>1. p \in Nat /\ r \in 0..(d - 1) /\ x = d * p + r
  <2> HIDE DEF x
  <2> QED BY <1>0
<1> HIDE DEF p, r
<1>2. CASE p = q
  BY <1>0, <1>1, <1>2 DEF r
<1>3. CASE p < q
  <2>1. PICK k \in Nat : q = p + 1 + k
    <3>1. q - p - 1 \in Nat /\ q = p + 1 + (q - p - 1)
      BY <1>1, <1>3
    <3> QED BY <3>1
  <2>2. d * q = d * p + d + d * k /\ d * k \in Nat /\ d * p \in Nat
    BY <1>1, <2>1
  <2> QED BY <1>0, <1>1, <2>2
<1>4. CASE q < p
  <2>1. PICK k \in Nat : p = q + 1 + k
    <3>1. p - q - 1 \in Nat /\ p = q + 1 + (p - q - 1)
      BY <1>1, <1>4
    <3> QED BY <3>1
  <2>2. d * p = d * q + d + d * k /\ d * k \in Nat /\ d * p \in Nat
    BY <1>1, <2>1
  <2> QED BY <1>0, <1>1, <2>2
<1> QED BY <1>1, <1>2, <1>3, <1>4

(* Rounding keeps the order.                                               *)
LEMMA FloorGrows ==
    ASSUME NEW d \in Nat \ {0}, NEW x \in Nat, NEW y \in Nat, x <= y
    PROVE  Floor(x, d) <= Floor(y, d)
<1> DEFINE p == x \div d
           q == y \div d
<1>1. p \in Nat /\ x % d \in 0..(d - 1) /\ x = d * p + (x % d)
  OBVIOUS
<1>2. q \in Nat /\ y % d \in 0..(d - 1) /\ y = d * q + (y % d)
  OBVIOUS
<1> HIDE DEF p, q
<1>3. Floor(x, d) = d * p /\ Floor(y, d) = d * q /\ d * p \in Nat /\ d * q \in Nat
  <2>1. d * p \in Nat /\ d * q \in Nat
    BY <1>1, <1>2
  <2> DEFINE P == d * p
             Q == d * q
             r == x % d
             s == y % d
  <2>2. P \in Nat /\ Q \in Nat /\ r \in Nat /\ s \in Nat /\ x = P + r /\ y = Q + s
    BY <1>1, <1>2, <2>1
  <2>3. Floor(x, d) = x - r /\ Floor(y, d) = y - s
    BY DEF Floor
  <2> HIDE DEF P, Q, r, s
  <2>4. Floor(x, d) = P /\ Floor(y, d) = Q
    BY <2>2, <2>3
  <2> QED BY <2>1, <2>4 DEF P, Q
<1>4. CASE p <= q
  <2>1. PICK k \in Nat : q = p + k
    <3>1. q - p \in Nat /\ q = p + (q - p)
      BY <1>1, <1>2, <1>4
    <3> QED BY <3>1
  <2>2. d * q = d * p + d * k /\ d * k \in Nat
    BY <1>1, <2>1
  <2> QED BY <1>3, <2>2
<1>5. CASE q < p
  <2>1. PICK k \in Nat : p = q + 1 + k
    <3>1. p - q - 1 \in Nat /\ p = q + 1 + (p - q - 1)
      BY <1>1, <1>2, <1>5
    <3> QED BY <3>1
  <2>2. d * p = d * q + d + d * k /\ d * k \in Nat
    BY <1>2, <2>1
  <2>3. y < d * q + d
    BY <1>2, <1>3
  <2>4. d * p <= x
    BY <1>1, <1>3
  <2> QED BY <1>3, <2>2, <2>3, <2>4
<1> QED BY <1>1, <1>2, <1>4, <1>5

(* The end of a block of d numbers rounds to its beginning, and is not     *)
(* beyond the last number below a multiple of d.                           *)
LEMMA BlockEnds ==
    ASSUME NEW d \in Nat \ {0}, NEW e \in Nat, NEW x \in 0..(d * e - 1), Floor(x, d) = x
    PROVE  x + (d - 1) \in 0..(d * e - 1) /\ Floor(x + (d - 1), d) = x
<1> DEFINE q == x \div d
<1>0. d * e \in Nat /\ x \in Nat
  OBVIOUS
<1>1. q \in Nat /\ x % d \in 0..(d - 1) /\ x = d * q + (x % d)
  BY <1>0
<1> HIDE DEF q
<1>2. d * q \in Nat /\ x = d * q
  BY <1>0, <1>1 DEF Floor
<1>3. q < e
  <2> SUFFICES ASSUME e <= q PROVE FALSE
    BY <1>1
  <2>1. PICK k \in Nat : q = e + k
    <3>1. q - e \in Nat /\ q = e + (q - e)
      BY <1>1
    <3> QED BY <3>1
  <2>2. d * q = d * e + d * k /\ d * k \in Nat
    BY <2>1
  <2> QED BY <1>0, <1>2, <2>2
<1>4. PICK k \in Nat : e = q + 1 + k
  <2>1. e - q - 1 \in Nat /\ e = q + 1 + (e - q - 1)
    BY <1>1, <1>3
  <2> QED BY <2>1
<1>5. d * e = d * q + d + d * k /\ d * k \in Nat
  BY <1>1, <1>4
<1>6. x + (d - 1) \in 0..(d * e - 1)
  BY <1>0, <1>2, <1>5
<1>7. (d * q + (d - 1)) % d = d - 1
  BY <1>1, RemainderIs
<1> QED BY <1>2, <1>6, <1>7 DEF Floor
-----------------------------------------------------------------------------
(* How many values octet i takes in a subnet.                              *)
Size(bits, i) == Values - MaskOf(bits)[i]

(* The bits of a mask that fall into one octet.                            *)
LEMMA ClippedIs ==
    ASSUME NEW o \in Int, NEW b \in Nat \ {0}, NEW k, k = Max({0, Min({o, b})})
    PROVE  k \in 0..b /\ (o <= 0 => k = 0) /\ (o >= 1 => k >= 1) /\ (o >= b => k = b)
<1> DEFINE m == IF o <= b THEN o ELSE b
<1>1. Min({o, b}) = m
  <2>1. {o, b} \in SUBSET Int /\ m \in {o, b} /\ \A x \in {o, b} : m <= x
    OBVIOUS
  <2> HIDE DEF m
  <2> QED BY <2>1, MinIs
<1>2. m \in Int
  OBVIOUS
<1> DEFINE n == IF 0 <= m THEN m ELSE 0
<1>3. Max({0, m}) = n
  <2> HIDE DEF m
  <2>1. {0, m} \in SUBSET Int /\ n \in {0, m} /\ \A x \in {0, m} : x <= n
    BY <1>2
  <2> HIDE DEF n
  <2> QED BY <2>1, MaxIs
<1>4. k = n
  BY <1>1, <1>3
<1> QED BY <1>4

(* The shape of a mask: ones, then zeros.                                  *)
LEMMA MaskShape ==
    ASSUME NEW bits \in 1..(Octets * OctetBits)
    PROVE  /\ \A i \in 1..Octets : Size(bits, i) \in Nat \ {0}
           /\ \A i \in 1..Octets : \E e \in Nat : Values = Size(bits, i) * e
           /\ \A i \in 1..Octets : \/ Size(bits, i) = 1
                                    \/ \A j \in (i + 1)..Octets : Size(bits, j) = Values
           /\ Size(bits, 1) < Values
           /\ \A i \in 1..Octets : MaskOf(bits)[i] \in Int
<1> DEFINE ones(i) == bits - (i - 1) * OctetBits
           k(i)    == Max({0, Min({ones(i), OctetBits})})
<1>0. Octets \in Nat \ {0} /\ OctetBits \in Nat \ {0} /\ Octets * OctetBits \in Nat /\ bits \in Nat \ {0}
  BY AddressAssumption DEF AddressAssumption
<1>1. ASSUME NEW i \in 1..Octets PROVE ones(i) \in Int
  <2>1. (i - 1) * OctetBits \in Int
    BY <1>0
  <2> QED BY <1>0, <2>1
<1>2. ASSUME NEW i \in 1..Octets
      PROVE  /\ k(i) \in 0..OctetBits /\ (ones(i) <= 0 => k(i) = 0)
             /\ (ones(i) >= 1 => k(i) >= 1) /\ (ones(i) >= OctetBits => k(i) = OctetBits)
  <2> DEFINE o == ones(i)
  <2>1. o \in Int
    BY <1>1
  <2> HIDE DEF o
  <2>2. \A m : m = Max({0, Min({o, OctetBits})}) =>
          /\ m \in 0..OctetBits /\ (o <= 0 => m = 0) /\ (o >= 1 => m >= 1) /\ (o >= OctetBits => m = OctetBits)
    BY <1>0, <2>1, ClippedIs
  <2> QED BY <2>2 DEF o
<1>3. ASSUME NEW i \in 1..Octets PROVE MaskOf(bits)[i] = Values - 2^(OctetBits - k(i))
  BY DEF MaskOf
<1> HIDE DEF k
<1>4. Values \in Nat \ {0}
  BY <1>0, PowerIs DEF Values
<1>5. ASSUME NEW i \in 1..Octets
      PROVE  OctetBits - k(i) \in 0..OctetBits /\ 2^(OctetBits - k(i)) \in Nat \ {0}
             /\ Size(bits, i) = 2^(OctetBits - k(i))
  <2>1. OctetBits - k(i) \in 0..OctetBits
    BY <1>0, <1>2
  <2>2. 2^(OctetBits - k(i)) \in Nat \ {0}
    <3> DEFINE n == OctetBits - k(i)
    <3>1. n \in Nat
      BY <1>0, <2>1
    <3> HIDE DEF n
    <3>2. 2^n \in Nat \ {0}
      BY <3>1, PowerIs
    <3> QED BY <3>2 DEF n
  <2> QED BY <1>3, <1>4, <2>1, <2>2 DEF Size
<1>6. ASSUME NEW i \in 1..Octets PROVE \E e \in Nat : Values = Size(bits, i) * e
  <2> DEFINE n == OctetBits - k(i)
  <2>1. n \in Nat /\ k(i) \in Nat /\ n + k(i) = OctetBits
    BY <1>0, <1>2
  <2> HIDE DEF n
  <2>2. 2^(n + k(i)) = 2^n * 2^k(i) /\ 2^k(i) \in Nat
    BY <2>1, PowerSplits, PowerIs
  <2>3. Values = 2^n * 2^k(i)
    BY <2>1, <2>2 DEF Values
  <2>4. Size(bits, i) = 2^n
    BY <1>5 DEF n
  <2> QED BY <2>2, <2>3, <2>4
<1>7. ASSUME NEW i \in 1..Octets, Size(bits, i) # 1, NEW j \in (i + 1)..Octets
      PROVE  Size(bits, j) = Values
  <2>0. i \in Nat /\ j \in Nat /\ j \in 1..Octets
    BY <1>0
  <2>1. k(i) # OctetBits
    <3> SUFFICES ASSUME k(i) = OctetBits PROVE FALSE
      OBVIOUS
    <3>1. OctetBits - k(i) = 0
      BY <1>0
    <3>2. 2^0 = 1
      OBVIOUS
    <3> QED BY <1>5, <1>7, <3>1, <3>2
  <2>2. ones(i) < OctetBits
    BY <1>0, <1>1, <1>2, <2>1
  <2>3. PICK t \in Nat : j = i + 1 + t
    <3>1. j - i - 1 \in Nat /\ j = i + 1 + (j - i - 1)
      BY <2>0
    <3> QED BY <3>1
  <2>4. (j - 1) * OctetBits = (i - 1) * OctetBits + OctetBits + t * OctetBits /\ t * OctetBits \in Nat
        /\ (i - 1) * OctetBits \in Int
    <3> DEFINE q == i - 1
    <3>1. j - 1 = q + 1 + t /\ q \in Int
      BY <2>0, <2>3
    <3> HIDE DEF q
    <3>2. (q + 1 + t) * OctetBits = q * OctetBits + OctetBits + t * OctetBits
      BY <1>0, <2>3, <3>1
    <3>3. t * OctetBits \in Nat /\ q * OctetBits \in Int
      BY <1>0, <2>3, <3>1
    <3> QED BY <3>1, <3>2, <3>3 DEF q
  <2>5. ones(j) <= 0
    BY <1>0, <2>2, <2>4
  <2>6. k(j) = 0
    <3> HIDE DEF ones
    <3> QED BY <1>2, <2>0, <2>5
  <2>7. OctetBits - k(j) = OctetBits
    BY <1>0, <2>6
  <2> QED BY <1>5, <2>0, <2>7 DEF Values
<1>8. Size(bits, 1) < Values
  <2>1. 1 \in 1..Octets /\ ones(1) >= 1
    BY <1>0
  <2> HIDE DEF ones
  <2>2. k(1) >= 1 /\ k(1) \in 0..OctetBits
    BY <1>2, <2>1
  <2>3. OctetBits - k(1) \in Nat /\ OctetBits - k(1) < OctetBits
    BY <1>0, <2>2
  <2>4. 2^(OctetBits - k(1)) < 2^OctetBits
    BY <1>0, <2>3, PowerGrows
  <2> QED BY <1>5, <2>1, <2>4 DEF Values
<1>9. \A i \in 1..Octets : Size(bits, i) \in Nat \ {0}
  BY <1>5
<1>10. \A i \in 1..Octets : MaskOf(bits)[i] \in Int
  BY <1>3, <1>4, <1>5
<1> QED BY <1>6, <1>7, <1>8, <1>9, <1>10

(* An address with the host's bits cleared.                                *)
LEMMA MaskedIs ==
    ASSUME NEW bits \in 1..(Octets * OctetBits), NEW ip \in IPv4
    PROVE  Masked(ip, MaskOf(bits)) = [i \in 1..Octets |-> Floor(ip[i], Size(bits, i))]
BY DEF Masked, Floor, Size

(* It is an address, and clearing them again changes nothing.              *)
LEMMA MaskedInIPv4 ==
    ASSUME NEW bits \in 1..(Octets * OctetBits), NEW ip \in IPv4
    PROVE  /\ Masked(ip, MaskOf(bits)) \in IPv4
           /\ Masked(Masked(ip, MaskOf(bits)), MaskOf(bits)) = Masked(ip, MaskOf(bits))
<1> DEFINE d(i) == Size(bits, i)
           m == [i \in 1..Octets |-> Floor(ip[i], d(i))]
<1>0. Values \in Nat \ {0}
  BY PowerIs, AddressAssumption DEF AddressAssumption, Values
<1>1. \A i \in 1..Octets : d(i) \in Nat \ {0}
  BY MaskShape
<1>2. Masked(ip, MaskOf(bits)) = m
  BY MaskedIs
<1> HIDE DEF d
<1>3. ASSUME NEW i \in 1..Octets
      PROVE  m[i] \in 0..(Values - 1) /\ Floor(m[i], d(i)) = m[i]
  <2>1. ip[i] \in 0..(Values - 1) /\ ip[i] \in Nat
    BY <1>0 DEF IPv4
  <2>2. Floor(ip[i], d(i)) \in 0..ip[i] /\ Floor(Floor(ip[i], d(i)), d(i)) = Floor(ip[i], d(i))
    BY <1>1, <2>1, FloorIs
  <2> QED BY <1>0, <2>1, <2>2
<1>4. m \in IPv4
  BY <1>3 DEF IPv4
<1>5. Masked(m, MaskOf(bits)) = [i \in 1..Octets |-> Floor(m[i], d(i))]
  BY <1>4, MaskedIs DEF d
<1>6. [i \in 1..Octets |-> Floor(m[i], d(i))] = [i \in 1..Octets |-> m[i]]
  BY <1>3
<1>7. m = [i \in 1..Octets |-> m[i]]
  OBVIOUS
<1> QED BY <1>2, <1>4, <1>5, <1>6, <1>7, Zenon
-----------------------------------------------------------------------------
(* The order of addresses: total, ...                                      *)
LEMMA BeforeIsTotal ==
    ASSUME NEW a \in IPv4, NEW b \in IPv4
    PROVE  a = b \/ Before(a, b) \/ Before(b, a)
<1> DEFINE S == {i \in 1..Octets : a[i] # b[i]}
<1>1. CASE S = {}
  <2>1. \A i \in 1..Octets : a[i] = b[i]
    BY <1>1
  <2>2. a = [i \in 1..Octets |-> a[i]] /\ b = [i \in 1..Octets |-> b[i]]
    BY DEF IPv4
  <2>3. [i \in 1..Octets |-> a[i]] = [i \in 1..Octets |-> b[i]]
    BY <2>1
  <2> QED BY <2>2, <2>3, Zenon
<1>2. CASE S # {}
  <2>0. S \in SUBSET Nat
    OBVIOUS
  <2>1. PICK i \in S : \A x \in S : i <= x
    BY <1>2, <2>0, LeastIs
  <2>2. \A j \in 1..(i - 1) : a[j] = b[j]
    BY <2>1, AddressAssumption DEF AddressAssumption
  <2>3. a[i] < b[i] \/ b[i] < a[i]
    <3>1. Values \in Nat \ {0}
      BY PowerIs, AddressAssumption DEF AddressAssumption, Values
    <3>2. a[i] \in 0..(Values - 1) /\ b[i] \in 0..(Values - 1) /\ a[i] # b[i]
      BY <2>1 DEF IPv4
    <3> QED BY <3>1, <3>2
  <2> QED BY <2>2, <2>3 DEF Before
<1> QED BY <1>1, <1>2

(* ... strict, ...                                                         *)
LEMMA BeforeIsStrict == ASSUME NEW a \in IPv4 PROVE ~Before(a, a)
<1>1. Values \in Nat \ {0}
  BY PowerIs, AddressAssumption DEF AddressAssumption, Values
<1> QED BY <1>1 DEF Before, IPv4

(* ... transitive ...                                                      *)
LEMMA BeforeGoesOn ==
    ASSUME NEW a \in IPv4, NEW b \in IPv4, NEW c \in IPv4, Before(a, b), Before(b, c)
    PROVE  Before(a, c)
<1>1. Values \in Nat \ {0} /\ Octets \in Nat
  BY PowerIs, AddressAssumption DEF AddressAssumption, Values
<1>2. PICK i \in 1..Octets : a[i] < b[i] /\ \A j \in 1..(i - 1) : a[j] = b[j]
  BY DEF Before
<1>3. PICK k \in 1..Octets : b[k] < c[k] /\ \A j \in 1..(k - 1) : b[j] = c[j]
  BY DEF Before
<1>4. \A j \in 1..Octets : a[j] \in Int /\ b[j] \in Int /\ c[j] \in Int
  BY <1>1 DEF IPv4
<1>5. CASE i < k
  <2>1. a[i] < c[i] /\ \A j \in 1..(i - 1) : a[j] = c[j]
    BY <1>1, <1>2, <1>3, <1>5
  <2> QED BY <2>1 DEF Before
<1>6. CASE k <= i
  <2>1. a[k] < c[k]
    BY <1>1, <1>2, <1>3, <1>4, <1>6
  <2>2. \A j \in 1..(k - 1) : a[j] = c[j]
    BY <1>1, <1>2, <1>3, <1>6
  <2> QED BY <2>1, <2>2 DEF Before
<1> QED BY <1>1, <1>5, <1>6

(* ... and above that of the octets.                                       *)
LEMMA BelowIsBefore ==
    ASSUME NEW a \in IPv4, NEW b \in IPv4, \A i \in 1..Octets : a[i] <= b[i]
    PROVE  a = b \/ Before(a, b)
<1>1. Values \in Nat \ {0} /\ \A i \in 1..Octets : a[i] \in Int /\ b[i] \in Int
  BY PowerIs, AddressAssumption DEF AddressAssumption, Values, IPv4
<1>2. ~Before(b, a)
  BY <1>1 DEF Before
<1> QED BY <1>2, BeforeIsTotal
-----------------------------------------------------------------------------
(* Incrementing: the octets below the last that does not wrap stay, that   *)
(* one goes up, and those after it become 0.                               *)
LEMMA IncrementIs ==
    ASSUME NEW c \in IPv4
    PROVE  \E last \in 0..Octets :
              /\ incrementIP(c) \in IPv4
              /\ \A i \in 1..Octets : /\ i < last => incrementIP(c)[i] = c[i]
                                      /\ i = last => c[i] < Values - 1 /\ incrementIP(c)[i] = c[i] + 1
                                      /\ i > last => c[i] = Values - 1 /\ incrementIP(c)[i] = 0
<1> DEFINE S == {0} \cup {i \in 1..Octets : c[i] # Values - 1}
<1>0. Values \in Nat \ {0} /\ Octets \in Nat
  BY PowerIs, AddressAssumption DEF AddressAssumption, Values
<1>1. S \in SUBSET Nat /\ S # {} /\ \A x \in S : x <= Octets
  BY <1>0
<1>2. PICK last \in S : \A x \in S : x <= last
  <2> HIDE DEF S
  <2> QED BY <1>0, <1>1, GreatestIs
<1>3. Max(S) = last
  <2> HIDE DEF S
  <2>1. S \in SUBSET Int
    BY <1>1
  <2> QED BY <1>2, <2>1, MaxIs
<1>4. last \in 0..Octets
  BY <1>0, <1>1, <1>2
<1>5. incrementIP(c) = [i \in 1..Octets |-> IF i < last THEN c[i] ELSE (c[i] + 1) % Values]
  BY <1>3 DEF incrementIP
<1>6. \A v \in 0..(Values - 1) : v % Values = v
  BY <1>0
<1>7. Values % Values = 0
  BY <1>0
<1>8. \A i \in 1..Octets : c[i] \in 0..(Values - 1)
  BY DEF IPv4
<1>9. ASSUME NEW i \in 1..Octets
      PROVE  /\ i < last => incrementIP(c)[i] = c[i]
             /\ i = last => c[i] < Values - 1 /\ incrementIP(c)[i] = c[i] + 1
             /\ i > last => c[i] = Values - 1 /\ incrementIP(c)[i] = 0
  <2>1. i < last => incrementIP(c)[i] = c[i]
    BY <1>5
  <2>2. ASSUME i = last PROVE c[i] < Values - 1 /\ incrementIP(c)[i] = c[i] + 1
    <3>1. c[i] # Values - 1
      BY <1>2, <2>2
    <3>2. c[i] < Values - 1 /\ c[i] + 1 \in 0..(Values - 1)
      BY <1>0, <1>8, <3>1
    <3>3. incrementIP(c)[i] = (c[i] + 1) % Values
      BY <1>4, <1>5, <2>2
    <3> QED BY <1>6, <3>2, <3>3
  <2>3. ASSUME i > last PROVE c[i] = Values - 1 /\ incrementIP(c)[i] = 0
    <3>1. i \notin S
      <4> HIDE DEF S
      <4> QED BY <1>2, <1>4, <2>3
    <3>2. c[i] = Values - 1
      BY <3>1
    <3>3. incrementIP(c)[i] = (c[i] + 1) % Values
      BY <1>4, <1>5, <2>3
    <3>4. c[i] + 1 = Values
      BY <1>0, <3>2
    <3> QED BY <1>7, <3>2, <3>3, <3>4
  <2> QED BY <2>1, <2>2, <2>3
<1>10. \A i \in 1..Octets : incrementIP(c)[i] \in 0..(Values - 1)
  BY <1>0, <1>4, <1>8, <1>9
<1>11. incrementIP(c) \in IPv4
  BY <1>5, <1>10 DEF IPv4
<1> QED BY <1>4, <1>9, <1>11

(* The address after another is the next one, but after the last of all    *)
(* comes the first.                                                        *)
LEMMA IncrementIsNext ==
    ASSUME NEW c \in IPv4
    PROVE  /\ incrementIP(c) \in IPv4
           /\ \/ /\ Before(c, incrementIP(c))
                 /\ \A x \in IPv4 : Before(x, incrementIP(c)) => x = c \/ Before(x, c)
              \/ /\ \A i \in 1..Octets : c[i] = Values - 1 /\ incrementIP(c)[i] = 0
                 /\ \A x \in IPv4 : x = c \/ Before(x, c)
<1>0. Values \in Nat \ {0} /\ Octets \in Nat
  BY PowerIs, AddressAssumption DEF AddressAssumption, Values
<1> DEFINE n == incrementIP(c)
<1>1. PICK last \in 0..Octets :
              /\ n \in IPv4
              /\ \A i \in 1..Octets : /\ i < last => n[i] = c[i]
                                      /\ i = last => c[i] < Values - 1 /\ n[i] = c[i] + 1
                                      /\ i > last => c[i] = Values - 1 /\ n[i] = 0
  BY IncrementIs
<1> HIDE DEF n
<1>2. \A i \in 1..Octets : c[i] \in 0..(Values - 1)
  BY DEF IPv4
<1>3. CASE last = 0
  <2>1. \A i \in 1..Octets : c[i] = Values - 1 /\ n[i] = 0
    BY <1>0, <1>1, <1>3
  <2>2. ASSUME NEW x \in IPv4 PROVE x = c \/ Before(x, c)
    <3>1. \A i \in 1..Octets : x[i] <= c[i]
      BY <1>0, <2>1 DEF IPv4
    <3> QED BY <3>1, BelowIsBefore
  <2> QED BY <1>1, <2>1, <2>2 DEF n
<1>4. CASE last # 0
  <2>0. last \in 1..Octets /\ n[last] = c[last] + 1 /\ c[last] \in 0..(Values - 1)
    BY <1>0, <1>1, <1>2, <1>4
  <2>1. Before(c, n)
    <3>1. c[last] < n[last]
      BY <1>0, <2>0
    <3>2. \A j \in 1..(last - 1) : c[j] = n[j]
      BY <1>0, <1>1, <2>0
    <3> QED BY <2>0, <3>1, <3>2 DEF Before
  <2>2. ASSUME NEW x \in IPv4, Before(x, n) PROVE x = c \/ Before(x, c)
    <3>0. \A i \in 1..Octets : x[i] \in 0..(Values - 1)
      BY DEF IPv4
    <3>1. PICK i \in 1..Octets : x[i] < n[i] /\ \A j \in 1..(i - 1) : x[j] = n[j]
      BY <2>2 DEF Before
    <3>2. CASE i < last
      <4>1. x[i] < c[i] /\ \A j \in 1..(i - 1) : x[j] = c[j]
        BY <1>0, <1>1, <3>1, <3>2
      <4> QED BY <4>1 DEF Before
    <3>3. CASE i = last
      <4>1. \A j \in 1..(last - 1) : x[j] = c[j]
        BY <1>0, <1>1, <2>0, <3>1, <3>3
      <4>2. x[last] <= c[last]
        BY <1>0, <2>0, <3>0, <3>1, <3>3
      <4>3. \A j \in 1..Octets : j > last => x[j] <= c[j]
        BY <1>0, <1>1, <3>0
      <4>4. \A j \in 1..Octets : x[j] <= c[j]
        <5> SUFFICES ASSUME NEW j \in 1..Octets PROVE x[j] <= c[j]
          OBVIOUS
        <5>1. CASE j < last
          BY <1>0, <1>2, <2>0, <4>1, <5>1
        <5>2. CASE j >= last
          BY <1>0, <2>0, <4>2, <4>3, <5>2
        <5> QED BY <1>0, <2>0, <5>1, <5>2
      <4> QED BY <4>4, BelowIsBefore
    <3>4. CASE i > last
      <4>1. n[i] = 0 /\ x[i] \in 0..(Values - 1)
        BY <1>1, <3>0, <3>4
      <4> QED BY <1>0, <3>1, <4>1
    <3> QED BY <1>0, <2>0, <3>2, <3>3, <3>4
  <2> QED BY <1>1, <2>1, <2>2 DEF n
<1> QED BY <1>3, <1>4
-----------------------------------------------------------------------------
(* Clearing the host's bits keeps the order, since behind an octet that is *)
(* not all mask there is no mask.                                          *)
LEMMA MaskedGrows ==
    ASSUME NEW bits \in 1..(Octets * OctetBits), NEW a \in IPv4, NEW b \in IPv4, Before(a, b)
    PROVE  LET f == Masked(a, MaskOf(bits))
               g == Masked(b, MaskOf(bits))
           IN  f \in IPv4 /\ g \in IPv4 /\ (f = g \/ Before(f, g))
<1> DEFINE f == Masked(a, MaskOf(bits))
           g == Masked(b, MaskOf(bits))
<1>0. Values \in Nat \ {0} /\ Octets \in Nat
  BY PowerIs, AddressAssumption DEF AddressAssumption, Values
<1>1. \A i \in 1..Octets : a[i] \in 0..(Values - 1) /\ b[i] \in 0..(Values - 1)
  BY DEF IPv4
<1>2. \A i \in 1..Octets : Size(bits, i) \in Nat \ {0}
  BY MaskShape
<1>3. f \in IPv4 /\ g \in IPv4
  BY MaskedInIPv4
<1>4. \A i \in 1..Octets : f[i] = Floor(a[i], Size(bits, i)) /\ g[i] = Floor(b[i], Size(bits, i))
  BY MaskedIs
<1> SUFFICES f = g \/ Before(f, g)
  BY <1>3
<1> HIDE DEF f, g
<1>5. PICK i \in 1..Octets : a[i] < b[i] /\ \A j \in 1..(i - 1) : a[j] = b[j]
  BY DEF Before
<1>6. \A j \in 1..(i - 1) : f[j] = g[j]
  BY <1>0, <1>4, <1>5
<1>7. f[i] <= g[i]
  <2>1. a[i] \in Nat /\ b[i] \in Nat /\ a[i] <= b[i] /\ Size(bits, i) \in Nat \ {0}
    BY <1>0, <1>1, <1>2, <1>5
  <2>2. Floor(a[i], Size(bits, i)) <= Floor(b[i], Size(bits, i))
    BY <2>1, FloorGrows
  <2> QED BY <1>4, <2>2
<1>8. \A j \in 1..Octets : f[j] \in 0..(Values - 1) /\ g[j] \in 0..(Values - 1)
  BY <1>3 DEF IPv4
<1>9. CASE f[i] < g[i]
  BY <1>6, <1>9 DEF Before
<1>10. CASE f[i] = g[i]
  <2>1. Size(bits, i) # 1
    <3> SUFFICES ASSUME Size(bits, i) = 1 PROVE FALSE
      OBVIOUS
    <3>1. a[i] \in Nat /\ b[i] \in Nat
      BY <1>0, <1>1
    <3>2. Floor(a[i], 1) = a[i] /\ Floor(b[i], 1) = b[i]
      BY <3>1 DEF Floor
    <3>3. a[i] = b[i]
      BY <1>4, <1>10, <3>2
    <3> QED BY <1>5, <3>1, <3>3
  <2>2. \A j \in (i + 1)..Octets : Size(bits, j) = Values
    BY <2>1, MaskShape
  <2>3. ASSUME NEW j \in (i + 1)..Octets PROVE f[j] = g[j]
    <3>1. \A v \in 0..(Values - 1) : Floor(v, Values) = 0
      BY <1>0 DEF Floor
    <3>2. j \in 1..Octets
      BY <1>0
    <3> QED BY <1>1, <1>4, <2>2, <3>1, <3>2
  <2>4. \A j \in 1..Octets : f[j] <= g[j]
    <3> SUFFICES ASSUME NEW j \in 1..Octets PROVE f[j] <= g[j]
      OBVIOUS
    <3>1. f[j] \in Int /\ g[j] \in Int
      BY <1>0, <1>8
    <3>2. CASE j < i
      BY <1>0, <1>6, <3>1, <3>2
    <3>3. CASE j = i
      BY <1>7, <3>3
    <3>4. CASE j > i
      BY <1>0, <2>3, <3>1, <3>4
    <3> QED BY <1>0, <3>2, <3>3, <3>4
  <2> QED BY <1>3, <2>4, BelowIsBefore
<1>11. f[i] < g[i] \/ f[i] = g[i]
  BY <1>0, <1>7, <1>8
<1> QED BY <1>9, <1>10, <1>11

(* The first address of a subnet and its last.                             *)
LEMMA FirstAndLast ==
    ASSUME NEW bits \in 1..(Octets * OctetBits), NEW net \in IPv4, Masked(net, MaskOf(bits)) = net
    PROVE  LET last == [i \in 1..Octets |-> net[i] + (Values - 1 - MaskOf(bits)[i])]
           IN  /\ last \in IPv4 /\ Masked(last, MaskOf(bits)) = net
               /\ \A x \in IPv4 : Masked(x, MaskOf(bits)) = net =>
                     /\ x = net \/ Before(net, x)
                     /\ x = last \/ Before(x, last)
<1> DEFINE d(i) == Size(bits, i)
           last == [i \in 1..Octets |-> net[i] + (Values - 1 - MaskOf(bits)[i])]
           end  == [i \in 1..Octets |-> net[i] + (d(i) - 1)]
<1>0. Values \in Nat \ {0} /\ Octets \in Nat
  BY PowerIs, AddressAssumption DEF AddressAssumption, Values
<1>1. ASSUME NEW i \in 1..Octets
      PROVE  d(i) \in Nat \ {0} /\ \E e \in Nat : Values = d(i) * e
  BY MaskShape, Zenon
<1>2. last = end
  <2>1. ASSUME NEW i \in 1..Octets PROVE Values - 1 - MaskOf(bits)[i] = d(i) - 1
    <3>1. MaskOf(bits)[i] \in Int
      BY MaskShape
    <3> QED BY <1>0, <3>1 DEF Size
  <2> HIDE DEF d
  <2> QED BY <2>1
<1> HIDE DEF d, last
<1>3. \A i \in 1..Octets : net[i] \in 0..(Values - 1)
  BY DEF IPv4
<1>4. \A x \in IPv4 : Masked(x, MaskOf(bits)) = [i \in 1..Octets |-> Floor(x[i], d(i))]
  BY MaskedIs DEF d
<1>5. ASSUME NEW x \in IPv4, Masked(x, MaskOf(bits)) = net, NEW i \in 1..Octets
      PROVE  Floor(x[i], d(i)) = net[i]
  <2>1. net = [j \in 1..Octets |-> Floor(x[j], d(j))]
    BY <1>4, <1>5
  <2> QED BY <2>1
<1>6. ASSUME NEW i \in 1..Octets
      PROVE  net[i] + (d(i) - 1) \in 0..(Values - 1) /\ Floor(net[i] + (d(i) - 1), d(i)) = net[i]
  <2>1. PICK e \in Nat : Values = d(i) * e
    BY <1>1
  <2>2. d(i) \in Nat \ {0} /\ Floor(net[i], d(i)) = net[i] /\ net[i] \in 0..(d(i) * e - 1)
    BY <1>1, <1>3, <1>5, <2>1
  <2>3. net[i] + (d(i) - 1) \in 0..(d(i) * e - 1) /\ Floor(net[i] + (d(i) - 1), d(i)) = net[i]
    BY <2>2, BlockEnds
  <2> QED BY <2>1, <2>3
<1>7. end \in IPv4
  BY <1>6 DEF IPv4
<1>8. Masked(end, MaskOf(bits)) = net
  <2>1. Masked(end, MaskOf(bits)) = [i \in 1..Octets |-> Floor(end[i], d(i))]
    BY <1>4, <1>7
  <2>2. \A i \in 1..Octets : Floor(end[i], d(i)) = net[i]
    BY <1>6
  <2> HIDE DEF end
  <2>3. [i \in 1..Octets |-> Floor(end[i], d(i))] = [i \in 1..Octets |-> net[i]]
    BY <2>2
  <2>4. net = [i \in 1..Octets |-> net[i]]
    BY DEF IPv4
  <2> QED BY <2>1, <2>3, <2>4, Zenon
<1>9. ASSUME NEW x \in IPv4, Masked(x, MaskOf(bits)) = net
      PROVE  (x = net \/ Before(net, x)) /\ (x = end \/ Before(x, end))
  <2>1. ASSUME NEW i \in 1..Octets PROVE net[i] <= x[i] /\ x[i] <= end[i]
    <3>1. x[i] \in Nat /\ d(i) \in Nat \ {0} /\ net[i] \in Nat
      BY <1>0, <1>1, <1>3 DEF IPv4
    <3>2. x[i] % d(i) \in 0..(d(i) - 1)
      BY <3>1, FloorIs
    <3>3. x[i] - (x[i] % d(i)) = net[i]
      BY <1>5, <1>9 DEF Floor
    <3>4. end[i] = net[i] + (d(i) - 1)
      OBVIOUS
    <3> HIDE DEF end
    <3> DEFINE r == x[i] % d(i)
    <3>5. r \in 0..(d(i) - 1) /\ x[i] - r = net[i]
      BY <3>2, <3>3
    <3> HIDE DEF r
    <3> QED BY <3>1, <3>4, <3>5
  <2> HIDE DEF end
  <2>2. net = x \/ Before(net, x)
    BY <2>1, BelowIsBefore
  <2>3. x = end \/ Before(x, end)
    BY <1>7, <2>1, BelowIsBefore
  <2> QED BY <2>2, <2>3
<1> HIDE DEF end
<1> QED BY <1>2, <1>7, <1>8, <1>9 DEF last

(* What lies between two addresses of a subnet is in it.                   *)
LEMMA SubnetHasNoGap ==
    ASSUME NEW bits \in 1..(Octets * OctetBits), NEW a \in IPv4, NEW c \in IPv4, NEW b \in IPv4,
           Before(a, c), Before(c, b), Masked(a, MaskOf(bits)) = Masked(b, MaskOf(bits))
    PROVE  Masked(c, MaskOf(bits)) = Masked(a, MaskOf(bits))
<1> DEFINE f(x) == Masked(x, MaskOf(bits))
<1>1. f(a) \in IPv4 /\ f(c) \in IPv4 /\ (f(a) = f(c) \/ Before(f(a), f(c)))
  BY MaskedGrows
<1>2. f(c) = f(b) \/ Before(f(c), f(b))
  BY MaskedGrows
<1>3. f(a) = f(b)
  OBVIOUS
<1> HIDE DEF f
<1>4. f(c) = f(a)
  BY <1>1, <1>2, <1>3, BeforeGoesOn, BeforeIsStrict
<1> QED BY <1>4 DEF f

(* The last of all addresses and the first are in no subnet together.      *)
LEMMA NoSubnetWraps ==
    ASSUME NEW bits \in 1..(Octets * OctetBits), NEW a \in IPv4, NEW b \in IPv4,
           \A i \in 1..Octets : a[i] = Values - 1 /\ b[i] = 0
    PROVE  Masked(a, MaskOf(bits)) # Masked(b, MaskOf(bits))
<1> DEFINE d == Size(bits, 1)
<1>0. Values \in Nat \ {0} /\ 1 \in 1..Octets
  <2>1. Values \in Nat \ {0}
    BY PowerIs, AddressAssumption DEF AddressAssumption, Values
  <2>2. 1 \in 1..Octets
    BY AddressAssumption DEF AddressAssumption
  <2> QED BY <2>1, <2>2
<1>1. d \in Nat \ {0} /\ d < Values
  BY <1>0, MaskShape
<1>2. /\ Masked(a, MaskOf(bits))[1] = Floor(a[1], d)
      /\ Masked(b, MaskOf(bits))[1] = Floor(b[1], d)
  BY <1>0, MaskedIs
<1>3. a[1] = Values - 1 /\ b[1] = 0
  BY <1>0
<1> HIDE DEF d
<1>4. Floor(0, d) = 0
  BY <1>1 DEF Floor
<1>5. Floor(Values - 1, d) # 0
  <2> DEFINE x == Values - 1
             r == x % d
  <2>1. x \in Nat /\ x >= d
    BY <1>0, <1>1
  <2> HIDE DEF x
  <2>2. r \in 0..(d - 1)
    BY <1>1, <2>1, FloorIs
  <2> HIDE DEF r
  <2>3. x - r # 0
    BY <1>1, <2>1, <2>2
  <2> QED BY <2>3 DEF r, x, Floor
<1> QED BY <1>2, <1>3, <1>4, <1>5
-----------------------------------------------------------------------------
SubnetIsSet == /\ prefix \in 1..(Octets * OctetBits)
               /\ network \in IPv4 /\ serverIP \in IPv4
               /\ Within(network)

(* The pool has the usable addresses that the loop has passed, ascending.  *)
PoolInv == /\ SubnetIsSet /\ candidate \in IPv4 /\ available \in Seq(IPv4)
           /\ \A i \in 2..Len(available) : Before(available[i - 1], available[i])
           /\ InPool = {ip \in Usable : Within(candidate) => Before(ip, candidate)}

(* What the loop leaves out is what is not to be given to a client.        *)
LEMMA UsableIs ==
    ASSUME SubnetIsSet
    PROVE  /\ \A x \in IPv4 : Within(x) => x = network \/ Before(network, x)
           /\ Usable = {ip \in IPv4 : Within(ip) /\ ip \notin {network, broadcastIP, serverIP}}
<1>0. prefix \in 1..(Octets * OctetBits) /\ network \in IPv4 /\ Masked(network, MaskOf(prefix)) = network
  BY DEF SubnetIsSet, Within
<1>1. /\ broadcastIP \in IPv4 /\ Within(broadcastIP)
      /\ \A x \in IPv4 : Within(x) => /\ x = network \/ Before(network, x)
                                      /\ x = broadcastIP \/ Before(x, broadcastIP)
  BY <1>0, FirstAndLast DEF broadcastIP, Within
<1>2. network \in IPv4 /\ Within(network)
  BY <1>0 DEF Within
<1>3. ASSUME NEW ip \in IPv4, Within(ip)
      PROVE  /\ (\E a \in IPv4 : Within(a) /\ Before(a, ip)) <=> ip # network
             /\ (\E b \in IPv4 : Within(b) /\ Before(ip, b)) <=> ip # broadcastIP
  <2>1. ip # network => Before(network, ip)
    BY <1>1, <1>3
  <2>2. ip # broadcastIP => Before(ip, broadcastIP)
    BY <1>1, <1>3
  <2>3. ASSUME NEW a \in IPv4, Within(a), Before(a, network) PROVE FALSE
    <3>1. a = network \/ Before(network, a)
      BY <1>1, <2>3
    <3> QED BY <1>2, <2>3, <3>1, BeforeGoesOn, BeforeIsStrict
  <2>4. ASSUME NEW b \in IPv4, Within(b), Before(broadcastIP, b) PROVE FALSE
    <3>1. b = broadcastIP \/ Before(b, broadcastIP)
      BY <1>1, <2>4
    <3> QED BY <1>1, <2>4, <3>1, BeforeGoesOn, BeforeIsStrict
  <2> QED BY <1>1, <1>2, <2>1, <2>2, <2>3, <2>4
<1>4. \A ip \in IPv4 : ip \in Usable <=> /\ Within(ip) /\ ip # serverIP
                                         /\ \E a \in IPv4 : Within(a) /\ Before(a, ip)
                                         /\ \E b \in IPv4 : Within(b) /\ Before(ip, b)
  BY DEF Usable
<1>5. Usable \in SUBSET IPv4
  BY DEF Usable
<1>6. \A ip \in IPv4 : ip \in Usable <=> Within(ip) /\ ip \notin {network, broadcastIP, serverIP}
  BY <1>3, <1>4
<1> QED BY <1>1, <1>5, <1>6

(* Nothing of a subnet comes before its own address.                       *)
LEMMA PoolStarts == AddrInit => PoolInv
<1> SUFFICES ASSUME NEW bits \in 1..(Octets * OctetBits), NEW ip \in IPv4, NEW server \in IPv4,
                    PoolOf(bits, ip, server)
             PROVE  PoolInv
  BY DEF AddrInit
<1>1. prefix = bits /\ serverIP = server /\ available = <<>> /\ candidate = network
  BY DEF PoolOf
<1>2. network \in IPv4 /\ Masked(network, MaskOf(bits)) = network
  BY MaskedInIPv4 DEF PoolOf
<1>3. SubnetIsSet
  BY <1>1, <1>2 DEF SubnetIsSet, Within
<1>4. InPool = {}
  BY <1>1 DEF InPool
<1>5. ASSUME NEW x \in Usable, Before(x, network) PROVE FALSE
  <2>1. x \in IPv4 /\ Within(x)
    BY DEF Usable
  <2>2. x = network \/ Before(network, x)
    BY <1>3, <2>1, UsableIs
  <2> QED BY <1>2, <1>5, <2>1, <2>2, BeforeGoesOn, BeforeIsStrict
<1>6. InPool = {x \in Usable : Within(candidate) => Before(x, candidate)}
  BY <1>1, <1>3, <1>4, <1>5 DEF SubnetIsSet
<1> QED BY <1>1, <1>2, <1>3, <1>6 DEF PoolInv

(* A round of the loop passes one address.                                 *)
LEMMA RoundPasses ==
    ASSUME PoolInv, Within(candidate)
    PROVE  LET n == incrementIP(candidate)
           IN  /\ n \in IPv4
               /\ Within(n) => Before(candidate, n)
               /\ \A x \in IPv4 : Within(x) => ((Within(n) => Before(x, n)) <=> x = candidate \/ Before(x, candidate))
<1> DEFINE c == candidate
           n == incrementIP(c)
<1>0. c \in IPv4 /\ Within(c) /\ prefix \in 1..(Octets * OctetBits)
  BY DEF PoolInv, SubnetIsSet
<1>1. /\ n \in IPv4
      /\ \/ /\ Before(c, n)
            /\ \A x \in IPv4 : Before(x, n) => x = c \/ Before(x, c)
         \/ /\ \A i \in 1..Octets : c[i] = Values - 1 /\ n[i] = 0
            /\ \A x \in IPv4 : x = c \/ Before(x, c)
  BY <1>0, IncrementIsNext
<1> SUFFICES /\ Within(n) => Before(c, n)
             /\ \A x \in IPv4 : Within(x) => ((Within(n) => Before(x, n)) <=> x = c \/ Before(x, c))
  BY <1>1
<1> HIDE DEF c, n
<1>2. CASE /\ Before(c, n)
           /\ \A x \in IPv4 : Before(x, n) => x = c \/ Before(x, c)
  <2> SUFFICES ASSUME NEW x \in IPv4, Within(x)
               PROVE  (Within(n) => Before(x, n)) <=> x = c \/ Before(x, c)
    BY <1>2
  <2>1. x = c \/ Before(x, c) => Before(x, n)
    BY <1>0, <1>1, <1>2, BeforeGoesOn
  <2>2. ASSUME ~Within(n), Before(c, x) PROVE FALSE
    <3>1. x # n /\ ~Before(x, n)
      BY <1>0, <1>2, <2>2, BeforeGoesOn, BeforeIsStrict
    <3>2. Before(n, x)
      BY <1>1, <3>1, BeforeIsTotal
    <3>3. Masked(c, MaskOf(prefix)) = network /\ Masked(x, MaskOf(prefix)) = network
      BY <1>0 DEF Within
    <3>4. Masked(n, MaskOf(prefix)) = network
      BY <1>0, <1>1, <1>2, <3>2, <3>3, SubnetHasNoGap
    <3> QED BY <2>2, <3>4 DEF Within
  <2>3. x = c \/ Before(x, c) \/ Before(c, x)
    BY <1>0, BeforeIsTotal
  <2> QED BY <1>2, <2>1, <2>2, <2>3
<1>3. CASE /\ \A i \in 1..Octets : c[i] = Values - 1 /\ n[i] = 0
           /\ \A x \in IPv4 : x = c \/ Before(x, c)
  <2>1. Masked(c, MaskOf(prefix)) # Masked(n, MaskOf(prefix))
    BY <1>0, <1>1, <1>3, NoSubnetWraps
  <2>2. ~Within(n)
    BY <1>0, <2>1 DEF Within
  <2> QED BY <1>3, <2>2
<1> QED BY <1>1, <1>2, <1>3

(* The address just passed goes to the end of the pool, if it is usable.   *)
LEMMA PoolKeeps == PoolInv /\ [NewIPPool]_addrVars => PoolInv'
<1> SUFFICES ASSUME PoolInv, [NewIPPool]_addrVars PROVE PoolInv'
  OBVIOUS
<1>1. CASE NewIPPool
  <2> DEFINE c == candidate
             n == incrementIP(c)
  <2>0. /\ Within(c) /\ candidate' = n /\ prefix' = prefix /\ network' = network /\ serverIP' = serverIP
        /\ available' = IF c \in {network, broadcastIP, serverIP} THEN available ELSE Append(available, c)
    BY <1>1 DEF NewIPPool
  <2>1. /\ SubnetIsSet /\ c \in IPv4 /\ available \in Seq(IPv4)
        /\ \A i \in 2..Len(available) : Before(available[i - 1], available[i])
        /\ InPool = {ip \in Usable : Before(ip, c)}
    BY <2>0 DEF PoolInv
  <2>2. /\ n \in IPv4
        /\ \A x \in IPv4 : Within(x) => ((Within(n) => Before(x, n)) <=> x = c \/ Before(x, c))
    BY <2>0, RoundPasses
  <2> HIDE DEF c, n
  <2>3. \A x : Within(x)' <=> Within(x)
    BY <2>0 DEF Within
  <2>4. SubnetIsSet' /\ Usable' = Usable
    BY <2>0, <2>1 DEF SubnetIsSet, Usable, Within
  <2>5. \A ip \in Usable : ip \in IPv4 /\ Within(ip)
    BY DEF Usable
  <2>6. {ip \in Usable : Within(n) => Before(ip, n)} = {ip \in Usable : ip = c \/ Before(ip, c)}
    BY <2>2, <2>5
  <2>7. Within(candidate)' <=> Within(n)
    BY <2>0 DEF Within
  <2>8. c \in Usable <=> c \notin {network, broadcastIP, serverIP}
    BY <2>0, <2>1, UsableIs
  <2>9. CASE c \in {network, broadcastIP, serverIP}
    <3>1. available' = available
      BY <2>0, <2>9
    <3>2. InPool' = {ip \in Usable : ip = c \/ Before(ip, c)}
      BY <2>1, <2>8, <2>9, <3>1 DEF InPool
    <3> QED BY <2>0, <2>1, <2>2, <2>4, <2>6, <2>7, <3>1, <3>2 DEF PoolInv
  <2>10. CASE c \notin {network, broadcastIP, serverIP}
    <3>1. available' = Append(available, c)
      BY <2>0, <2>10
    <3>2. /\ available' \in Seq(IPv4) /\ Len(available') = Len(available) + 1 /\ Len(available) \in Nat
          /\ \A i \in 1..Len(available) : available'[i] = available[i]
          /\ available'[Len(available) + 1] = c
      BY <2>1, <3>1
    <3>3. InPool' = InPool \cup {c}
      BY <3>2 DEF InPool
    <3>4. InPool' = {ip \in Usable : ip = c \/ Before(ip, c)}
      BY <2>1, <2>8, <2>10, <3>3
    <3>5. ASSUME NEW i \in 2..Len(available') PROVE Before(available'[i - 1], available'[i])
      <4>1. CASE i <= Len(available)
        <5>1. i \in 2..Len(available) /\ i - 1 \in 1..Len(available) /\ i \in 1..Len(available)
          BY <3>2, <4>1
        <5> QED BY <2>1, <3>2, <5>1
      <4>2. CASE i = Len(available) + 1
        <5>1. i - 1 = Len(available) /\ Len(available) \in 1..Len(available)
          BY <3>2, <4>2
        <5>2. available[Len(available)] \in InPool
          BY <5>1 DEF InPool
        <5>3. Before(available[Len(available)], c)
          BY <2>1, <5>2
        <5> QED BY <3>2, <4>2, <5>1, <5>3
      <4> QED BY <3>2, <4>1, <4>2
    <3> QED BY <2>0, <2>2, <2>4, <2>6, <2>7, <3>2, <3>4, <3>5 DEF PoolInv
  <2> QED BY <2>9, <2>10
<1>2. CASE UNCHANGED addrVars
  BY <1>2 DEF addrVars, PoolInv, SubnetIsSet, InPool, Usable, Within
<1> QED BY <1>1, <1>2

(* NewIPPool, after any number of rounds.                                  *)
THEOREM PoolInvariant == AddrSpec => []PoolInv
<1> QED BY PoolStarts, PoolKeeps, PTL DEF AddrSpec

(* The pool that NewIPPool leaves is the usable addresses of the subnet,   *)
(* each once and in order.                                                 *)
THEOREM PoolHoldsUsable == AddrSpec => []PoolIsExact
<1>1. PoolInv => PoolIsExact
  BY DEF PoolInv, PoolIsExact
<1> QED BY <1>1, PoolInvariant, PTL

(* The loop's address rises until it has left the subnet (incrementIP), so *)
(* that no address comes up twice and the loop does end.                   *)
THEOREM LoopAdvances ==
    AddrSpec => [][Within(candidate)' => Before(candidate, candidate')]_addrVars
<1>1. PoolInv /\ [NewIPPool]_addrVars => [Within(candidate)' => Before(candidate, candidate')]_addrVars
  <2> SUFFICES ASSUME PoolInv, NewIPPool, Within(candidate)'
               PROVE  Before(candidate, candidate')
    OBVIOUS
  <2>1. Within(candidate) /\ candidate' = incrementIP(candidate) /\ Within(incrementIP(candidate))
    BY DEF NewIPPool, Within
  <2> QED BY <2>1, RoundPasses
<1> QED BY <1>1, PoolInvariant, PTL DEF AddrSpec
-----------------------------------------------------------------------------
(* Induction over the natural numbers, and down from one, as a statement   *)
(* about a set.                                                            *)
LEMMA SetInduction ==
    ASSUME NEW S, 0 \in S, \A n \in Nat : n \in S => n + 1 \in S
    PROVE  Nat \subseteq S
<1> DEFINE T == Nat \ S
<1> SUFFICES ASSUME T # {} PROVE FALSE
  OBVIOUS
<1>1. PICK m \in T : \A x \in T : m <= x
  BY LeastIs
<1>2. m # 0 /\ m - 1 \in Nat /\ m - 1 \notin T
  BY <1>1
<1>3. m - 1 \in S
  BY <1>2
<1>4. (m - 1) + 1 \in S
  BY <1>2, <1>3
<1>5. (m - 1) + 1 = m
  BY <1>1
<1> QED BY <1>4, <1>5

(* Down from n, in steps of one.                                           *)
LEMMA DownFrom ==
    ASSUME NEW n \in Nat, NEW S, n \in S, \A i \in 1..n : i \in S /\ i # 1 => i - 1 \in S
    PROVE  1..n \subseteq S
<1> DEFINE T == {k \in Nat : k < n => n - k \in S}
<1>1. 0 \in T
  OBVIOUS
<1>2. ASSUME NEW k \in Nat, k \in T PROVE k + 1 \in T
  <2> SUFFICES ASSUME k + 1 < n PROVE n - (k + 1) \in S
    OBVIOUS
  <2>1. n - k \in S /\ n - k \in 1..n /\ n - k # 1
    BY <1>2
  <2>2. (n - k) - 1 \in S
    BY <2>1
  <2> QED BY <2>2
<1> HIDE DEF T
<1>3. Nat \subseteq T
  BY <1>1, <1>2, SetInduction
<1>4. ASSUME NEW i \in 1..n PROVE i \in S
  <2>1. n - i \in Nat /\ n - i < n /\ n - (n - i) = i
    OBVIOUS
  <2> QED BY <1>3, <2>1 DEF T
<1> QED BY <1>4

(* G[i][f] depends only on what f is above i, ...                          *)
LooksAhead(n, V, G) ==
    \A i \in 1..n : \A f, g \in [1..n -> V] :
        /\ G[i][f] \in V
        /\ (\A j \in (i + 1)..n : f[j] = g[j]) => G[i][f] = G[i][g]

Solved(n, V, G) == \E f \in [1..n -> V] : \A i \in 1..n : f[i] = G[i][f]

(* ... and so defines a function on 1..n.                                  *)
LEMMA DefinedFromTheEnd ==
    ASSUME NEW n \in Nat, NEW V, V # {}, NEW G, LooksAhead(n, V, G)
    PROVE  Solved(n, V, G)
<1> USE DEF LooksAhead, Solved
<1> DEFINE Fits(f, k) == \A i \in 1..n : i > n - k => f[i] = G[i][f]
           T == {k \in Nat : \E f \in [1..n -> V] : Fits(f, k)}
<1>1. 0 \in T
  <2> PICK v \in V : TRUE
    OBVIOUS
  <2>1. [i \in 1..n |-> v] \in [1..n -> V] /\ Fits([i \in 1..n |-> v], 0)
    OBVIOUS
  <2> QED BY <2>1
<1>2. ASSUME NEW k \in Nat, k \in T PROVE k + 1 \in T
  <2>1. PICK f \in [1..n -> V] : Fits(f, k)
    BY <1>2
  <2> DEFINE m == n - k
  <2>2. CASE m \notin 1..n
    <3>1. Fits(f, k + 1)
      BY <2>1, <2>2
    <3> QED BY <3>1
  <2>3. CASE m \in 1..n
    <3> DEFINE g == [i \in 1..n |-> IF i = m THEN G[m][f] ELSE f[i]]
    <3>1. g \in [1..n -> V]
      BY <2>3
    <3>2. ASSUME NEW i \in 1..n, i >= m PROVE g[i] = G[i][g]
      <4>1. \A j \in (i + 1)..n : f[j] = g[j]
        BY <3>2, <2>3
      <4>2. G[i][f] = G[i][g]
        BY <3>1, <4>1
      <4>3. ASSUME i # m PROVE f[i] = G[i][f]
        <5>1. i > n - k
          BY <3>2, <4>3
        <5> QED BY <2>1, <5>1
      <4> QED BY <4>2, <4>3
    <3> HIDE DEF g
    <3>3. Fits(g, k + 1)
      BY <3>2, <2>3
    <3> QED BY <3>1, <3>3
  <2> QED BY <2>2, <2>3
<1> HIDE DEF T
<1>3. n \in T
  BY <1>1, <1>2, SetInduction
<1>4. PICK f \in [1..n -> V] : Fits(f, n)
  BY <1>3 DEF T
<1> QED BY <1>4
-----------------------------------------------------------------------------
Piece(s, sep, f, i) ==
    LET ends == {j \in i..Len(s) : s[j] = sep}
    IN  IF ends = {} THEN << SubSeq(s, i, Len(s)) >>
        ELSE << SubSeq(s, i, Min(ends) - 1) >> \o f[Min(ends) + 1]

(* What splitByte makes of the text from each place on (mobile.go:         *)
(* splitByte).                                                             *)
LEMMA SplitIs ==
    ASSUME NEW C, NEW s \in Seq(C), NEW sep
    PROVE  \E f : /\ splitByte(s, sep) = f[1]
                  /\ \A i \in 1..(Len(s) + 1) : f[i] = Piece(s, sep, f, i)
<1> DEFINE n == Len(s) + 1
           V == Seq(Seq(C))
           G == [i \in 1..n |-> [f \in [1..n -> V] |-> Piece(s, sep, f, i)]]
<1>1. n \in Nat /\ <<>> \in V
  OBVIOUS
<1>2. ASSUME NEW i \in 1..n, {j \in i..Len(s) : s[j] = sep} # {}
      PROVE  Min({j \in i..Len(s) : s[j] = sep}) \in i..Len(s)
  <2> DEFINE S == {j \in i..Len(s) : s[j] = sep}
  <2>1. S \in SUBSET Nat /\ S \in SUBSET Int /\ S # {} /\ S \subseteq i..Len(s)
    BY <1>2
  <2> HIDE DEF S
  <2>2. PICK m \in S : \A x \in S : m <= x
    BY <2>1, LeastIs
  <2>3. Min(S) = m
    BY <2>1, <2>2, MinIs
  <2> QED BY <2>1, <2>3 DEF S
<1>3. \A i \in 1..n : \A f \in [1..n -> V] : G[i][f] \in V
  <2> SUFFICES ASSUME NEW i \in 1..n, NEW f \in [1..n -> V] PROVE Piece(s, sep, f, i) \in V
    OBVIOUS
  <2> DEFINE ends == {j \in i..Len(s) : s[j] = sep}
  <2>1. ASSUME NEW a \in 1..n, NEW b \in 0..Len(s) PROVE << SubSeq(s, a, b) >> \in V
    <3>1. SubSeq(s, a, b) \in Seq(C)
      OBVIOUS
    <3> QED BY <3>1
  <2>2. CASE ends = {}
    BY <2>1, <2>2 DEF Piece
  <2>3. CASE ends # {}
    <3>1. Min(ends) \in i..Len(s)
      BY <1>2, <2>3
    <3>2. << SubSeq(s, i, Min(ends) - 1) >> \in V /\ f[Min(ends) + 1] \in V
      <4> DEFINE m == Min(ends)
      <4> HIDE DEF m
      <4>1. m \in i..Len(s) /\ m - 1 \in 0..Len(s) /\ m + 1 \in 1..n
        BY <3>1 DEF m
      <4>2. << SubSeq(s, i, m - 1) >> \in V /\ f[m + 1] \in V
        BY <2>1, <4>1
      <4> QED BY <4>2 DEF m
    <3>3. Piece(s, sep, f, i) = << SubSeq(s, i, Min(ends) - 1) >> \o f[Min(ends) + 1]
      BY <2>3 DEF Piece
    <3> HIDE DEF ends
    <3> QED BY <3>2, <3>3
  <2> QED BY <2>2, <2>3
<1>4. \A i \in 1..n : \A f, g \in [1..n -> V] : (\A j \in (i + 1)..n : f[j] = g[j]) => G[i][f] = G[i][g]
  <2> SUFFICES ASSUME NEW i \in 1..n, NEW f \in [1..n -> V], NEW g \in [1..n -> V],
                      \A j \in (i + 1)..n : f[j] = g[j]
               PROVE  Piece(s, sep, f, i) = Piece(s, sep, g, i)
    OBVIOUS
  <2> DEFINE ends == {j \in i..Len(s) : s[j] = sep}
  <2>1. ends # {} => f[Min(ends) + 1] = g[Min(ends) + 1]
    <3> DEFINE m == Min(ends)
    <3>1. ends # {} => m \in i..Len(s)
      BY <1>2
    <3> HIDE DEF m, ends
    <3>2. ends # {} => f[m + 1] = g[m + 1]
      <4>1. ASSUME ends # {} PROVE m + 1 \in (i + 1)..n
        BY <3>1, <4>1
      <4> HIDE DEF n
      <4> QED BY <4>1
    <3> QED BY <3>2 DEF m, ends
  <2> QED BY <2>1 DEF Piece
<1>5. \E f \in [1..n -> V] : \A i \in 1..n : f[i] = G[i][f]
  <2>1. V # {}
    BY <1>1
  <2>2. LooksAhead(n, V, G)
    BY <1>3, <1>4, Zenon DEF LooksAhead
  <2> HIDE DEF G, V, n
  <2>3. Solved(n, V, G)
    BY <1>1, <2>1, <2>2, DefinedFromTheEnd
  <2> QED BY <2>3 DEF Solved
<1> DEFINE from[i \in 1..n] ==
             LET ends == {j \in i..Len(s) : s[j] = sep}
             IN  IF ends = {} THEN << SubSeq(s, i, Len(s)) >>
                 ELSE << SubSeq(s, i, Min(ends) - 1) >> \o from[Min(ends) + 1]
<1>6. from = [i \in 1..n |-> Piece(s, sep, from, i)]
  <2>1. PICK f \in [1..n -> V] : \A i \in 1..n : f[i] = Piece(s, sep, f, i)
    BY <1>5
  <2>2. f = [i \in 1..n |-> Piece(s, sep, f, i)]
    BY <2>1
  <2> QED BY <2>2 DEF Piece
<1>7. splitByte(s, sep) = from[1]
  BY DEF splitByte
<1> HIDE DEF from
<1>8. \A i \in 1..n : from[i] = Piece(s, sep, from, i)
  BY <1>6
<1> QED BY <1>7, <1>8
(* What is joined of one and one, and of one and two.                      *)
LEMMA JoinsToTwo == ASSUME NEW a, NEW b PROVE <<a>> \o <<b>> = <<a, b>>
<1> DEFINE S == {a, b}
<1>1. <<a>> \in Seq(S) /\ <<b>> \in Seq(S) /\ <<a, b>> \in Seq(S)
  OBVIOUS
<1>2. /\ <<a>> \o <<b>> \in Seq(S)
      /\ Len(<<a>> \o <<b>>) = Len(<<a>>) + Len(<<b>>)
      /\ \A i \in 1..(Len(<<a>>) + Len(<<b>>)) :
            (<<a>> \o <<b>>)[i] = IF i <= Len(<<a>>) THEN <<a>>[i] ELSE <<b>>[i - Len(<<a>>)]
  <2> HIDE DEF S
  <2> QED BY <1>1, ConcatProperties
<1>3. \A i \in 1..2 : (<<a>> \o <<b>>)[i] = <<a, b>>[i]
  <2>1. (<<a>> \o <<b>>)[1] = a /\ (<<a>> \o <<b>>)[2] = b
    BY <1>2
  <2>2. \A i \in 1..2 : i = 1 \/ i = 2
    OBVIOUS
  <2> QED BY <2>1, <2>2
<1> QED
  <2>1. Len(<<a>> \o <<b>>) = 2 /\ Len(<<a, b>>) = 2
    BY <1>2
  <2> HIDE DEF S
  <2> QED BY <1>1, <1>2, <1>3, <2>1, SeqEqual

(* One and two make three.                                                 *)
LEMMA JoinsToThree == ASSUME NEW a, NEW b, NEW c PROVE <<a>> \o <<b, c>> = <<a, b, c>>
<1> DEFINE S == {a, b, c}
<1>1. <<a>> \in Seq(S) /\ <<b, c>> \in Seq(S) /\ <<a, b, c>> \in Seq(S)
  OBVIOUS
<1>2. /\ <<a>> \o <<b, c>> \in Seq(S)
      /\ Len(<<a>> \o <<b, c>>) = Len(<<a>>) + Len(<<b, c>>)
      /\ \A i \in 1..(Len(<<a>>) + Len(<<b, c>>)) :
            (<<a>> \o <<b, c>>)[i] = IF i <= Len(<<a>>) THEN <<a>>[i] ELSE <<b, c>>[i - Len(<<a>>)]
  <2> HIDE DEF S
  <2> QED BY <1>1, ConcatProperties
<1>3. \A i \in 1..3 : (<<a>> \o <<b, c>>)[i] = <<a, b, c>>[i]
  BY <1>2
<1> QED
  <2>1. Len(<<a>> \o <<b, c>>) = 3 /\ Len(<<a, b, c>>) = 3
    BY <1>2
  <2> HIDE DEF S
  <2> QED BY <1>1, <1>2, <1>3, <2>1, SeqEqual

(* A text without the separator is one piece, ...                          *)
LEMMA SplitsIntoOne ==
    ASSUME NEW C, NEW s \in Seq(C), NEW sep, \A j \in 1..Len(s) : s[j] # sep
    PROVE  splitByte(s, sep) = <<s>>
<1>1. PICK f : /\ splitByte(s, sep) = f[1]
               /\ \A i \in 1..(Len(s) + 1) : f[i] = Piece(s, sep, f, i)
  BY SplitIs
<1>2. f[1] = Piece(s, sep, f, 1)
  BY <1>1
<1>3. {j \in 1..Len(s) : s[j] = sep} = {}
  OBVIOUS
<1>4. SubSeq(s, 1, Len(s)) = s
  OBVIOUS
<1> QED BY <1>1, <1>2, <1>3, <1>4 DEF Piece

(* ... and one with the separator once is two.                             *)
LEMMA SplitsIntoTwo ==
    ASSUME NEW C, NEW a \in Seq(C), NEW b \in Seq(C), NEW sep \in C,
           \A j \in 1..Len(a) : a[j] # sep, \A j \in 1..Len(b) : b[j] # sep
    PROVE  splitByte(a \o <<sep>> \o b, sep) = <<a, b>>
<1> DEFINE s == a \o <<sep>> \o b
           at == Len(a) + 1
<1>1. /\ s \in Seq(C) /\ Len(s) = Len(a) + 1 + Len(b)
      /\ \A j \in 1..Len(a) : s[j] = a[j]
      /\ s[at] = sep
      /\ \A j \in 1..Len(b) : s[at + j] = b[j]
  OBVIOUS
<1>2. SubSeq(s, 1, at - 1) = a
  OBVIOUS
<1>3. SubSeq(s, at + 1, Len(s)) = b
  OBVIOUS
<1> HIDE DEF s
<1>4. PICK f : /\ splitByte(s, sep) = f[1]
               /\ \A i \in 1..(Len(s) + 1) : f[i] = Piece(s, sep, f, i)
  BY <1>1, SplitIs
<1>5. {j \in 1..Len(s) : s[j] = sep} = {at}
  <2>1. ASSUME NEW j \in 1..Len(s), s[j] = sep PROVE j = at
    <3>1. CASE j < at
      BY <1>1, <2>1, <3>1
    <3>2. CASE j > at
      <4>1. j - at \in 1..Len(b) /\ at + (j - at) = j
        BY <1>1, <3>2
      <4>2. s[j] = b[j - at]
        BY <1>1, <4>1
      <4> QED BY <2>1, <4>1, <4>2
    <3> QED BY <3>1, <3>2
  <2> QED BY <1>1, <2>1
<1>6. {j \in (at + 1)..Len(s) : s[j] = sep} = {}
  BY <1>5
<1>7. Min({at}) = at
  BY MinIs
<1>8. f[1] = << SubSeq(s, 1, at - 1) >> \o f[at + 1]
  <2>1. f[1] = Piece(s, sep, f, 1)
    BY <1>1, <1>4
  <2> QED BY <1>5, <1>7, <2>1 DEF Piece
<1>9. f[at + 1] = << SubSeq(s, at + 1, Len(s)) >>
  <2>1. f[at + 1] = Piece(s, sep, f, at + 1)
    BY <1>1, <1>4
  <2> QED BY <1>6, <2>1 DEF Piece
<1>10. f[1] = << a, b >>
  BY <1>2, <1>3, <1>8, <1>9, JoinsToTwo
<1>11. splitByte(s, sep) = << a, b >>
  BY <1>4, <1>10
<1> QED BY <1>11 DEF s
-----------------------------------------------------------------------------
(* The characters of an escape.                                            *)
EscapeMarks == {"%", "2", "3", "5", "6", "A", "B", "D"}

(* A character's escape, or the character.                                 *)
Unit(c) == IF c \in DOMAIN Hex THEN <<"%">> \o Hex[c] ELSE <<c>>

(* The characters that are escaped, and their two digits, ...              *)
LEMMA HexIs == /\ DOMAIN Hex = {":", "=", "&", "+", "%"}
               /\ Hex[":"] = <<"3", "A">> /\ Hex["="] = <<"3", "D">> /\ Hex["&"] = <<"2", "6">>
               /\ Hex["+"] = <<"2", "B">> /\ Hex["%"] = <<"2", "5">>
BY DEF Hex

Character(g, h) == CHOOSE c \in DOMAIN Hex : Hex[c] = <<g, h>>

(* The two digits of an escape tell its character.                         *)
LEMMA HexIsRead == ASSUME NEW c \in DOMAIN Hex
                   PROVE  \E g, h \in EscapeMarks \ {"%"} : Hex[c] = <<g, h>> /\ Character(g, h) = c
<1>1. \E g, h \in EscapeMarks \ {"%"} : Hex[c] = <<g, h>>
  BY HexIs DEF EscapeMarks
<1>2. \A b \in DOMAIN Hex : Hex[b] = Hex[c] => b = c
  BY HexIs
<1>3. PICK g \in EscapeMarks \ {"%"}, h \in EscapeMarks \ {"%"} : Hex[c] = <<g, h>>
  BY <1>1
<1>4. Character(g, h) = c
  BY <1>2, <1>3 DEF Character
<1> QED BY <1>3, <1>4

(* What each character of a text is escaped to.                            *)
LEMMA UnitIs ==
    ASSUME NEW C, EscapeMarks \subseteq C, NEW c \in C
    PROVE  /\ Unit(c) \in Seq(C \ {"&", "="})
           /\ c \in DOMAIN Hex => \E g, h \in C : Unit(c) = <<"%", g, h>> /\ Character(g, h) = c
           /\ c \notin DOMAIN Hex => Unit(c) = <<c>>
<1>1. CASE c \in DOMAIN Hex
  <2>1. PICK g \in EscapeMarks \ {"%"}, h \in EscapeMarks \ {"%"} : Hex[c] = <<g, h>> /\ Character(g, h) = c
    BY <1>1, HexIsRead
  <2>2. Unit(c) = <<"%", g, h>>
    BY <1>1, <2>1, JoinsToThree DEF Unit
  <2>3. {"%", g, h} \subseteq C \ {"&", "="}
    BY <2>1 DEF EscapeMarks
  <2>4. <<"%", g, h>> \in Seq(C \ {"&", "="})
    BY <2>3
  <2>5. g \in C /\ h \in C /\ Character(g, h) = c
    BY <2>1, <2>3
  <2> QED BY <1>1, <2>2, <2>4, <2>5
<1>2. CASE c \notin DOMAIN Hex
  <2>1. Unit(c) = <<c>>
    BY <1>2 DEF Unit
  <2>2. c \in C \ {"&", "="}
    BY <1>2, HexIs
  <2> QED BY <1>2, <2>1, <2>2
<1> QED BY <1>1, <1>2

EscapedRest(s, f, i) == IF i > Len(s) THEN <<>> ELSE Unit(s[i]) \o f[i + 1]

EscapeOf(C, s, e) ==
    /\ e \in [1..(Len(s) + 1) -> Seq(C \ {"&", "="})]
    /\ Escaped(s) = e[1]
    /\ e[Len(s) + 1] = <<>>
    /\ \A i \in 1..Len(s) : e[i] = Unit(s[i]) \o e[i + 1]

(* A text is escaped character by character, without separators.           *)
LEMMA EscapedIs ==
    ASSUME NEW C, EscapeMarks \subseteq C, NEW s \in Seq(C)
    PROVE  \E e : EscapeOf(C, s, e)
<1> DEFINE n == Len(s) + 1
           V == Seq(C \ {"&", "="})
           G == [i \in 1..n |-> [f \in [1..n -> V] |-> EscapedRest(s, f, i)]]
<1>1. n \in Nat \ {0} /\ V # {} /\ \A i \in 1..n : i > Len(s) <=> i = n
  <2>1. V # {}
    <3>1. <<>> \in V
      OBVIOUS
    <3> QED BY <3>1
  <2>2. n \in Nat \ {0} /\ \A i \in 1..n : i > Len(s) <=> i = n
    OBVIOUS
  <2> QED BY <2>1, <2>2
<1>2. ASSUME NEW i \in 1..n, NEW f \in [1..n -> V] PROVE EscapedRest(s, f, i) \in V
  <2>1. CASE i = n
    BY <1>1, <2>1 DEF EscapedRest
  <2>2. CASE i # n
    <3>1. s[i] \in C /\ f[i + 1] \in V
      BY <2>2
    <3>2. Unit(s[i]) \in V
      BY <3>1, UnitIs
    <3>3. Unit(s[i]) \o f[i + 1] \in V
      BY <3>1, <3>2
    <3> QED BY <1>1, <2>2, <3>3 DEF EscapedRest
  <2> QED BY <2>1, <2>2
<1>3. ASSUME NEW i \in 1..n, NEW f \in [1..n -> V], NEW g \in [1..n -> V],
             \A j \in (i + 1)..n : f[j] = g[j]
      PROVE  EscapedRest(s, f, i) = EscapedRest(s, g, i)
  BY <1>3 DEF EscapedRest
<1>4. \E f \in [1..n -> V] : \A i \in 1..n : f[i] = EscapedRest(s, f, i)
  <2>1. LooksAhead(n, V, G)
    <3> SUFFICES ASSUME NEW i \in 1..n, NEW f \in [1..n -> V], NEW g \in [1..n -> V]
                 PROVE  /\ G[i][f] \in V
                        /\ (\A j \in (i + 1)..n : f[j] = g[j]) => G[i][f] = G[i][g]
      BY DEF LooksAhead
    <3>1. G[i][f] = EscapedRest(s, f, i) /\ G[i][g] = EscapedRest(s, g, i)
      OBVIOUS
    <3> HIDE DEF G, V
    <3> QED BY <1>2, <1>3, <3>1
  <2>2. Solved(n, V, G)
    <3> HIDE DEF G, V, n
    <3> QED BY <1>1, <2>1, DefinedFromTheEnd
  <2>3. PICK f \in [1..n -> V] : \A i \in 1..n : f[i] = G[i][f]
    BY <2>2 DEF Solved
  <2>4. \A i \in 1..n : f[i] = EscapedRest(s, f, i)
    BY <2>3
  <2> QED BY <2>4
<1> DEFINE from[i \in 1..n] ==
             IF i > Len(s) THEN <<>>
             ELSE (IF s[i] \in DOMAIN Hex THEN <<"%">> \o Hex[s[i]] ELSE <<s[i]>>) \o from[i + 1]
<1>5. from = [i \in 1..n |-> EscapedRest(s, from, i)]
  <2>1. PICK f \in [1..n -> V] : \A i \in 1..n : f[i] = EscapedRest(s, f, i)
    BY <1>4
  <2>2. f = [i \in 1..n |-> EscapedRest(s, f, i)]
    BY <2>1
  <2> QED BY <2>2 DEF EscapedRest, Unit
<1>6. Escaped(s) = from[1]
  BY DEF Escaped
<1> HIDE DEF from
<1>7. from[n] = <<>> /\ \A i \in 1..Len(s) : from[i] = Unit(s[i]) \o from[i + 1]
  <2>1. \A i \in 1..n : from[i] = EscapedRest(s, from, i)
    BY <1>5
  <2>2. from[n] = <<>>
    <3> HIDE DEF n
    <3> QED BY <1>1, <2>1 DEF EscapedRest
  <2>3. ASSUME NEW i \in 1..Len(s) PROVE from[i] = Unit(s[i]) \o from[i + 1]
    <3>1. i \in 1..n /\ ~ (i > Len(s))
      OBVIOUS
    <3> HIDE DEF n
    <3> QED BY <2>1, <3>1 DEF EscapedRest
  <2> QED BY <2>2, <2>3
<1>8. \A i \in 1..n : from[i] \in V
  <2> DEFINE S == {i \in 1..n : from[i] \in V}
  <2>1. n \in S
    <3>1. <<>> \in V /\ n \in 1..n
      BY <1>1
    <3> HIDE DEF n, V
    <3> QED BY <1>7, <3>1
  <2>2. ASSUME NEW i \in 1..n, i \in S, i # 1 PROVE i - 1 \in S
    <3>1. i - 1 \in 1..Len(s) /\ (i - 1) + 1 = i /\ s[i - 1] \in C
      BY <2>2
    <3>2. from[i - 1] = Unit(s[i - 1]) \o from[i]
      BY <1>7, <3>1
    <3>3. Unit(s[i - 1]) \in V
      BY <3>1, UnitIs
    <3>4. Unit(s[i - 1]) \o from[i] \in V
      BY <2>2, <3>3
    <3> QED
      <4>1. i - 1 \in 1..n
        BY <3>1
      <4> HIDE DEF n, V
      <4> QED BY <3>2, <3>4, <4>1
  <2> HIDE DEF S
  <2>3. 1..n \subseteq S
    BY <1>1, <2>1, <2>2, DownFrom
  <2> QED BY <2>3 DEF S
<1>9. from \in [1..n -> V]
  BY <1>5, <1>8
<1>10. EscapeOf(C, s, from)
  BY <1>6, <1>7, <1>9 DEF EscapeOf
<1> QED BY <1>10
-----------------------------------------------------------------------------
Spaced(c) == IF c = "+" THEN " " ELSE c

(* What the decoder makes of the text from i on, by what it makes of the   *)
(* places further on.                                                      *)
DecodedRest(s, f, i) ==
    IF i > Len(s) THEN <<>>
    ELSE IF s[i] = "%" /\ i + 2 <= Len(s) THEN << Character(s[i + 1], s[i + 2]) >> \o f[i + 3]
    ELSE << Spaced(s[i]) >> \o f[i + 1]

(* What pctDecode makes of the text from each place on (mobile.go:         *)
(* pctDecode).                                                             *)
LEMMA DecodedIs ==
    ASSUME NEW C, NEW s \in Seq(C)
    PROVE  \E f : /\ pctDecode(s) = f[1]
                  /\ \A i \in 1..(Len(s) + 1) : f[i] = DecodedRest(s, f, i)
<1>0. PICK D : C \cup {" "} \subseteq D /\ \A g, h \in C : Character(g, h) \in D
  <2> DEFINE E == {Character(p[1], p[2]) : p \in C \X C}
  <2>1. ASSUME NEW g \in C, NEW h \in C PROVE Character(g, h) \in E
    <3>1. <<g, h>> \in C \X C /\ <<g, h>>[1] = g /\ <<g, h>>[2] = h
      OBVIOUS
    <3> QED BY <3>1
  <2> HIDE DEF E
  <2>2. C \cup {" "} \subseteq C \cup {" "} \cup E /\ \A g, h \in C : Character(g, h) \in C \cup {" "} \cup E
    BY <2>1
  <2> QED BY <2>2
<1> DEFINE n == Len(s) + 1
           V == Seq(D)
           G == [i \in 1..n |-> [f \in [1..n -> V] |-> DecodedRest(s, f, i)]]
<1>1. n \in Nat \ {0} /\ V # {}
  <2>1. <<>> \in V
    OBVIOUS
  <2>2. V # {}
    BY <2>1
  <2>3. n \in Nat \ {0}
    OBVIOUS
  <2> QED BY <2>2, <2>3
<1>2. ASSUME NEW i \in 1..n, NEW f \in [1..n -> V] PROVE DecodedRest(s, f, i) \in V
  <2>1. CASE i > Len(s)
    <3>1. DecodedRest(s, f, i) = <<>>
      BY <2>1 DEF DecodedRest
    <3> QED BY <3>1
  <2>2. CASE i <= Len(s) /\ s[i] = "%" /\ i + 2 <= Len(s)
    <3>1. s[i + 1] \in C /\ s[i + 2] \in C /\ f[i + 3] \in V
      BY <2>2
    <3>2. Character(s[i + 1], s[i + 2]) \in D
      BY <1>0, <3>1
    <3>3. DecodedRest(s, f, i) = << Character(s[i + 1], s[i + 2]) >> \o f[i + 3]
      BY <2>2 DEF DecodedRest
    <3> QED BY <3>1, <3>2, <3>3
  <2>3. CASE i <= Len(s) /\ ~ (s[i] = "%" /\ i + 2 <= Len(s))
    <3>1. Spaced(s[i]) \in D /\ f[i + 1] \in V
      <4>1. s[i] \in C /\ f[i + 1] \in V
        BY <2>3
      <4>2. s[i] \in D /\ " " \in D
        BY <1>0, <4>1
      <4> QED BY <4>1, <4>2 DEF Spaced
    <3>2. DecodedRest(s, f, i) = << Spaced(s[i]) >> \o f[i + 1]
      BY <2>3 DEF DecodedRest
    <3> QED BY <3>1, <3>2
  <2> QED BY <2>1, <2>2, <2>3
<1>3. ASSUME NEW i \in 1..n, NEW f \in [1..n -> V], NEW g \in [1..n -> V],
             \A j \in (i + 1)..n : f[j] = g[j]
      PROVE  DecodedRest(s, f, i) = DecodedRest(s, g, i)
  <2>1. i <= Len(s) => f[i + 1] = g[i + 1]
    BY <1>3
  <2>2. i + 2 <= Len(s) => f[i + 3] = g[i + 3]
    BY <1>3
  <2> QED BY <2>1, <2>2 DEF DecodedRest
<1>4. \E f \in [1..n -> V] : \A i \in 1..n : f[i] = DecodedRest(s, f, i)
  <2>1. LooksAhead(n, V, G)
    <3> SUFFICES ASSUME NEW i \in 1..n, NEW f \in [1..n -> V], NEW g \in [1..n -> V]
                 PROVE  /\ G[i][f] \in V
                        /\ (\A j \in (i + 1)..n : f[j] = g[j]) => G[i][f] = G[i][g]
      BY DEF LooksAhead
    <3>1. G[i][f] = DecodedRest(s, f, i) /\ G[i][g] = DecodedRest(s, g, i)
      OBVIOUS
    <3> HIDE DEF G, V
    <3> QED BY <1>2, <1>3, <3>1
  <2>2. Solved(n, V, G)
    <3> HIDE DEF G, V, n
    <3> QED BY <1>1, <2>1, DefinedFromTheEnd
  <2>3. PICK f \in [1..n -> V] : \A i \in 1..n : f[i] = G[i][f]
    BY <2>2 DEF Solved
  <2>4. \A i \in 1..n : f[i] = DecodedRest(s, f, i)
    BY <2>3
  <2> QED BY <2>4
<1> DEFINE from[i \in 1..n] ==
             IF i > Len(s) THEN <<>>
             ELSE IF s[i] = "%" /\ i + 2 <= Len(s)
                  THEN << CHOOSE c \in DOMAIN Hex : Hex[c] = <<s[i + 1], s[i + 2]>> >> \o from[i + 1 + 2]
             ELSE << IF s[i] = "+" THEN " " ELSE s[i] >> \o from[i + 1]
<1>5. from = [i \in 1..n |-> IF i > Len(s) THEN <<>>
             ELSE IF s[i] = "%" /\ i + 2 <= Len(s)
                  THEN << CHOOSE c \in DOMAIN Hex : Hex[c] = <<s[i + 1], s[i + 2]>> >> \o from[i + 1 + 2]
             ELSE << IF s[i] = "+" THEN " " ELSE s[i] >> \o from[i + 1]]
  <2>1. PICK f \in [1..n -> V] : \A i \in 1..n : f[i] = DecodedRest(s, f, i)
    BY <1>4
  <2>2. \A i \in 1..n : i + 1 + 2 = i + 3
    OBVIOUS
  <2>3. f = [i \in 1..n |-> IF i > Len(s) THEN <<>>
             ELSE IF s[i] = "%" /\ i + 2 <= Len(s)
                  THEN << CHOOSE c \in DOMAIN Hex : Hex[c] = <<s[i + 1], s[i + 2]>> >> \o f[i + 1 + 2]
             ELSE << IF s[i] = "+" THEN " " ELSE s[i] >> \o f[i + 1]]
    BY <2>1, <2>2 DEF DecodedRest, Character, Spaced
  <2> QED BY <2>3
<1>6. pctDecode(s) = from[1]
  BY DEF pctDecode, Decoded
<1> HIDE DEF from
<1>7. \A i \in 1..n : from[i] = DecodedRest(s, from, i)
  <2>1. \A i \in 1..n : i + 1 + 2 = i + 3
    OBVIOUS
  <2> QED BY <1>5, <2>1 DEF DecodedRest, Character, Spaced
<1> QED BY <1>6, <1>7

(* What follows a place, and the character there.                          *)
LEMMA OneMore == ASSUME NEW C, NEW s \in Seq(C), NEW i \in 1..Len(s)
                 PROVE  <<s[i]>> \o SubSeq(s, i + 1, Len(s)) = SubSeq(s, i, Len(s))
<1>1. Len(s) \in i..Len(s)
  OBVIOUS
<1> QED BY <1>1, SubSeqRecursiveFirst

(* A text without escapes is read as it is.                                *)
LEMMA PlainIsRead ==
    ASSUME NEW C, NEW s \in Seq(C), \A i \in 1..Len(s) : s[i] \notin {"%", "+"}
    PROVE  pctDecode(s) = s
<1> DEFINE n == Len(s) + 1
<1>1. PICK f : /\ pctDecode(s) = f[1]
               /\ \A i \in 1..n : f[i] = DecodedRest(s, f, i)
  BY DecodedIs
<1> DEFINE S == {i \in 1..n : f[i] = SubSeq(s, i, Len(s))}
<1>2. n \in S
  <2>1. f[n] = <<>>
    <3>1. n \in 1..n /\ n > Len(s)
      OBVIOUS
    <3> QED BY <1>1, <3>1 DEF DecodedRest
  <2>2. SubSeq(s, n, Len(s)) = <<>>
    BY SubSeqEmpty
  <2>3. n \in 1..n
    OBVIOUS
  <2> HIDE DEF n
  <2> QED BY <2>1, <2>2, <2>3
<1>3. ASSUME NEW i \in 1..n, i \in S, i # 1 PROVE i - 1 \in S
  <2>1. i - 1 \in 1..Len(s) /\ (i - 1) + 1 = i
    BY <1>3
  <2>2. f[i - 1] = << s[i - 1] >> \o f[i]
    <3>1. s[i - 1] # "%" /\ s[i - 1] # "+"
      BY <2>1
    <3>2. f[i - 1] = DecodedRest(s, f, i - 1)
      BY <1>1, <2>1
    <3> QED BY <2>1, <3>1, <3>2 DEF DecodedRest, Spaced
  <2>3. << s[i - 1] >> \o SubSeq(s, i, Len(s)) = SubSeq(s, i - 1, Len(s))
    BY <2>1, OneMore
  <2> QED BY <1>3, <2>1, <2>2, <2>3
<1> HIDE DEF S
<1>4. 1 \in S
  <2>1. n \in Nat /\ 1 \in 1..n
    OBVIOUS
  <2> HIDE DEF n
  <2> QED BY <1>2, <1>3, <2>1, DownFrom
<1>5. f[1] = SubSeq(s, 1, Len(s))
  BY <1>4 DEF S
<1> QED BY <1>1, <1>5, SubSeqFull

Ends(t, r) == Len(r) <= Len(t) /\ \A k \in 1..Len(r) : t[Len(t) - Len(r) + k] = r[k]

(* What ends with two texts ends with the second.                          *)
LEMMA EndsWithLast ==
    ASSUME NEW D, NEW t \in Seq(D), NEW u \in Seq(D), NEW r \in Seq(D), Ends(t, u \o r)
    PROVE  Ends(t, r)
<1>1. Len(u) \in Nat /\ Len(r) \in Nat /\ Len(t) \in Nat
  BY LenProperties
<1>2. /\ Len(u \o r) = Len(u) + Len(r)
      /\ \A j \in 1..(Len(u) + Len(r)) : (u \o r)[j] = IF j <= Len(u) THEN u[j] ELSE r[j - Len(u)]
  BY ConcatProperties
<1>3. ASSUME NEW j \in 1..Len(r) PROVE t[Len(t) - Len(r) + j] = r[j]
  <2>1. /\ Len(u) + j \in 1..(Len(u) + Len(r)) /\ ~ (Len(u) + j <= Len(u)) /\ (Len(u) + j) - Len(u) = j
        /\ Len(t) - Len(u \o r) + (Len(u) + j) = Len(t) - Len(r) + j
    BY <1>1, <1>2
  <2>2. t[Len(t) - Len(u \o r) + (Len(u) + j)] = (u \o r)[Len(u) + j]
    BY <1>2, <2>1 DEF Ends
  <2> QED BY <1>2, <2>1, <2>2
<1>4. Len(r) <= Len(t)
  BY <1>1, <1>2 DEF Ends
<1> QED BY <1>3, <1>4 DEF Ends

(* So the whole escaped text ends with each of its rests.                  *)
LEMMA RestIsThere ==
    ASSUME NEW n \in Nat, NEW D, NEW e \in [1..n -> Seq(D)],
           \A i \in 1..n : i # n => \E u \in Seq(D) : e[i] = u \o e[i + 1],
           NEW m \in 1..n
    PROVE  Ends(e[1], e[m])
<1> DEFINE T == {k \in Nat : k < n => Ends(e[1], e[k + 1])}
<1>1. 0 \in T
  BY DEF Ends
<1>2. ASSUME NEW k \in Nat, k \in T PROVE k + 1 \in T
  <2> SUFFICES ASSUME k + 1 < n PROVE Ends(e[1], e[(k + 1) + 1])
    OBVIOUS
  <2>1. k + 1 \in 1..n /\ k + 1 # n /\ (k + 1) + 1 \in 1..n /\ k < n /\ 1 \in 1..n
    OBVIOUS
  <2>2. PICK u \in Seq(D) : e[k + 1] = u \o e[(k + 1) + 1]
    BY <2>1
  <2>3. Ends(e[1], e[k + 1]) /\ e[1] \in Seq(D) /\ e[(k + 1) + 1] \in Seq(D)
    BY <1>2, <2>1
  <2> QED BY <2>2, <2>3, EndsWithLast
<1> HIDE DEF T
<1>3. m - 1 \in T /\ m - 1 < n /\ (m - 1) + 1 = m
  <2>1. Nat \subseteq T
    BY <1>1, <1>2, SetInduction
  <2> QED BY <2>1
<1> QED BY <1>3 DEF T

(* What was escaped is read as it was.                                     *)
LEMMA EscapedIsRead ==
    ASSUME NEW C, EscapeMarks \subseteq C, NEW s \in Seq(C)
    PROVE  pctDecode(Escaped(s)) = s
<1> DEFINE n == Len(s) + 1
           D == C \ {"&", "="}
<1>0. n \in Nat /\ n \in 1..n /\ 1 \in 1..n
  OBVIOUS
<1> PICK e : EscapeOf(C, s, e)
  BY EscapedIs
<1>1. /\ e \in [1..n -> Seq(D)]
      /\ Escaped(s) = e[1]
      /\ e[n] = <<>>
      /\ \A i \in 1..Len(s) : e[i] = Unit(s[i]) \o e[i + 1]
  BY DEF EscapeOf
<1> DEFINE E == e[1]
           at(i) == Len(E) + 1 - Len(e[i])
<1>2. E \in Seq(D) /\ Len(E) \in Nat
  <2>1. E \in Seq(D)
    BY <1>0, <1>1
  <2> HIDE DEF D, E
  <2> QED BY <2>1, LenProperties
<1>3. PICK f : /\ pctDecode(E) = f[1]
               /\ \A i \in 1..(Len(E) + 1) : f[i] = DecodedRest(E, f, i)
  <2> HIDE DEF D, E
  <2> QED BY <1>2, DecodedIs
<1>4. ASSUME NEW i \in 1..n
      PROVE  /\ Ends(E, e[i]) /\ e[i] \in Seq(D) /\ Len(e[i]) \in Nat
             /\ at(i) \in 1..(Len(E) + 1)
             /\ \A k \in 1..Len(e[i]) : E[at(i) + k - 1] = e[i][k]
  <2>1. Ends(e[1], e[i])
    <3>1. ASSUME NEW j \in 1..n, j # n PROVE \E u \in Seq(D) : e[j] = u \o e[j + 1]
      <4>1. j \in 1..Len(s) /\ s[j] \in C
        BY <3>1
      <4>2. Unit(s[j]) \in Seq(D)
        BY <4>1, UnitIs
      <4> QED BY <1>1, <4>1, <4>2
    <3> HIDE DEF n, D
    <3> QED BY <1>0, <1>1, <3>1, RestIsThere
  <2>2. e[i] \in Seq(D)
    BY <1>1
  <2> HIDE DEF D
  <2>3. Len(e[i]) \in Nat
    BY <2>2, LenProperties
  <2>4. Len(e[i]) <= Len(E)
    BY <2>1 DEF Ends
  <2>5. ASSUME NEW k \in 1..Len(e[i]) PROVE E[at(i) + k - 1] = e[i][k]
    <3>1. at(i) + k - 1 = Len(E) - Len(e[i]) + k
      BY <1>2, <2>3
    <3> QED BY <2>1, <3>1 DEF Ends
  <2>6. at(i) \in 1..(Len(E) + 1)
    <3> DEFINE l == Len(e[i])
    <3>1. at(i) = Len(E) + 1 - l /\ l \in Nat /\ l <= Len(E)
      BY <2>3, <2>4
    <3> HIDE DEF E, l, at
    <3> QED BY <1>2, <3>1
  <2> HIDE DEF at
  <2> QED BY <2>1, <2>2, <2>3, <2>5, <2>6
<1> DEFINE S == {i \in 1..n : f[at(i)] = SubSeq(s, i, Len(s))}
<1>5. n \in S
  <2>1. Len(e[n]) = 0
    BY <1>1
  <2>2. at(n) = Len(E) + 1 /\ at(n) \in 1..(Len(E) + 1) /\ at(n) > Len(E)
    <3> HIDE DEF E
    <3> QED BY <1>2, <2>1
  <2>3. f[at(n)] = <<>>
    <3> HIDE DEF E, at
    <3> QED BY <1>3, <2>2 DEF DecodedRest
  <2>4. SubSeq(s, n, Len(s)) = <<>>
    BY SubSeqEmpty
  <2> HIDE DEF at
  <2>5. f[at(n)] = SubSeq(s, n, Len(s))
    BY <2>3, <2>4
  <2> HIDE DEF n
  <2> QED BY <1>0, <2>5
<1>6. ASSUME NEW i \in 1..n, i \in S, i # 1 PROVE i - 1 \in S
  <2> DEFINE j == i - 1
             c == s[j]
  <2>1. j \in 1..Len(s) /\ j \in 1..n /\ j + 1 = i /\ c \in C
    BY <1>6
  <2>2. e[j] = Unit(c) \o e[i]
    BY <1>1, <2>1
  <2>3. <<c>> \o SubSeq(s, i, Len(s)) = SubSeq(s, j, Len(s))
    BY <2>1, OneMore
  <2>4. f[at(i)] = SubSeq(s, i, Len(s))
    BY <1>6
  <2>5. f[at(j)] = DecodedRest(E, f, at(j))
    BY <1>3, <1>4, <2>1
  <2>6. f[at(j)] = <<c>> \o f[at(i)]
    <3>1. /\ Unit(c) \in Seq(D) /\ e[i] \in Seq(D)
      BY <1>4, <2>1, UnitIs
    <3>2. /\ Len(e[j]) = Len(Unit(c)) + Len(e[i]) /\ Len(Unit(c)) \in Nat
          /\ \A k \in 1..Len(Unit(c)) : k \in 1..Len(e[j]) /\ e[j][k] = Unit(c)[k]
      <4> HIDE DEF D, c, j
      <4>1. Len(Unit(c)) \in Nat /\ Len(e[i]) \in Nat
        BY <3>1, LenProperties
      <4>2. /\ Len(Unit(c) \o e[i]) = Len(Unit(c)) + Len(e[i])
            /\ \A k \in 1..(Len(Unit(c)) + Len(e[i])) :
                  (Unit(c) \o e[i])[k] = IF k <= Len(Unit(c)) THEN Unit(c)[k] ELSE e[i][k - Len(Unit(c))]
        BY <3>1, ConcatProperties
      <4> QED BY <2>2, <4>1, <4>2
    <3>3. at(i) = at(j) + Len(Unit(c)) /\ at(j) \in Int /\ at(i) <= Len(E) + 1 /\ at(j) >= 1
      <4>1. /\ Len(e[i]) \in Nat /\ Len(e[j]) \in Nat /\ at(i) \in 1..(Len(E) + 1) /\ at(j) \in 1..(Len(E) + 1)
        BY <1>4, <2>1
      <4> DEFINE l == Len(e[i])
                 k == Len(e[j])
      <4>2. k = Len(Unit(c)) + l /\ at(i) = Len(E) + 1 - l /\ at(j) = Len(E) + 1 - k
        BY <3>2
      <4> HIDE DEF D, c, j, E, at, l, k
      <4>3. l \in Nat /\ k \in Nat
        BY <4>1 DEF l, k
      <4> QED BY <1>2, <3>2, <4>1, <4>2, <4>3
    <3>4. \A k \in 1..Len(Unit(c)) : E[at(j) + k - 1] = Unit(c)[k]
      <4>1. \A k \in 1..Len(e[j]) : E[at(j) + k - 1] = e[j][k]
        BY <1>4, <2>1
      <4> HIDE DEF D, c, j, E, at
      <4> QED BY <3>2, <4>1
    <3>5. CASE c \in DOMAIN Hex
      <4>1. PICK g \in C, h \in C : Unit(c) = <<"%", g, h>> /\ Character(g, h) = c
        BY <2>1, <3>5, UnitIs
      <4> HIDE DEF D, c, j, E, at
      <4>2. Len(Unit(c)) = 3 /\ Unit(c)[1] = "%" /\ Unit(c)[2] = g /\ Unit(c)[3] = h
        BY <4>1
      <4>3. /\ at(j) + 1 - 1 = at(j) /\ at(j) + 2 - 1 = at(j) + 1 /\ at(j) + 3 - 1 = at(j) + 2
        BY <3>3
      <4>4. E[at(j)] = "%" /\ E[at(j) + 1] = g /\ E[at(j) + 2] = h
        BY <3>4, <4>2, <4>3
      <4>5. ~ (at(j) > Len(E)) /\ at(j) + 2 <= Len(E) /\ at(i) = at(j) + 3
        BY <1>2, <3>3, <4>2
      <4> QED BY <2>5, <4>1, <4>4, <4>5 DEF DecodedRest
    <3>6. CASE c \notin DOMAIN Hex
      <4>1. Unit(c) = <<c>>
        BY <2>1, <3>6, UnitIs
      <4>2. c # "%" /\ c # "+"
        BY <3>6, HexIs
      <4> HIDE DEF D, c, j, E, at
      <4>3. Len(Unit(c)) = 1 /\ Unit(c)[1] = c
        BY <4>1
      <4>4. E[at(j)] = c
        <5>1. at(j) + 1 - 1 = at(j)
          BY <3>3
        <5> QED BY <3>4, <4>3, <5>1
      <4>5. ~ (at(j) > Len(E)) /\ at(i) = at(j) + 1
        BY <1>2, <3>3, <4>3
      <4> QED BY <2>5, <4>2, <4>4, <4>5 DEF DecodedRest, Spaced
    <3> QED BY <3>5, <3>6
  <2>7. f[at(j)] = SubSeq(s, j, Len(s))
    BY <2>3, <2>4, <2>6
  <2> HIDE DEF n, at
  <2> QED BY <2>1, <2>7
<1>7. 1 \in S
  <2> HIDE DEF n, S
  <2> QED BY <1>0, <1>5, <1>6, DownFrom
<1>8. at(1) = 1
  <2> HIDE DEF E
  <2>1. Len(e[1]) = Len(E)
    BY DEF E
  <2> QED BY <1>2, <2>1
<1>9. f[1] = SubSeq(s, 1, Len(s))
  BY <1>7, <1>8
<1> QED BY <1>1, <1>3, <1>9, SubSeqFull
-----------------------------------------------------------------------------
(* The marks a link has of its own.                                        *)
LinkMarks == EscapeMarks \cup {Scheme, "connect", ":", "?", "server", "token", "=", "&"}

(* The query is what follows the first question mark.                      *)
LEMMA QueryIs ==
    ASSUME NEW C, NEW a \in Seq(C), NEW b \in Seq(C), "?" \in C,
           \A i \in 1..Len(a) : a[i] # "?"
    PROVE  LET link == a \o <<"?">> \o b
           IN  /\ SelectInSeq(link, LAMBDA c : c = "?") = Len(a) + 1
               /\ SubSeq(link, Len(a) + 2, Len(link)) = b
               /\ SubSeq(link, 1, Len(a)) = a
               /\ \A i \in 1..Len(a) : link[i] = a[i]
<1> DEFINE link == a \o <<"?">> \o b
           at == Len(a) + 1
<1>1. /\ link \in Seq(C) /\ Len(link) = Len(a) + 1 + Len(b) /\ Len(a) \in Nat /\ Len(b) \in Nat
      /\ \A j \in 1..Len(a) : link[j] = a[j]
      /\ link[at] = "?"
  OBVIOUS
<1>2. SubSeq(link, 1, Len(a)) = a
  OBVIOUS
<1>3. SubSeq(link, Len(a) + 2, Len(link)) = b
  OBVIOUS
<1> DEFINE I == {i \in 1..Len(link) : link[i] = "?"}
<1>4. at \in I /\ I \in SUBSET Int /\ \A x \in I : at <= x
  <2> HIDE DEF link
  <2>1. at \in I
    BY <1>1
  <2>2. ASSUME NEW x \in I PROVE at <= x
    <3>1. x \notin 1..Len(a) /\ x \in Nat /\ x >= 1
      BY <1>1
    <3> HIDE DEF I
    <3> QED BY <1>1, <3>1
  <2> QED BY <2>1, <2>2
<1>5. Min(I) = at /\ I # {}
  <2> HIDE DEF I
  <2> QED BY <1>4, MinIs
<1>6. SelectInSeq(link, LAMBDA c : c = "?") = at
  BY <1>5 DEF SelectInSeq
<1> QED BY <1>1, <1>2, <1>3, <1>6

Whole(p) == {i \in DOMAIN p : Len(splitByte(p[i], "=")) = 2}
NameOf(p, i) == pctDecode(splitByte(p[i], "=")[1])
LastOf(p, n) == Max({i \in Whole(p) : NameOf(p, i) = n})

(* The map of the pairs, spelled out (mobile.go: parseQueryString).        *)
LEMMA ParametersAre ==
    ASSUME NEW p
    PROVE  Parameters(p) = [n \in {NameOf(p, i) : i \in Whole(p)} |-> pctDecode(splitByte(p[LastOf(p, n)], "=")[2])]
BY DEF Parameters, Whole, NameOf, LastOf

(* A query is read as its pairs, ...                                       *)
LEMMA ParamsAre ==
    ASSUME NEW C, NEW a \in Seq(C), NEW b \in Seq(C), "?" \in C,
           \A i \in 1..Len(a) : a[i] # "?"
    PROVE  parseQueryString(a \o <<"?">> \o b) = Parameters(splitByte(b, "&"))
<1> DEFINE link == a \o <<"?">> \o b
<1>1. /\ SelectInSeq(link, LAMBDA c : c = "?") = Len(a) + 1
      /\ SubSeq(link, Len(a) + 2, Len(link)) = b
  BY QueryIs
<1>2. Len(a) + 1 # 0 /\ (Len(a) + 1) + 1 = Len(a) + 2
  OBVIOUS
<1> HIDE DEF link
<1>3. parseQueryString(link) = Parameters(splitByte(b, "&"))
  BY <1>1, <1>2 DEF parseQueryString
<1> QED BY <1>3 DEF link

(* p is read as the name k with the value v; one such pair, and two.       *)
PairReads(p, k, v) == splitByte(p, "=") = <<k, v>>

OneReads(p, k, v) == Parameters(<<p>>) = [n \in {pctDecode(k)} |-> pctDecode(v)]

(* A query of one pair, ...                                                *)
LEMMA OneParam ==
    ASSUME NEW p, NEW k, NEW v, PairReads(p, k, v)
    PROVE  OneReads(p, k, v)
<1>0. splitByte(p, "=") = <<k, v>>
  BY DEF PairReads
<1>1. Len(<<k, v>>) = 2 /\ <<k, v>>[1] = k /\ <<k, v>>[2] = v /\ DOMAIN <<p>> = {1} /\ <<p>>[1] = p
  OBVIOUS
<1>2. Whole(<<p>>) = {1} /\ NameOf(<<p>>, 1) = pctDecode(k)
  BY <1>0, <1>1 DEF Whole, NameOf
<1>3. {NameOf(<<p>>, i) : i \in Whole(<<p>>)} = {pctDecode(k)}
  BY <1>2
<1>4. {i \in Whole(<<p>>) : NameOf(<<p>>, i) = pctDecode(k)} = {1}
  BY <1>2
<1>5. LastOf(<<p>>, pctDecode(k)) = 1
  BY <1>4, MaxIs DEF LastOf
<1>6. Parameters(<<p>>) = [n \in {pctDecode(k)} |-> pctDecode(v)]
  BY <1>0, <1>1, <1>3, <1>5, ParametersAre
<1> QED BY <1>6 DEF OneReads

(* ... and two with different names.                                       *)
TwoRead(p, q, k, v, l, w) ==
    /\ DOMAIN Parameters(<<p, q>>) = {pctDecode(k), pctDecode(l)}
    /\ Parameters(<<p, q>>)[pctDecode(k)] = pctDecode(v)
    /\ Parameters(<<p, q>>)[pctDecode(l)] = pctDecode(w)

(* ... and of two.                                                         *)
LEMMA TwoParams ==
    ASSUME NEW p, NEW q, NEW k, NEW v, NEW l, NEW w,
           PairReads(p, k, v), PairReads(q, l, w), pctDecode(k) # pctDecode(l)
    PROVE  TwoRead(p, q, k, v, l, w)
<1>0. splitByte(p, "=") = <<k, v>> /\ splitByte(q, "=") = <<l, w>>
  BY DEF PairReads
<1> DEFINE r == <<p, q>>
<1>1. /\ Len(<<k, v>>) = 2 /\ <<k, v>>[1] = k /\ <<k, v>>[2] = v
      /\ Len(<<l, w>>) = 2 /\ <<l, w>>[1] = l /\ <<l, w>>[2] = w
      /\ DOMAIN r = {1, 2} /\ r[1] = p /\ r[2] = q
  OBVIOUS
<1> HIDE DEF r
<1>2. Whole(r) = {1, 2} /\ NameOf(r, 1) = pctDecode(k) /\ NameOf(r, 2) = pctDecode(l)
  BY <1>0, <1>1 DEF Whole, NameOf
<1>3. {NameOf(r, i) : i \in Whole(r)} = {pctDecode(k), pctDecode(l)}
  BY <1>2
<1>4. /\ {i \in Whole(r) : NameOf(r, i) = pctDecode(k)} = {1}
      /\ {i \in Whole(r) : NameOf(r, i) = pctDecode(l)} = {2}
  BY <1>2
<1>5. LastOf(r, pctDecode(k)) = 1 /\ LastOf(r, pctDecode(l)) = 2
  <2>1. Max({1}) = 1 /\ Max({2}) = 2
    BY MaxIs
  <2> QED BY <1>4, <2>1 DEF LastOf
<1>6. /\ DOMAIN Parameters(r) = {pctDecode(k), pctDecode(l)}
      /\ Parameters(r)[pctDecode(k)] = pctDecode(v)
      /\ Parameters(r)[pctDecode(l)] = pctDecode(w)
  BY <1>0, <1>1, <1>3, <1>5, ParametersAre
<1> QED BY <1>6 DEF r, TwoRead

(* The names that the links use are read as they are written.              *)
LEMMA NamesAreRead == /\ pctDecode(<<"token">>) = <<"token">> /\ pctDecode(<<"server">>) = <<"server">>
                      /\ <<"token">> # <<"server">>
<1> DEFINE C == {"token", "server"}
<1>1. <<"token">> \in Seq(C) /\ <<"server">> \in Seq(C)
  OBVIOUS
<1>2. /\ \A i \in 1..Len(<<"token">>) : <<"token">>[i] \notin {"%", "+"}
      /\ \A i \in 1..Len(<<"server">>) : <<"server">>[i] \notin {"%", "+"}
  OBVIOUS
<1>3. <<"token">> # <<"server">>
  <2>1. <<"token">>[1] # <<"server">>[1]
    OBVIOUS
  <2> QED BY <2>1
<1> HIDE DEF C
<1> QED BY <1>1, <1>2, <1>3, PlainIsRead

(* One name and its value.                                                 *)
LEMMA PairIs ==
    ASSUME NEW C, LinkMarks \subseteq C, NEW k \in {"token", "server"}, NEW v \in Seq(C \ {"&", "="})
    PROVE  LET p == (<<k>> \o <<"=">>) \o v
           IN  /\ splitByte(p, "=") = << <<k>>, v >>
               /\ p \in Seq(C) /\ \A i \in 1..Len(p) : p[i] # "&"
<1> DEFINE p == (<<k>> \o <<"=">>) \o v
<1>1. k \in C /\ "=" \in C /\ k # "=" /\ k # "&"
  BY DEF LinkMarks
<1>2. <<k>> \in Seq(C) /\ v \in Seq(C) /\ \A i \in 1..Len(v) : v[i] # "=" /\ v[i] # "&"
  <2>1. v \in Seq(C)
    BY SeqMonotonic
  <2>2. \A i \in 1..Len(v) : v[i] \in C \ {"&", "="}
    BY ElementOfSeq
  <2> QED BY <1>1, <2>1, <2>2
<1>3. \A j \in 1..Len(<<k>>) : <<k>>[j] # "="
  BY <1>1
<1>4. splitByte(p, "=") = << <<k>>, v >>
  BY <1>1, <1>2, <1>3, SplitsIntoTwo
<1>5. p \in Seq(C) /\ Len(p) = 2 + Len(v) /\ p[1] = k /\ p[2] = "=" /\ \A i \in 1..Len(v) : p[2 + i] = v[i]
  BY <1>1, <1>2
<1>6. ASSUME NEW i \in 1..Len(p) PROVE p[i] # "&"
  <2> HIDE DEF p
  <2>1. CASE i = 1 \/ i = 2
    BY <1>1, <1>5, <2>1
  <2>2. CASE i # 1 /\ i # 2
    <3>1. i - 2 \in 1..Len(v) /\ 2 + (i - 2) = i
      BY <1>2, <1>5, <2>2
    <3>2. p[2 + (i - 2)] = v[i - 2] /\ v[i - 2] # "&"
      BY <1>2, <1>5, <3>1
    <3> QED BY <3>1, <3>2
  <2> QED BY <2>1, <2>2
<1> HIDE DEF p
<1>7. /\ splitByte(p, "=") = << <<k>>, v >>
      /\ p \in Seq(C) /\ \A i \in 1..Len(p) : p[i] # "&"
  BY <1>4, <1>5, <1>6
<1> QED BY <1>7 DEF p

(* The two forms of a link, put together the way they are read.            *)
ServerForm(addr, token) == (<<Scheme>> \o addr) \o <<"?">> \o ((<<"token">> \o <<"=">>) \o token)

ConnectForm(server, token) ==
    << Scheme, "connect" >> \o <<"?">> \o
        (((<<"server">> \o <<"=">>) \o Escaped(server)) \o <<"&">> \o
         ((<<"token">> \o <<"=">>) \o Escaped(token)))

(* The desktop app reads the server's link (app.js: parseInviteLink).      *)
LEMMA ServerLinkIsRead ==
    ASSUME NEW C, LinkMarks \subseteq C,
           NEW addr \in Seq(C), NEW token \in Seq(C \ {"%", "+", "&", "="}), token # <<>>,
           addr # <<>>, \A i \in 1..Len(addr) : addr[i] \notin {"?", "/", "#"},
           NEW link, link = ServerForm(addr, token)
    PROVE  parseInviteLink(link) = [server |-> addr, token |-> token]
<1> DEFINE a == <<Scheme>> \o addr
           b == (<<"token">> \o <<"=">>) \o token
<1>1. Scheme \in C /\ "?" \in C /\ Scheme # "?"
  BY DEF LinkMarks, Scheme
<1>2. token \in Seq(C \ {"&", "="}) /\ token \in Seq(C) /\ \A i \in 1..Len(token) : token[i] \notin {"%", "+"}
  <2>1. token \in Seq(C \ {"&", "="}) /\ token \in Seq(C)
    BY SeqMonotonic
  <2>2. \A i \in 1..Len(token) : token[i] \in C \ {"%", "+", "&", "="}
    BY ElementOfSeq
  <2> QED BY <2>1, <2>2
<1>3. /\ splitByte(b, "=") = << <<"token">>, token >>
      /\ b \in Seq(C) /\ \A i \in 1..Len(b) : b[i] # "&"
  BY <1>2, PairIs
<1>4. /\ a \in Seq(C) /\ Len(a) = 1 + Len(addr) /\ Len(addr) \in Nat \ {0}
      /\ a[1] = Scheme /\ \A i \in 1..Len(addr) : a[i + 1] = addr[i]
  BY <1>1
<1>5. \A i \in 1..Len(a) : a[i] # "?"
  <2> SUFFICES ASSUME NEW i \in 1..Len(a) PROVE a[i] # "?"
    OBVIOUS
  <2> HIDE DEF a
  <2>1. CASE i = 1
    BY <1>1, <1>4, <2>1
  <2>2. CASE i # 1
    <3>1. i - 1 \in 1..Len(addr) /\ (i - 1) + 1 = i
      BY <1>4, <2>2
    <3> QED BY <1>4, <3>1
  <2> QED BY <2>1, <2>2
<1> HIDE DEF a, b
<1>6. link = a \o <<"?">> \o b
  BY DEF a, b, ServerForm
<1>7. /\ SelectInSeq(link, LAMBDA c : c = "?") = Len(a) + 1
      /\ \A i \in 1..Len(a) : link[i] = a[i]
  <2>1. /\ SelectInSeq(a \o <<"?">> \o b, LAMBDA c : c = "?") = Len(a) + 1
        /\ \A i \in 1..Len(a) : (a \o <<"?">> \o b)[i] = a[i]
    BY <1>1, <1>3, <1>4, <1>5, QueryIs
  <2> QED BY <1>6, <2>1
<1>8. parseQueryString(link) = [n \in { <<"token">> } |-> token]
  <2>1. splitByte(b, "&") = <<b>>
    BY <1>3, SplitsIntoOne
  <2>2. pctDecode(token) = token
    BY <1>2, PlainIsRead
  <2>3. parseQueryString(a \o <<"?">> \o b) = Parameters(splitByte(b, "&"))
    BY <1>1, <1>3, <1>4, <1>5, ParamsAre
  <2>4. Parameters(<<b>>) = [n \in {pctDecode(<<"token">>)} |-> pctDecode(token)]
    <3> DEFINE k == <<"token">>
    <3>1. PairReads(b, k, token)
      BY <1>3 DEF PairReads
    <3> HIDE DEF k
    <3>2. OneReads(b, k, token)
      BY <3>1, OneParam
    <3> QED BY <3>2 DEF k, OneReads
  <2>5. Parameters(<<b>>) = [n \in { <<"token">> } |-> token]
    BY <2>2, <2>4, NamesAreRead
  <2> QED BY <1>6, <2>1, <2>3, <2>5
<1>9. SubSeq(link, 2, (Len(a) + 1) - 1) = addr
  <2>1. \A i \in 2..Len(a) : link[i] \in C
    BY <1>4, <1>7
  <2>2. /\ SubSeq(link, 2, Len(a)) \in Seq(C)
        /\ Len(SubSeq(link, 2, Len(a))) = IF 2 <= Len(a) THEN Len(a) - 2 + 1 ELSE 0
        /\ \A i \in 1..(Len(a) - 2 + 1) : SubSeq(link, 2, Len(a))[i] = link[2 + i - 1]
    BY <1>4, <2>1, SubSeqProperties
  <2>3. Len(SubSeq(link, 2, Len(a))) = Len(addr)
    BY <1>4, <2>2
  <2>4. ASSUME NEW i \in 1..Len(addr) PROVE SubSeq(link, 2, Len(a))[i] = addr[i]
    <3>1. i \in 1..(Len(a) - 2 + 1) /\ 2 + i - 1 = i + 1 /\ i + 1 \in 1..Len(a)
      BY <1>4
    <3> QED BY <1>4, <1>7, <2>2, <3>1
  <2>5. SubSeq(link, 2, Len(a)) = addr
    BY <2>2, <2>3, <2>4, SeqEqual
  <2>6. (Len(a) + 1) - 1 = Len(a)
    BY <1>4
  <2> QED BY <2>5, <2>6
<1>10. /\ link[1] = Scheme /\ Len(a) + 1 > 2
       /\ {"/", "#"} \cap ToSet(addr) = {}
  <2>1. link[1] = Scheme /\ Len(a) + 1 > 2
    BY <1>4, <1>7
  <2>2. DOMAIN addr = 1..Len(addr)
    BY LenProperties
  <2>3. {"/", "#"} \cap ToSet(addr) = {}
    BY <2>2 DEF ToSet
  <2> QED BY <2>1, <2>3
<1>11. <<"token">> \in DOMAIN parseQueryString(link) /\ parseQueryString(link)[<<"token">>] = token
  BY <1>8
<1> QED BY <1>7, <1>9, <1>10, <1>11 DEF parseInviteLink

(* The apps for phones read a link in the form that is documented          *)
(* (mobile.go: ParseInviteLink), whatever server and token it names.       *)
THEOREM ConnectLinkIsRead ==
    ASSUME NEW C, LinkMarks \subseteq C,
           NEW server \in Seq(C), server # <<>>, NEW token \in Seq(C), token # <<>>,
           NEW link, link = ConnectForm(server, token)
    PROVE  ParseInviteLink(link) = [server |-> server, token |-> token]
<1> DEFINE a == << Scheme, "connect" >>
           p == (<<"server">> \o <<"=">>) \o Escaped(server)
           q == (<<"token">> \o <<"=">>) \o Escaped(token)
           b == p \o <<"&">> \o q
<1>1. {Scheme, "connect", "?", "&"} \subseteq C /\ EscapeMarks \subseteq C /\ Scheme # "?"
  BY DEF LinkMarks, Scheme
<1>2. ASSUME NEW s \in Seq(C) PROVE Escaped(s) \in Seq(C \ {"&", "="}) /\ pctDecode(Escaped(s)) = s
  <2>1. PICK e : EscapeOf(C, s, e)
    BY <1>1, EscapedIs
  <2>2. e \in [1..(Len(s) + 1) -> Seq(C \ {"&", "="})] /\ Escaped(s) = e[1] /\ 1 \in 1..(Len(s) + 1)
    BY <2>1 DEF EscapeOf
  <2>3. Escaped(s) \in Seq(C \ {"&", "="})
    BY <2>2
  <2> QED BY <1>1, <2>3, EscapedIsRead
<1>3. /\ splitByte(p, "=") = << <<"server">>, Escaped(server) >>
      /\ p \in Seq(C) /\ \A i \in 1..Len(p) : p[i] # "&"
  BY <1>2, PairIs
<1>4. /\ splitByte(q, "=") = << <<"token">>, Escaped(token) >>
      /\ q \in Seq(C) /\ \A i \in 1..Len(q) : q[i] # "&"
  BY <1>2, PairIs
<1>5. a \in Seq(C) /\ \A i \in 1..Len(a) : a[i] # "?"
  BY <1>1
<1> HIDE DEF p, q, a
<1>6. b \in Seq(C)
  BY <1>1, <1>3, <1>4
<1>7. splitByte(b, "&") = <<p, q>>
  BY <1>1, <1>3, <1>4, SplitsIntoTwo
<1> HIDE DEF b
<1>8. link = a \o <<"?">> \o b
  BY DEF a, b, p, q, ConnectForm
<1>9. parseQueryString(link) = Parameters(<<p, q>>)
  BY <1>1, <1>5, <1>6, <1>7, <1>8, ParamsAre
<1>10. /\ DOMAIN parseQueryString(link) = { <<"server">>, <<"token">> }
       /\ parseQueryString(link)[<<"server">>] = server
       /\ parseQueryString(link)[<<"token">>] = token
  <2>1. pctDecode(Escaped(server)) = server /\ pctDecode(Escaped(token)) = token
    BY <1>2
  <2>2. pctDecode(<<"server">>) # pctDecode(<<"token">>)
    BY NamesAreRead
  <2>3. /\ DOMAIN Parameters(<<p, q>>) = {pctDecode(<<"server">>), pctDecode(<<"token">>)}
        /\ Parameters(<<p, q>>)[pctDecode(<<"server">>)] = pctDecode(Escaped(server))
        /\ Parameters(<<p, q>>)[pctDecode(<<"token">>)] = pctDecode(Escaped(token))
    <3> DEFINE k == <<"server">>
               l == <<"token">>
               v == Escaped(server)
               w == Escaped(token)
    <3>1. PairReads(p, k, v) /\ PairReads(q, l, w) /\ pctDecode(k) # pctDecode(l)
      BY <1>3, <1>4, <2>2 DEF PairReads
    <3> HIDE DEF k, l, v, w
    <3>2. TwoRead(p, q, k, v, l, w)
      BY <3>1, TwoParams
    <3> QED BY <3>2 DEF k, l, v, w, TwoRead
  <2>4. /\ DOMAIN Parameters(<<p, q>>) = { <<"server">>, <<"token">> }
        /\ Parameters(<<p, q>>)[<<"server">>] = server
        /\ Parameters(<<p, q>>)[<<"token">>] = token
    BY <2>1, <2>3, NamesAreRead
  <2> QED BY <1>9, <2>4
<1> QED BY <1>10 DEF ParseInviteLink
-----------------------------------------------------------------------------
(* The addresses a server may have (api.go: DetectPublicIP, New).          *)
Given == Addresses \cup {LANAddress, <<"unknown">>}

(* What an address may be written with: nothing that ends it in a URL.     *)
AddressesAreTexts ==
    /\ Addresses \cup {LANAddress} \subseteq Seq(STRING) /\ Port \in Seq(STRING)
    /\ \A a \in Addresses \cup {LANAddress, Port} : \A i \in 1..Len(a) : a[i] \notin {"?", "/", "#"}

(* The characters of a link.                                               *)
Char == STRING \cup LinkMarks \cup {"a", "unknown"}

(* The tokens that there are have the link of the address the server has.  *)
LinkInv == /\ ~up => tokens = <<>> /\ ~serving
           /\ up => publicIP \in Given
           /\ issued \in Nat
           /\ \A t \in DOMAIN tokens : t \in Nat \ {0} /\ tokens[t].link = ServerLink(publicIP, Port, Text(t))

(* A token is a text that needs no escapes, and not empty (api.go:         *)
(* randomID).                                                              *)
LEMMA TextIs == ASSUME NEW n \in Nat \ {0}
                PROVE  /\ Text(n) \in Seq(Char) /\ Text(n) \in Seq(Char \ {"%", "+", "&", "="}) /\ Text(n) # <<>>
<1>1. Text(n) \in [1..n -> {"a"}] /\ Len(Text(n)) = n
  BY DEF Text
<1>2. "a" \in Char /\ "a" \notin {"%", "+", "&", "="}
  BY DEF Char
<1> QED BY <1>1, <1>2

(* The server's address with its port, whichever address was found or      *)
(* given.                                                                  *)
LEMMA AddressIs ==
    ASSUME AddressesAreTexts, NEW ip \in Given
    PROVE  LET addr == ip \o <<":">> \o Port
           IN  /\ ip \in Seq(Char) /\ Port \in Seq(Char) /\ addr \in Seq(Char) /\ addr # <<>>
               /\ \A i \in 1..Len(addr) : addr[i] \notin {"?", "/", "#"}
<1>1. STRING \subseteq Char /\ ":" \in Char /\ "unknown" \in Char
  BY DEF Char, LinkMarks
<1>2. /\ ip \in Seq(Char) /\ Port \in Seq(Char)
      /\ \A i \in 1..Len(ip) : ip[i] \notin {"?", "/", "#"}
      /\ \A i \in 1..Len(Port) : Port[i] \notin {"?", "/", "#"}
  <2>1. /\ Port \in Seq(Char)
        /\ \A i \in 1..Len(Port) : Port[i] \notin {"?", "/", "#"}
    BY <1>1, SeqMonotonic DEF AddressesAreTexts
  <2>2. CASE ip = <<"unknown">>
    BY <1>1, <2>1, <2>2
  <2>3. CASE ip \in Addresses \cup {LANAddress}
    <3>1. ip \in Seq(STRING) /\ \A i \in 1..Len(ip) : ip[i] \notin {"?", "/", "#"}
      BY <2>3 DEF AddressesAreTexts
    <3> QED BY <1>1, <2>1, <3>1, SeqMonotonic
  <2> QED BY <2>2, <2>3 DEF Given
<1> DEFINE head == ip \o <<":">>
           addr == head \o Port
<1>3. /\ head \in Seq(Char) /\ Len(head) = Len(ip) + 1 /\ Len(ip) \in Nat /\ Len(Port) \in Nat
      /\ \A i \in 1..Len(ip) : head[i] = ip[i]
      /\ head[Len(ip) + 1] = ":"
  BY <1>1, <1>2
<1>4. ASSUME NEW i \in 1..Len(head) PROVE head[i] \notin {"?", "/", "#"}
  <2> HIDE DEF head
  <2> QED BY <1>2, <1>3
<1> HIDE DEF head
<1>5. /\ addr \in Seq(Char) /\ Len(addr) = Len(head) + Len(Port)
      /\ \A i \in 1..Len(head) : addr[i] = head[i]
      /\ \A i \in (Len(head) + 1)..Len(addr) : addr[i] = Port[i - Len(head)]
  <2>1. /\ addr \in Seq(Char) /\ Len(addr) = Len(head) + Len(Port)
        /\ \A i \in 1..(Len(head) + Len(Port)) : addr[i] = IF i <= Len(head) THEN head[i] ELSE Port[i - Len(head)]
    BY <1>2, <1>3, ConcatProperties
  <2>2. Len(head) \in Nat
    BY <1>3
  <2> HIDE DEF addr
  <2> QED BY <1>3, <2>1, <2>2
<1>6. ASSUME NEW i \in 1..Len(addr) PROVE addr[i] \notin {"?", "/", "#"}
  <2> HIDE DEF addr
  <2>1. CASE i \in 1..Len(head)
    BY <1>4, <1>5, <2>1
  <2>2. CASE i \notin 1..Len(head)
    <3>1. i \in (Len(head) + 1)..Len(addr) /\ i - Len(head) \in 1..Len(Port)
      BY <1>3, <1>5, <2>2
    <3> QED BY <1>2, <1>5, <3>1
  <2> QED BY <2>1, <2>2
<1>7. addr # <<>>
  BY <1>3, <1>5
<1> QED BY <1>2, <1>5, <1>6, <1>7 DEF head

Assoc(s, t, u) == (s \o t) \o u = s \o (t \o u)

(* Joining texts, as often as it is needed.                                *)
LEMMA AssocIs == ASSUME NEW S, NEW s \in Seq(S), NEW t \in Seq(S), NEW u \in Seq(S)
                 PROVE  Assoc(s, t, u) /\ s \o t \in Seq(S)
BY ConcatAssociative, ConcatProperties DEF Assoc

(* Both links of the code have these forms.                                *)
LEMMA NameIsJoined == <<"?", "token", "=">> = <<"?">> \o (<<"token">> \o <<"=">>)
<1>1. <<"token">> \o <<"=">> = <<"token", "=">>
  BY JoinsToTwo
<1> QED BY <1>1, JoinsToThree

(* The server's link (api.go: handleInvite), ...                           *)
LEMMA ServerLinkForm ==
    ASSUME NEW C, LinkMarks \subseteq C, NEW ip \in Seq(C), NEW port \in Seq(C), NEW token \in Seq(C)
    PROVE  ServerLink(ip, port, token) = ServerForm(ip \o <<":">> \o port, token)
<1> DEFINE sc == <<Scheme>>
           co == <<":">>
           qu == <<"?">>
           nm == <<"token">> \o <<"=">>
<1>1. sc \in Seq(C) /\ co \in Seq(C) /\ qu \in Seq(C) /\ nm \in Seq(C)
  BY DEF LinkMarks
<1>2. ServerLink(ip, port, token) = (((sc \o ip) \o co) \o port) \o (qu \o nm) \o token
  BY NameIsJoined DEF ServerLink
<1> HIDE DEF sc, co, qu, nm
<1>3. ((sc \o ip) \o co) \o port = sc \o (ip \o co \o port)
  <2>1. Assoc(sc, ip, co) /\ ip \o co \in Seq(C)
    BY <1>1, AssocIs
  <2>2. Assoc(sc, ip \o co, port)
    BY <1>1, <2>1, AssocIs
  <2> QED BY <2>1, <2>2 DEF Assoc
<1> DEFINE h == sc \o (ip \o co \o port)
<1>4. h \in Seq(C)
  <2>1. ip \o co \o port \in Seq(C)
    BY <1>1, AssocIs
  <2> QED BY <1>1, <2>1, AssocIs
<1> HIDE DEF h
<1>5. (h \o (qu \o nm)) \o token = (h \o qu) \o (nm \o token)
  <2>1. Assoc(h, qu, nm) /\ h \o qu \in Seq(C)
    BY <1>1, <1>4, AssocIs
  <2>2. Assoc(h \o qu, nm, token)
    BY <1>1, <2>1, AssocIs
  <2> QED BY <2>1, <2>2 DEF Assoc
<1>6. ServerLink(ip, port, token) = (h \o qu) \o (nm \o token)
  BY <1>2, <1>3, <1>5 DEF h
<1> QED BY <1>6 DEF h, sc, co, qu, nm, ServerForm

(* Two and one make three.                                                 *)
LEMMA TwoAndOne == ASSUME NEW a, NEW b, NEW c PROVE <<a, b>> \o <<c>> = <<a, b, c>>
<1> DEFINE C == {a, b, c}
           j == <<a, b>> \o <<c>>
           u == <<a, b, c>>
<1>1. j \in Seq(C) /\ Len(j) = 3 /\ j[1] = a /\ j[2] = b /\ j[3] = c
  OBVIOUS
<1>2. u \in Seq(C) /\ Len(u) = 3 /\ u[1] = a /\ u[2] = b /\ u[3] = c
  OBVIOUS
<1>3. \A i \in 1..Len(j) : j[i] = u[i]
  <2> SUFFICES ASSUME NEW i \in 1..Len(j) PROVE j[i] = u[i]
    OBVIOUS
  <2>1. i \in {1, 2, 3}
    <3> HIDE DEF j
    <3> QED BY <1>1
  <2> HIDE DEF j, u
  <2> QED BY <1>1, <1>2, <2>1
<1> HIDE DEF j, u
<1>4. j = u
  BY <1>1, <1>2, <1>3, SeqEqual
<1> QED BY <1>4 DEF j, u

(* ... and the one that mobile.go documents.                               *)
LEMMA ConnectLinkForm ==
    ASSUME NEW C, LinkMarks \subseteq C, NEW server, NEW token,
           Escaped(server) \in Seq(C), Escaped(token) \in Seq(C)
    PROVE  ConnectLink(server, token) = ConnectForm(server, token)
<1> DEFINE he == << Scheme, "connect" >>
           qu == <<"?">>
           am == <<"&">>
           ns == <<"server">> \o <<"=">>
           nt == <<"token">> \o <<"=">>
           s  == Escaped(server)
           t  == Escaped(token)
<1>1. he \in Seq(C) /\ qu \in Seq(C) /\ am \in Seq(C) /\ ns \in Seq(C) /\ nt \in Seq(C) /\ s \in Seq(C) /\ t \in Seq(C)
  BY DEF LinkMarks
<1>2. <<Scheme, "connect", "?", "server", "=">> = (he \o qu) \o ns
  <2>1. he \o qu = <<Scheme, "connect", "?">>
    BY TwoAndOne
  <2>2. ns = <<"server", "=">>
    BY JoinsToTwo
  <2> HIDE DEF he, qu, ns
  <2> QED BY <2>1, <2>2
<1>3. <<"&", "token", "=">> = am \o nt
  <2>1. nt = <<"token", "=">>
    BY JoinsToTwo
  <2> QED BY <2>1, JoinsToThree
<1>4. ConnectLink(server, token) = ((((he \o qu) \o ns) \o s) \o (am \o nt)) \o t
  BY <1>2, <1>3 DEF ConnectLink
<1> HIDE DEF he, qu, am, ns, nt, s, t
<1> DEFINE h == he \o qu
           p == ns \o s
<1>5. h \in Seq(C) /\ p \in Seq(C)
  BY <1>1, AssocIs
<1>6. (h \o ns) \o s = h \o p
  <2> HIDE DEF h
  <2>1. Assoc(h, ns, s)
    BY <1>1, <1>5, AssocIs
  <2> QED BY <2>1 DEF Assoc
<1> HIDE DEF h, p
<1>7. ((h \o p) \o (am \o nt)) \o t = h \o ((p \o am) \o (nt \o t))
  <2>1. h \o p \in Seq(C) /\ p \o am \in Seq(C) /\ Assoc(h, p, am)
    BY <1>1, <1>5, AssocIs
  <2>2. Assoc(h \o p, am, nt)
    BY <1>1, <2>1, AssocIs
  <2>3. nt \o t \in Seq(C) /\ h \o (p \o am) \in Seq(C)
    BY <1>1, <1>5, <2>1, AssocIs
  <2>4. Assoc(h \o (p \o am), nt, t)
    BY <1>1, <2>3, AssocIs
  <2>5. Assoc(h, p \o am, nt \o t)
    BY <1>5, <2>1, <2>3, AssocIs
  <2> QED BY <2>1, <2>2, <2>4, <2>5 DEF Assoc
<1>8. ConnectLink(server, token) = h \o ((p \o am) \o (nt \o t))
  BY <1>4, <1>6, <1>7 DEF h
<1> QED BY <1>8 DEF h, p, he, qu, am, ns, nt, s, t, ConnectForm

(* Whichever address the server has, both apps read address and token.     *)
LEMMA LinkIsReadBothWays ==
    ASSUME AddressesAreTexts, NEW ip \in Given, NEW n \in Nat \ {0}
    PROVE  LET addr == ip \o <<":">> \o Port
           IN  /\ parseInviteLink(ServerLink(ip, Port, Text(n))) = [server |-> addr, token |-> Text(n)]
               /\ ParseInviteLink(ConnectLink(addr, Text(n))) = [server |-> addr, token |-> Text(n)]
<1> DEFINE addr == ip \o <<":">> \o Port
           t == Text(n)
           link == ServerLink(ip, Port, t)
           clink == ConnectLink(addr, t)
<1>1. /\ ip \in Seq(Char) /\ Port \in Seq(Char) /\ addr \in Seq(Char) /\ addr # <<>>
      /\ \A i \in 1..Len(addr) : addr[i] \notin {"?", "/", "#"}
  BY AddressIs
<1>2. t \in Seq(Char) /\ t \in Seq(Char \ {"%", "+", "&", "="}) /\ t # <<>>
  BY TextIs
<1>3. LinkMarks \subseteq Char
  BY DEF Char
<1>4. link = ServerForm(addr, t)
  <2> HIDE DEF t
  <2>1. ServerLink(ip, Port, t) = ServerForm(ip \o <<":">> \o Port, t)
    BY <1>1, <1>2, <1>3, ServerLinkForm
  <2> QED BY <2>1
<1>5. Escaped(addr) \in Seq(Char) /\ Escaped(t) \in Seq(Char)
  <2>1. ASSUME NEW s \in Seq(Char) PROVE Escaped(s) \in Seq(Char)
    <3>1. EscapeMarks \subseteq Char
      BY <1>3 DEF LinkMarks
    <3>2. PICK e : EscapeOf(Char, s, e)
      BY <3>1, EscapedIs
    <3>3. Escaped(s) \in Seq(Char \ {"&", "="})
      BY <3>2 DEF EscapeOf
    <3> QED BY <3>3, SeqMonotonic
  <2> HIDE DEF addr, t
  <2> QED BY <1>1, <1>2, <2>1
<1> HIDE DEF addr, t
<1>6. clink = ConnectForm(addr, t)
  BY <1>3, <1>5, ConnectLinkForm
<1> HIDE DEF link, clink
<1>7. parseInviteLink(link) = [server |-> addr, token |-> t]
  BY <1>1, <1>2, <1>3, <1>4, ServerLinkIsRead
<1>8. ParseInviteLink(clink) = [server |-> addr, token |-> t]
  BY <1>1, <1>2, <1>3, <1>6, ConnectLinkIsRead
<1> QED BY <1>7, <1>8 DEF addr, t, link, clink

(* What is detected is an address of a service, of the LAN, or "unknown"   *)
(* (api.go: DetectPublicIP).                                               *)
LEMMA DetectedIsGiven ==
    ASSUME NEW answers \in [1..Services -> Addresses \cup {None}] PROVE DetectPublicIP(answers) \subseteq Given
<1> DEFINE I == {i \in 1..Len(answers) : answers[i] # None}
           first == SelectInSeq(answers, LAMBDA a : a # None)
<1>1. Len(answers) = Services /\ Services \in Nat
  BY ApiAssumption DEF ApiAssumption
<1>2. first = IF I = {} THEN 0 ELSE Min(I)
  BY DEF SelectInSeq
<1>3. CASE I = {}
  BY <1>2, <1>3 DEF DetectPublicIP, Given
<1>4. CASE I # {}
  <2>1. I \in SUBSET Nat
    BY <1>1
  <2>2. PICK m \in I : \A x \in I : m <= x
    BY <1>4, <2>1, LeastIs
  <2>3. Min(I) = m
    <3> HIDE DEF I
    <3>1. I \in SUBSET Int /\ m \in I
      BY <2>1
    <3> QED BY <2>2, <3>1, MinIs
  <2>4. first = m /\ m # 0
    BY <1>1, <1>2, <1>4, <2>3
  <2>5. answers[m] \in Addresses
    BY <1>1
  <2> HIDE DEF first
  <2>6. DetectPublicIP(answers) = {answers[m]}
    BY <2>4 DEF DetectPublicIP, first
  <2> QED BY <2>5, <2>6 DEF Given
<1> QED BY <1>3, <1>4

(* Every step keeps that: the address changes only when there are no       *)
(* tokens (api.go: New, handleInvite, handleRevokeInvite).                 *)
LEMMA LinkInvHolds == ApiSpec => []LinkInv
<1>1. ApiInit => LinkInv
  BY DEF ApiInit, LinkInv
<1>2. LinkInv /\ [ApiNext]_apiVars => LinkInv'
  <2> SUFFICES ASSUME LinkInv, [ApiNext]_apiVars PROVE LinkInv'
    OBVIOUS
  <2>1. CASE ApiStarts
    <3>1. publicIP' \in Given
      BY <2>1, DetectedIsGiven DEF ApiStarts, Given
    <3>2. tokens = <<>> /\ tokens' = tokens /\ up' = TRUE /\ issued' = issued
      BY <2>1 DEF ApiStarts, LinkInv
    <3> QED BY <3>1, <3>2 DEF LinkInv
  <2>2. CASE ApiExits
    BY <2>2 DEF ApiExits, LinkInv
  <2>3. CASE AddLog \/ TimePasses \/ UNCHANGED apiVars
    BY <2>3 DEF AddLog, TimePasses, apiVars, LinkInv
  <2>4. ASSUME NEW asked \in TTLs, handleInvite(asked) PROVE LinkInv'
    <3>1. /\ tokens' = [t \in DOMAIN tokens \cup {randomID} |->
                           IF t = randomID THEN TokenRecord(t, TTL(asked)) ELSE tokens[t]]
          /\ issued' = randomID /\ up' = up /\ serving' = serving /\ serving /\ publicIP' = publicIP
      BY <2>4 DEF handleInvite
    <3>2. randomID \in Nat \ {0} /\ up
      BY <3>1 DEF randomID, LinkInv
    <3>3. \A t \in DOMAIN tokens' : t \in Nat \ {0} /\ tokens'[t].link = ServerLink(publicIP, Port, Text(t))
      <4> SUFFICES ASSUME NEW t \in DOMAIN tokens'
                   PROVE  t \in Nat \ {0} /\ tokens'[t].link = ServerLink(publicIP, Port, Text(t))
        OBVIOUS
      <4>1. CASE t = randomID
        BY <3>1, <3>2, <4>1 DEF TokenRecord
      <4>2. CASE t # randomID
        BY <3>1, <4>2 DEF LinkInv
      <4> QED BY <4>1, <4>2
    <3> QED BY <3>1, <3>2, <3>3 DEF LinkInv
  <2>5. ASSUME NEW t \in 1..issued, handleRevokeInvite(t) PROVE LinkInv'
    <3>1. /\ tokens' = [tokens EXCEPT ![t].revoked = TRUE] /\ serving
          /\ up' = up /\ serving' = serving /\ publicIP' = publicIP /\ issued' = issued
      BY <2>5 DEF handleRevokeInvite
    <3>2. DOMAIN tokens' = DOMAIN tokens /\ \A u \in DOMAIN tokens : tokens'[u].link = tokens[u].link
      BY <3>1
    <3> QED BY <3>1, <3>2 DEF LinkInv
  <2>6. ASSUME NEW t \in 1..issued, ValidateToken(t) PROVE LinkInv'
    BY <2>6 DEF ValidateToken, LinkInv
  <2> QED BY <2>1, <2>2, <2>3, <2>4, <2>5, <2>6 DEF ApiNext
<1> QED BY <1>1, <1>2, PTL DEF ApiSpec

(* The link of every token is read as it was issued, whatever address was  *)
(* found or given, by the desktop app (app.js: parseInviteLink); and the   *)
(* apps for phones read address and token in the form that is documented   *)
(* for them (mobile.go: ParseInviteLink).                                  *)
THEOREM LinksAreReadAsIssued == ASSUME AddressesAreTexts PROVE ApiSpec => []LinksAreRead
<1>1. LinkInv => LinksAreRead
  <2> SUFFICES ASSUME LinkInv, NEW t \in DOMAIN tokens \cap {issued}
               PROVE  /\ parseInviteLink(tokens[t].link) = [server |-> publicIP \o <<":">> \o Port, token |-> Text(t)]
                      /\ ParseInviteLink(ConnectLink(publicIP \o <<":">> \o Port, Text(t)))
                              = [server |-> publicIP \o <<":">> \o Port, token |-> Text(t)]
    BY DEF LinksAreRead
  <2>1. t \in Nat \ {0} /\ tokens[t].link = ServerLink(publicIP, Port, Text(t)) /\ publicIP \in Given
    BY DEF LinkInv
  <2> QED BY <2>1, LinkIsReadBothWays
<1> QED BY <1>1, LinkInvHolds, PTL
=============================================================================
