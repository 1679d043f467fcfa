----------------------------- MODULE TunDevice -----------------------------
(***************************************************************************)
(* The TUN device (core/tunnel) on its three systems: openTUN as the       *)
(* system calls and commands it makes, each of which may fail; ReadPacket  *)
(* and WritePacket with the framing of each system; Close beside a read;   *)
(* the default route.                                                      *)
(*                                                                         *)
(* A handle is one call of Open.  All ask for the same interface name, as  *)
(* the client and the server do.  A packet is the sequence of its bytes;   *)
(* only their number and order matter.                                     *)
(***************************************************************************)
EXTENDS Naturals, Sequences, FiniteSetsExt

CONSTANTS Handles,
          MaxPacket     \* bound: bytes of a packet, and of a caller's buffer

ASSUME TunAssumption == MaxPacket \in Nat

VARIABLES goos,           \* the system this runs on
          phase,        \* of each handle
          step,         \* the next step of its openTUN
          has,          \* what its openTUN obtained and configured
          busy,         \* handles with a ReadPacket in progress
          routes,       \* default routes: the host's own and those of handles
          last          \* the last read or write: asked for, and done

device  == <<goos, phase, step, has>>
tunVars == <<device, busy, routes, last>>

Systems == {"linux", "darwin", "windows"}
NoIO    == [asked |-> <<>>, done |-> <<>>, n |-> 0]

TunInit == /\ goos \in Systems
           /\ phase = [h \in Handles |-> "new"]
           /\ step = [h \in Handles |-> 1]
           /\ has = [h \in Handles |-> {}]
           /\ busy = {} /\ routes = {"host"} /\ last = NoIO
-----------------------------------------------------------------------------
(* One step of openTUN: what it obtains, whether its failure is returned,  *)
(* and what is closed before it is.                                        *)
Must(what, closes) == [gets |-> what, fatal |-> TRUE, closes |-> closes]
May(what)          == [gets |-> what, fatal |-> FALSE, closes |-> {}]

OpenLinux   == <<Must("fd", {}), Must("interface", {"fd"}), Must("up", {"fd"}),
                 Must("addr", {"fd"}), Must("mtu", {"fd"})>>

OpenDarwin  == <<Must("fd", {}), Must("control", {"fd"}), Must("interface", {"fd"}),
                 Must("name", {"fd"}), Must("up", {"fd"}), May("addr"), Must("mtu", {"fd"})>>

(* A mutant: the adapter stays when the session cannot be started.         *)
OpenWindowsKeepsAdapter ==
    <<Must("dll", {}), Must("adapter", {}), Must("addr", {"adapter"}), May("mtu"), Must("session", {})>>

OpenWindows == <<Must("dll", {}), Must("adapter", {}), Must("addr", {"adapter"}),
                 May("mtu"), Must("session", {"adapter"})>>

OpenTUN == CASE goos = "linux" -> OpenLinux [] goos = "darwin" -> OpenDarwin [] OTHER -> OpenWindows

(* TUNSETIFF refuses a name that is attached to an open descriptor; utun   *)
(* numbers its interfaces itself.                                          *)
NameTaken(h) == goos = "linux" /\ \E g \in Handles \ {h} : {"fd", "interface"} \subseteq has[g]

OpenBegins(h) == /\ phase[h] = "new"
                 /\ phase' = [phase EXCEPT ![h] = "opening"]
                 /\ UNCHANGED <<goos, step, has, busy, routes, last>>

StepDone(h) == LET s == OpenTUN[step[h]] IN
    /\ phase[h] = "opening"
    /\ ~(s.gets = "interface" /\ NameTaken(h))
    /\ has' = [has EXCEPT ![h] = @ \cup {s.gets}]
    /\ IF step[h] = Len(OpenTUN)
       THEN phase' = [phase EXCEPT ![h] = "open"] /\ UNCHANGED step
       ELSE step' = [step EXCEPT ![h] = @ + 1] /\ UNCHANGED phase
    /\ UNCHANGED <<goos, busy, routes, last>>

StepFails(h) == LET s == OpenTUN[step[h]] IN
    /\ phase[h] = "opening"
    /\ IF s.fatal
       THEN /\ phase' = [phase EXCEPT ![h] = "failed"]
            /\ has' = [has EXCEPT ![h] = @ \ s.closes]
            /\ UNCHANGED step
       ELSE step' = [step EXCEPT ![h] = @ + 1] /\ UNCHANGED <<phase, has>>
    /\ UNCHANGED <<goos, busy, routes, last>>
-----------------------------------------------------------------------------
PacketOf(n)    == [i \in 1..n |-> i]
Cut(s, n)      == SubSeq(s, 1, Min({n, Len(s)}))
Family         == <<"f", "f", "f", "f">>

(* What ReadPacket puts into a buffer of room bytes for a packet the       *)
(* system has.  A descriptor's read drops what does not fit.               *)
LinuxRead(p, room)   == Cut(p, room)

(* A mutant: the protocol family is counted but not skipped.               *)
DarwinReadUnstripped(p, room) == Cut(Family \o p, room)

DarwinRead(p, room)  == LET tmp == Cut(Family \o p, room + 4)
                        IN  IF Len(tmp) < 4 THEN <<>> ELSE SubSeq(tmp, 5, Len(tmp))

WindowsRead(p, room) == IF Len(p) > room THEN Cut(p, room) ELSE p

PacketRead(p, room) == CASE goos = "linux" -> LinuxRead(p, room)
                       [] goos = "darwin" -> DarwinRead(p, room)
                       [] OTHER -> WindowsRead(p, room)

(* What the interface gets and the number of bytes WritePacket reports.    *)
DarwinWrite(p) == LET n == Len(Family \o p)
                  IN  [done |-> SubSeq(Family \o p, 5, n), n |-> IF n > 4 THEN n - 4 ELSE n]
PacketWritten(p) == IF goos = "darwin" THEN DarwinWrite(p) ELSE [done |-> p, n |-> Len(p)]

(* Close: the interface goes down, then the descriptor is given up.  A     *)
(* blocked read keeps it until it returns (os.File counts the calls in     *)
(* it); a WinTUN session is gone when Close ends it.                       *)
LinuxClose(h)  == {"up"} \cup (IF h \in busy THEN {} ELSE {"fd"})
DarwinClose(h) == {"up"} \cup (IF h \in busy THEN {} ELSE {"fd"})
WindowsClose   == {"session", "adapter"}
GivenUp(h)     == CASE goos = "linux" -> LinuxClose(h) [] goos = "darwin" -> DarwinClose(h)
                  [] OTHER -> WindowsClose

ReadPacketBegins(h) == /\ phase[h] = "open" /\ h \notin busy
                       /\ busy' = busy \cup {h}
                       /\ UNCHANGED <<device, routes, last>>

(* A packet, the error of a closed device, or on Windows no packet yet.    *)
ReadPacketReturns(h) == /\ h \in busy
                        /\ busy' = busy \ {h}
                        /\ \/ \E n, room \in 0..MaxPacket :
                                 LET got == PacketRead(PacketOf(n), room)
                                 IN  last' = [asked |-> Cut(PacketOf(n), room), done |-> got, n |-> Len(got)]
                           \/ goos = "windows" /\ last' = NoIO
                           \/ phase[h] = "closed" /\ UNCHANGED last
                        /\ has' = IF phase[h] = "closed" THEN [has EXCEPT ![h] = @ \ {"fd"}] ELSE has
                        /\ UNCHANGED <<goos, phase, step, routes>>

WritePacket(h) == /\ phase[h] = "open"
                  /\ \E n \in 0..MaxPacket :
                        last' = [asked |-> PacketOf(n), done |-> PacketWritten(PacketOf(n)).done,
                                 n |-> PacketWritten(PacketOf(n)).n]
                  /\ UNCHANGED <<device, busy, routes>>

(* A mutant: the descriptor itself is closed, whoever reads from it.       *)
CloseAtOnce(h) == /\ phase[h] = "open"
                  /\ phase' = [phase EXCEPT ![h] = "closed"]
                  /\ has' = [has EXCEPT ![h] = @ \ (GivenUp(h) \cup {"fd"})]
                  /\ UNCHANGED <<goos, step, busy, routes, last>>

CloseDevice(h) == /\ phase[h] = "open"
                  /\ phase' = [phase EXCEPT ![h] = "closed"]
                  /\ has' = [has EXCEPT ![h] = @ \ GivenUp(h)]
                  /\ UNCHANGED <<goos, step, busy, routes, last>>
-----------------------------------------------------------------------------
(* The routes there are after the command that addRoute runs.  On Windows  *)
(* it is "route route add ...", which adds nothing.                        *)
LinuxAdd(h)  == routes \cup {h}
DarwinAdd(h) == routes \cup {h}
WindowsAdd   == routes

(* And after that of removeRoute, which names the interface on Linux and   *)
(* macOS, and on Windows only the destination.                             *)
LinuxRemove(h)  == routes \ {h}
DarwinRemove(h) == routes \ {h}
WindowsRemove   == {}

(* Either command may fail.                                                *)
addRoute(h) == /\ phase[h] = "open"
               /\ \/ routes' = CASE goos = "linux" -> LinuxAdd(h) [] goos = "darwin" -> DarwinAdd(h)
                                [] OTHER -> WindowsAdd
                  \/ UNCHANGED routes
               /\ UNCHANGED <<device, busy, last>>

removeRoute(h) == /\ phase[h] = "open"
                  /\ \/ routes' = CASE goos = "linux" -> LinuxRemove(h) [] goos = "darwin" -> DarwinRemove(h)
                                   [] OTHER -> WindowsRemove
                     \/ UNCHANGED routes
                  /\ UNCHANGED <<device, busy, last>>
-----------------------------------------------------------------------------
TunNext == \E h \in Handles : \/ OpenBegins(h) \/ StepDone(h) \/ StepFails(h)
                              \/ ReadPacketBegins(h) \/ ReadPacketReturns(h) \/ WritePacket(h) \/ CloseDevice(h)
                              \/ addRoute(h) \/ removeRoute(h)

TunSpec == TunInit /\ [][TunNext]_tunVars
-----------------------------------------------------------------------------
(* Whichever of its steps fails, an Open that returns an error has closed  *)
(* what it had opened, and one that succeeds hands out a device with an    *)
(* interface that is up, down to the end of its last command.              *)
OpenIsAllOrNothing ==
    \A h \in Handles : /\ phase[h] = "failed" => has[h] \cap {"fd", "adapter", "session"} = {}
                       /\ phase[h] = "open" => \/ {"fd", "interface", "up"} \subseteq has[h]
                                               \/ {"adapter", "session", "addr"} \subseteq has[h]

(* For every packet and buffer and on every system, ReadPacket returns the *)
(* packet's first bytes, as many as fit, and WritePacket hands over the    *)
(* whole packet and reports its length, unless it is empty.                *)
FramingIsUndone == last.done = last.asked /\ (last.asked # <<>> => last.n = Len(last.asked))

(* On Linux a device is open for one handle at a time, whatever the other  *)
(* handles are at and whichever of their steps fails: openTUN of one fails *)
(* as long as another has the name, be it only for a read that has not     *)
(* returned when its device is closed.                                     *)
LinuxDevice == INSTANCE Device WITH Users <- Handles, reading <- busy,
                                    open <- {h \in Handles : phase[h] = "open"}

ImplementsDevice ==
    LinuxDevice!DeviceInit /\ [][goos = "linux" => LinuxDevice!DeviceNext]_(LinuxDevice!deviceVars)
=============================================================================
