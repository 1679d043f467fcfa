# HomeTunnel: specifications and proofs

TLA+ models of HomeTunnel (a peer-to-peer VPN in Go, with apps for Android and
iOS), the TLC runs that check them, and TLAPS proofs about twenty of the models.
`src/` below is the repository; every path is relative to it. The repository
holds a second copy of most Go files (`main 2.go` and the like) with the same
contents; the models refer to the first.

Contents: [the system](#the-system) · [the modules](#the-modules) ·
[the runs](#the-runs) · [bounds](#bounds) · [fairness](#fairness) ·
[what the code does not do](#what-the-code-does-not-do) · [proofs](#proofs) ·
[not modelled](#not-modelled) · [plan](#plan)

## The system

A server at home opens a TUN device and a UDP socket. A client (desktop,
Android, iOS) with an invite token runs a four-message handshake (HELLO,
CHALLENGE, AUTH, ACCEPT), gets a virtual IP and exchanges IP packets sealed with
the session key (DATA), KEEPALIVE and DISCONNECT. A local HTTP API shows the
sessions, issues and revokes tokens, and starts and stops the VPN.

| Component | State | Operations | Talks to |
|---|---|---|---|
| session encryption, replay window (`core/encryption`) | send counter; `maxSeen` and a bitmap of 64-bit words | `Seal`, `Open` = `Check`, decrypt, `Mark` | both ends of the data path |
| transport (`core/transport`) | UDP socket, two channels of 2048 packets, two goroutines | `Send`, `Recv`, `Stats`, `Close` | every user of a socket |
| obfuscation (`core/transport`) | settings of each end | `obfuscate`, `deobfuscate` | transport |
| codec (`core/protocol`, `core/handshake`) | none | headers and payloads, to bytes and back | handshake, data path |
| handshake (`core/handshake`) | one goroutine per HELLO, one per client attempt; key pair, challenge, session key | `ServerHandshake`, `ClientHandshake` | transport, token store, pool |
| manager (`server/client_manager`) | sessions, two indexes, address pool, failure counts, blocked sources | `NewIPPool`, `AssignIP`, `Add`, `Remove`, lookups, sweep, `RecordFailure`, `IsBlocked` | handshakes, dispatch |
| dispatch (`server/main.go`) | none of its own | `dispatchLoop`, `handleInbound`, `tunReadLoop` | all of the above |
| VPN start and stop (`server/main.go`, `server/api`) | `Running`, the context, `tun`, `udpConn`, NAT rules | `startVPN`, `stopVPN` | API handlers, main |
| local API (`server/api`) | tokens, public address, ring of log lines | issue, revoke and validate a token, the invite link, `AddLog` | handshake, apps |
| configuration (`shared/config`) | `server.json` | load, generate the key, save | main |
| TUN drivers (`core/tunnel`) | one device per system, the default route | open, read, write, close, `addRoute`, `removeRoute` | desktop client, server |
| desktop client (`client/desktop`) | state, cancel function, transport, TUN device, default route | `connect`, `disconnect`, `connectLoop`, `runDataLoop`, `measureLatency` | transport, Electron UI |
| mobile engine (`core/mobile`) | cancel function, session, queue of inbound packets | `Connect`, `Disconnect`, `ReadPacket`, `WritePacket`, `ParseInviteLink` | transport, the two apps |
| Android service (`HomeTunnelVpnService.kt`) | engine, device | start, stop, the engine's events, `openTun` | mobile engine, system |
| iOS packet tunnel (`PacketTunnelProvider.swift`) | engine, completion handler | start, stop, the engine's events, the settings' answer | mobile engine, system |

What is hard here is concurrency and an unreliable network: every handshake
goroutine and the dispatch loop receive from one channel; the sweep acts on a
list that may be stale; start and stop share variables without a lock; a
client's connect, disconnect and retry loops interleave; the apps for phones are
called on several threads and open their device later than they ask for it; UDP
loses, repeats, reorders and delays; the process may be killed at any moment.
`PROJECT.json` lists each hazard at its line with the properties that watch it.

What makes each component correct, in a sentence:

- replay window: no packet is opened twice, and nothing new inside the window is refused;
- transport: order is kept, drops are counted, a close ends everything and returns;
- obfuscation and codec: what one end builds the other reads, at every length and at the ends of every field;
- handshake and dispatch: both ends agree on key and address, one session per attempt, and none any more for a client whose token was revoked while it had none;
- manager: no address has two holders, no index entry dangles, idle sessions are kept and dead ones evicted;
- rate limit: nobody has five failures in a minute and is not blocked, and a block lasts;
- address pool: exactly the usable addresses of the subnet, each once;
- VPN lifecycle: what Running says is what is open, and a start gets a device only when nobody has it;
- local API: a token is good for the time asked for and never again after it was refused; a link is read as it was written;
- configuration: a server that serves has what the user and it last saved;
- TUN drivers: an open is all or nothing, a device has one user at a time and a blocked read counts as one, framing is undone;
- clients: "connected" means there is a tunnel, the default route has its device, a cancelled loop ends and closes what it opened;
- apps for phones: whatever is open can still be reached, the system's handler is called at most once.

## The modules

Each module has the code's operations as actions. A step is what happens
between two points where another goroutine can interfere: a critical section, a
channel operation, a system call. `map` in `PROJECT.json` gives the lines of
every definition. Definitions whose comment begins "A mutant" are plausible
wrong versions of the definition that follows; no specification uses them, they
show that a property can fail.

### What packets go through

**SlidingWindow, ReplayWindow** (`core/encryption`). `SlidingWindow` is the
promise: a set of accepted numbers and a rule for which are too old.
`ReplayWindow` is the code: a bitmap of `WordBits`-bit words, `shiftWindow` with
its carry from word to word, wrapping addition in `Check`. `Window` in
`ReplayWindow` is the refinement mapping. `Open` is one action, since each
session is opened by one goroutine; any sealed packet may arrive any number of
times, damaged ones too. The AEAD is abstract: genuine packets open, damaged
ones do not.

**Transport** (`transport.Conn`). The two loops, the two bounded channels,
drops and their counters, `Close` with `sync.Once` and `WaitGroup`.

**Obfuscation** (`obfuscate`, `deobfuscate`). Pure operators on sequences of
bytes: padding, the length byte and the XOR with the repeated key, which is a
constant operator that undoes itself (`ByteXor`; `MCWire` gives it the bitwise
one). (The comment
on `HeaderXOR`, `core/transport/transport.go:55`, speaks of the first 16 bytes;
the code masks all.)

**Codec** (`core/protocol`, the payloads of `core/handshake`). Pure operators
that build and take apart headers, HELLO, CHALLENGE, AUTH, ACCEPT and DATA, with
the offsets of the code and the widths of its fields as constants. An HMAC is
one symbol.

**KeyExchange** (`core/handshake` over `core/encryption`). One handshake, byte by
byte through `Codec` and `Obfuscation`, and the first DATA packet after it. The
key agreement is computed in a small group; HKDF, HMAC and the AEAD are free
constructors. One packet may be cut short or have a byte changed, and each clock
may stand anywhere in its range. `ClientObfs` and `ServerObfs` are the options
each program uses: the configuration's defaults, or those of the mobile engine,
which has none.

**DataPlane** (both ends of the data path). A sealed packet carries the header
it was sealed with and the header it is sent with, since the code fills in the
sequence number between the two. It uses the abstract window, which
`ReplayWindow` implements. `measureLatency` is there with the lock it holds.
**Tunnel** is the promise to the packets of an established session: each is
written once at most, and to the other end's device; `DataPlane` implements it.
`WindowsSlide` states that both windows of `DataPlane` are abstract ones.

`MCWire` puts `ReplayWindow`, `Transport`, `KeyExchange` and `DataPlane` side by side.

### The server

**ClientManager** (`server/client_manager`). Sessions, the indexes `byIP` and
`byAddr`, the pool, the failure counts. The session id is the handshake that
drew it. `object` keeps the fields of a `Session` after it left the table, as
the goroutine that holds the pointer does. `sweepIdle` is two actions:
`SweepScan` under the read lock, then one `SweepRemove` per listed session. A
session "may be silent" (`FallsSilent`) instead of having a clock.

**Server** (`server/main.go`, `core/handshake`), with `MCServer`. Extends
`ClientManager`: the dispatch actions and the handshakes call its operations.
`toServer` is the network and the receive channel in one (UDP reorders, so they
can be merged). Whoever takes a packet, `dispatchLoop` (`Dispatch...`) or a
waiting handshake (`WaiterDrops`, `ReceiveAuth`), keeps or drops it. A client's
attempt has a fresh port and key pair, so an address stands for an attempt; a
challenge is the goroutine that made it, and the session key is the pair.
`issued` is the set of attempts with a token, chosen at the start, and `revoked`
grows; `Lossy` says whether packets may get lost. `UsesManager` states that the server's steps are
manager steps.

**Agreement** is what a handshake promises the two ends of one attempt: the client
makes one offer, the server accepts that one or none, and the client is through only
after that. It is implemented twice. In `Server` (`AttemptsAgree`) the offer is the
challenge the client takes up, among many attempts, handshakes and repeated packets;
in `KeyExchange` (`ImplementsAgreement`) it is the key and the token in the AUTH, of
one attempt whose packets are damaged. A client that has given up has still made its
offer (`Answered`): the server may accept it later.

**RateLimit** (`RecordFailure`, `IsBlocked`, and the HELLO branch of
`handleInbound`), with the clock that `ClientManager` leaves open: the window
that starts again at every failure, the block and its end, and handshakes that
began before a block and fail during it. `ImplementsLimiter` states that without
the clocks it is the limiter of `ClientManager`, where time passes unseen
(`TimePassed`).

**AddressPool** (`NewIPPool`, `incrementIP`, `broadcastIP`). The loop over a
subnet, octet by octet with its carry, one round a step, for a subnet of any
size. What the pool should be is said by the order of addresses (`Before`): all
of the subnet but its first, its last and the server's.

**Keepalive** (client ticker, `LastSeen`, sweep ticker). Discrete time with the
code's periods as parameters; a keepalive is lost, or arrives within `MaxDelay`.

**VpnLifecycle** (`startVPN`, `stopVPN`, the start and stop handlers, and the two
loops a start spawns). Every thread has a program counter; each system call and
each access to `tun`, `udpConn`, `err` and `Running` is a step. Devices and
sockets are numbered by the call that opened them, so a pointer to a closed one
is visible. `overlapped` records that a start has been in progress beside another
call. There is one device name and one port, so a second open fails while the
first is open. `loops` are the dispatch loops, `readers` their `tunReadLoop`s and
`reading` those that are in a `ReadPacket`: nothing but the next packet ends a
read, so it may outlive a stop, and then its descriptor keeps the device
(`Kept`) and the next start fails. The commands of `setupNAT` and `teardownNAT` may fail
unseen, so that `nat` may stay as it is in either.

**LocalApi, InviteLink** (`server/api`, and the readers of its links). The
process starts and ends; a start finds the public address, or is given it, and
listens or fails to. Tokens live in memory. `TTL` and `Wrapped` compute a
lifetime as the code does, in nanoseconds that wrap at 64 bits, here at
`Durations`. `InviteLink` builds the link as `handleInvite` does and reads it as
the Electron client and the mobile engine do, character by character, since the
property is about the text; the parsers' loops are recursive functions.

**ConfigStore** (`shared/config`, the start of `server/main.go`). Load, key
generation, and `os.WriteFile` in its two steps, truncate and write, with a kill
possible between any two and the user's edits in between.

`MCProcess` puts `Keepalive`, `VpnLifecycle`, `RateLimit`, `LocalApi`,
`ConfigStore`, `AddressPool` and `TunDevice` (below) side by side.

### The clients

**DesktopClient** (`connect`, `disconnect`, `connectLoop`, `doConnect`, main).
An attempt is a connect command with its context and loop. Commands run in
goroutines of their own, in any order (`orders`). A disconnect takes the cancel
function under the lock and calls it after the unlock (`cancelling`). The deferred
calls of `doConnect` are steps in their order; the command that removes the route
may fail like the one that adds it (`unremoved`). The goroutine that reads the device may
outlive them (`readers`): until its read returns the device stays taken, and the
interface with what routes there are into it. `gone` are sessions the server has
forgotten. `Exit` is the end of the process, which runs no deferred call.

**TunDevice** (`core/tunnel`). `openTUN` of Linux, macOS and Windows as the list
of its steps, each of which may fail, with what each failure closes; reads and
writes with the framing of each system, down to packets that do not fit; `Close`
beside a blocked read; and the routes. `addRoute` on Windows runs
`route route add`, which adds nothing, and `removeRoute` there names only the
destination.

**Device**: the promise between the two, for the device of Linux. It is open for one
user at a time, a read that has not returned keeps the name, and the end of the process
gives all back. `TunDevice` implements it on Linux (`ImplementsDevice`), and
`DesktopClient` and `VpnLifecycle` do nothing else with their devices (`UsesDevice`,
`ServerUsesDevice`).

`MCBothEnds` puts `Server` and `DesktopClient` side by side, for what needs
fairness. The names of `DesktopClient` have a prefix (`ClientSpec`) where those of
`Server` would clash.

**EngineEvents**: what a mobile engine promises the app that uses it, that is
the order of the states it announces, silence after "disconnected", and that
Disconnect is followed by it.

**MobileEngine** (`core/mobile`). `Connect` and its loop, the receive goroutine,
the inbound queue, and the app's readers and writers. `shown` is the state each
attempt announced last; `ImplementsEvents` states that the engine implements
`EngineEvents`.

**AndroidService** and **IosTunnel** rely on it: each instantiates `EngineEvents`
and reacts to its steps. In `AndroidService` the calls of the system are lists
of steps of the main thread, `openTun` runs beside them, and `crossed` records
that one met a stop or a device that was still open. In `IosTunnel` the answer
to `setTunnelNetworkSettings` comes at any later time.

`MCMobile` puts the three side by side.

### Side by side

Parts that an MC module puts side by side share no state. Its `part` says whose
steps a behaviour takes, and the others stay as they begin (`MCBothEnds` has `end` for it): the state space is
the sum of the parts', and every property is checked for its part as if it had
the run for itself.

Abstractions made throughout: cryptography succeeds exactly when keys, numbers
and associated data agree; payloads are left out; logs, statistics and events
are left out unless a property is about them; addresses, sources and tokens are
model values, except where their bytes or characters are the point (`Codec`,
`AddressPool`, `InviteLink`).

The theorems are in **ReplayWindowProofs** (of `ReplayWindow` and `DataPlane`),
**WireProofs** (of `Transport`, `Obfuscation`, `Codec` and `KeyExchange`),
**ClientManagerProofs**, **ServerProofs**, **ClockProofs** (of `Keepalive` and
`RateLimit`), **StartStopProofs** (of `VpnLifecycle`, `LocalApi`, `ConfigStore` and
`AddressPool`), **DesktopProofs** (of `DesktopClient` and `TunDevice`) and
**MobileProofs** (of `MobileEngine`, `AndroidService` and `IosTunnel`).

## The runs

Runs that pass:

| Run | Checks | Shows |
|---|---|---|
| `server` | UniqueIPs, IndexesLive, KeyAgreement, OneSessionPerAttempt, RevokedStaysOut, UsesManager | two clients, either without a token or with one that is revoked, three handshakes, one packet repeated, any lost, sweeps on stale lists: no address shared, no index dangling, no session duplicated, nobody back in who is out, both ends agree on the key, and the table is only used as the manager allows |
| `both_ends` | HandshakesEnd, GoneIsForgotten | handshakes end, also when the pool is dry, and a client that is gone is forgotten |
| | ConnectedHasTunnel, RouteHasTun, NothingLeaks, CancelledEnds | two loops of the desktop client interleaved with disconnects, failing commands, reads that do not return and the end of the process; a cancelled loop ends |
| `process` | RunningMatchesResources, ServerUsesDevice | calls of start and stop, each failing anywhere: unless a start met another call they leave what Running says; whatever overlaps, no start takes a device that a reader is still in |
| | SurvivesLosses, SilenceIsBounded | idle clients are kept, dead ones evicted in time |
| | GuessesAreLimited, BlockLasts | no source fails three times within a window unblocked, and no handshake begins during a block |
| | InvitesAreHonoured, LinksAreRead | tokens live as long as asked for, in wrapping time and across boots; the desktop app reads the link that was issued |
| | ServesWhatWasSaved | no crash, failed write or edit makes a server come up with another key or another setting |
| | PoolIsExact | the pool of every subnet is exact |
| | OpenIsAllOrNothing, FramingIsUndone, ImplementsDevice | two devices on each of three systems, every failure of an open, packets of every short length; on Linux, one user at a time, a read that outlives its device included |
| `mobile` | LiveLoopIsReachable, NothingOutlives, ImplementsEvents | a second Connect while the first loop tears down; the states an app is told |
| | NothingOutOfReach, CompletionOnce | both apps over any engine that keeps that promise, with starts, stops and answers in any order |
| `wire` | AtMostOnce, BitmapExact, ImplementsWindow | every order of eleven packets through three words of two bits |
| | OrderKept, DropsAreCounted, CloseTerminates | a channel that overflows, datagrams that are refused, failing sockets, two closers |
| | ExchangeAgrees, WireIsReadable, FrameArrives | a handshake with a damaged packet and extreme clocks, byte by byte, and every padding |
| | CountersProceed | the latency probe's lock never starves the packet goroutines |

The other runs end in a violation; they are
[below](#what-the-code-does-not-do). `CHECK_DEADLOCK FALSE` is set because every
model stops for a reason of its own: a bound on packets, attempts, starts or
ticks is reached, or the process has ended.

## Bounds

- Server: three handshakes and two addresses let a late handshake meet an
  earlier session of its address. Two clients share one source IP, so that one
  affects the other's limit. One repetition by the network (`MaxDups`) is enough
  for two handshakes of one attempt. `Callers` and `Addrs` are symmetric in the
  safety run, whose clients send DATA; in the liveness run they send KEEPALIVE
  and a pool of one address runs dry.
- VPN lifecycle: four calls (start, stop, start again, stop, with a failure in
  any) by main and two handlers, two in progress at once.
- Keepalive: 5, 24, 6, a delay of up to 2 and three losses in a row are the
  ratios of 25 s, 120 s, 30 s, 10 s. `(3 + 1) * 5 + 2 * 2 = 24` is the tightest
  case in which the theorem's hypothesis still holds.
- Rate limit: one source, since sources do not meet; two handshakes at a time and
  a limit of three, so that a handshake of before a block counts towards the
  next; twelve ticks hold a block, its end and a second one.
- Local API: a lifetime of 3 hours of 2 ticks wraps at 10, one of 2 hours does
  not; two boots, so that a token of the first is tried in the second; a ring of
  two lines with three of them.
- Configuration: three starts and two edits make a torn file, its repair and
  another start. Every start may draw a key of its own.
- Address pool: four octets of two bits, and of them every subnet of at least one
  bit, its first address or another one being the server's: the carry crosses
  every octet and the loop meets the last address there is.
- Desktop client: two loops, which show every pairwise interference; the safety
  properties are proved for any number. Two goroutines of a command may be late
  (`MaxOrders`), so that two connects are reordered, or a disconnect that has taken a
  cancel function is overtaken by another.
- TUN devices: two handles, as of two loops. Packets and buffers of up to six
  bytes are shorter and longer than the four bytes of the family.
- Mobile: two attempts, a reader, a writer, a queue of one with two packets, so
  that it is full; two starts and three opens of the Android service.
- Replay window: two-bit words and three of them make every case of
  `shiftWindow` (whole words, bits, carry, clear) occur within eleven packets;
  the proofs cover every size.
- Transport: channels of two with two packets in and three out, so that the
  outgoing one is filled and drops, and each is closed with packets in it. An
  incoming packet is dropped for another reason at any filling; the proofs cover
  every capacity and any traffic.
- Handshake: bytes of 3 bits, keys of two bytes and a group of order 60, so that
  a field is longer than a byte; tokens of one and two bytes and IP packets of
  one and fifteen, so that offsets move; one damaged packet; clocks at the ends
  and in the middle of their range, where their difference overflows.
- Data plane: two packets each way with a window of two, one repetition, one
  tick (which is past the tolerance of zero), two probes.

## Fairness

Only what the Go runtime and the timers give:

- weak fairness of a goroutine's next step (`Loop`, `Writing`, `Closing`): a runnable goroutine runs. It says nothing of the user, who need
  not call, of the network, which need not deliver, nor of the server, which need
  not forget; nor of a blocked read of a device, which may never return. On the
  desktop it holds while the process runs;
- weak fairness of timers (`WaitTimesOut`, `ClientGivesUp`, `ProbeTimesOut`,
  `SweepScan`). `waitForType` looks at its deadline only when it finds the
  channel empty: the model takes the channel to be empty from time to time,
  which holds unless packets arrive faster than the goroutines take them;
- strong fairness where a `select` has a ready context and another ready case
  (`BackoffCancelled`, `WriterEnds`): Go chooses at random, so the context is
  not passed over for ever; and for waiters of `c.mu` (`Count`), since
  `sync.Mutex` hands itself over to a waiter that has starved for a millisecond.
  `WF` of `a \in cancelled /\ ReceiveEnds(a)` is the mobile receiver's share of this.

`EngineEvents` promises an answer to every Disconnect; `ImplementsEvents` derives
it from the fairness of the engine. The apps over it are checked for safety only.

## What the code does not do

Each of these runs states a sentence of the repository and finds a behaviour of
the code that breaks it. `findings` in `PROJECT.json` has the quotation.

| Run | Property | What happens |
|---|---|---|
| `data_not_forwarded` | DataIsForwarded | the header authenticated is not the header sealed: only the packet numbered 0 opens |
| `server_routing` | RoutesToClient | sessions are indexed under 0.0.0.0, so return traffic finds no client |
| `server_auth_swallowed` | AuthReachesWaiter | `dispatchLoop` takes the AUTH a handshake waits for and drops it, although the network loses nothing |
| `drop_unnoticed` | DropIsNoticed | a client whose session the server has lost stays in its data loop for ever |
| `block_without_burst` | BlockNeedsBurst | the window of the failure counter starts again at every failure, so failures 50 s apart block a source, where the repository's README speaks of five attempts in 60 s |
| `phones_read_links` | PhonesReadLinks | the link the server issues has no `server` parameter, which the phones' parser requires |
| `mobile_obfuscation` | HelloIsRead | the mobile engine sends plain packets, which a server with its default settings unmasks: it reads none of them |

The models show more behaviours that a reader of the documentation would not
expect. They are in the actions named here, which do what the code does; no run
asks for the opposite.

Server:

- `Remove` releases 0.0.0.0 and not the address that was promised, so the pool
  only shrinks (`server/client_manager/manager.go:139`, `Evict`); it deletes
  index entries by key, a later session's too (line 138).
- A session touched between the sweep's scan and its removals is evicted
  (`manager.go:271`, `SweepRemove`).
- Handshakes that time out count as failed authentications, so clients with
  good tokens can block their own source (`server/main.go:244`, `Fail`). A
  handshake that began before a block and fails during it counts towards the next
  (`manager.go:246`, `RecordFailure`).
- A subnet of 0 bits contains every address and `NewIPPool` never returns
  (`manager.go:299`).
- Revoking a token leaves its session alone (`server/api/api.go:278`, `Revoke`),
  and the handler takes the token from `?id=`, where the comment at line 14 has
  it in the path. A lifetime that does not fit 64 bits of nanoseconds wraps
  (line 256, `Wrapped`). When the API cannot listen, the process goes on without
  it (line 148, `Listens`).
- The VPN's context is made once: a start after a stop has loops that end at
  once while Running is TRUE (`server/main.go:96`, `LoopEnds`). A stop beside a
  start misses what the start opens later (`server/main.go:152`, `CloseConn`). The
  `tunReadLoop` of a stopped VPN looks at its context between two reads only
  (line 327), and until a packet comes its read may keep the device from the next
  start (`OpenTun`). `setupNAT` returns nil whatever its commands do (line 387,
  `SetupNAT`), and nothing removes the rules when the listener fails.
- A key that cannot be written is used all the same, and another is drawn at the
  next start (`SaveOpens`). A file torn by a crash is refused until the user
  repairs it, and so is the `"72h"` that the repository's README (line 327)
  gives as `token_ttl` (`LoadServerConfig`). The key and `token_ttl` are loaded
  and used nowhere; `LoadClientConfig` and `SaveClientConfig` have no caller.

Desktop client:

- A connect is accepted while another loop is between two attempts, and two loops
  run (`client/desktop/main.go:123`, `Connect`); a disconnect cancels the context
  published last, or none (line 393, `Disconnect`). One that comes during a dial,
  a handshake or a pause ends the loop and leaves the state at "reconnecting"
  (`BackoffCancelled`).
- When the command that removes the default route fails (line 236, `RemoveRoute`), the
  route goes with the interface only, which a blocked read may keep.
- The latency probe drops the DATA packets it takes (line 427, `ProbeReceives`),
  and clients have no timestamp guard (line 329, `ClientReceives`).
- On Windows no default route is added (`WindowsAdd`), and removing it removes
  the host's (`WindowsRemove`).

Phones:

- `Disconnect` calls the cancel function after it has given up the lock
  (`core/mobile/mobile.go:115`, `CancelTaken`): a Connect in between starts a second
  loop beside one that is not cancelled yet.
- A mobile loop that ends clears the session a newer one has set
  (`core/mobile/mobile.go:298`, `Clear`); nobody closes the inbound channel, so
  a reader stays blocked after a disconnect (line 151, `ReadPacket`).
- A device that `openTun` opens after a stop stays open, and the "disconnected"
  of an engine that was replaced closes the device of the new one
  (`AndroidService`, `Establish` and `handleGoEvent`).
- The completion handler of iOS is never called when the server cannot be
  reached, and the settings are not renewed when the engine reconnects
  (`IosTunnel`, `didConnect`).

Transport:

- `Close` may leave a queued DISCONNECT unwritten (`core/transport/transport.go:313`,
  `WriterEnds`); one socket error that is no timeout ends reading for good (line
  213, `ReadFails`).

## Proofs

`ReplayWindowProofs` (assumption: `WindowAssumption` of `ReplayWindow`, that
sizes are positive and numbers fit in the sequence space):

- `TypeCorrect`, `NeverOpenedTwice`, `BitmapShowsAccepted`, `HighestIsAccepted`:
  `Spec => []` of `TypeOK`, `AtMostOnce`, `BitmapExact`, `MaxSeenIsAccepted`,
  for every word size, window size and number of packets, wrap included.
- `Refinement`: `Spec => ImplementsWindow` under
  `MaxSeq + WindowSize < SeqSpace`; with 2^64 numbers this is out of a session's reach.

`AtMostOnce` is not inductive: that `Open` refuses what it has opened rests on
the bitmap being exact, and `BitmapExact` in turn, when a packet moves the
window forward, on no number above `maxSeen` having been accepted. `Inv` is the
conjunction of `TypeOK`, `AtMostOnce`, `BitmapExact`, that bound, and that
`maxSeen` is 0 or accepted. Its lemmas are about the operators: the
decomposition of a slot into word and bit is unique (`DivModUnique`), a shift by
n moves slot i to slot i + n whether or not the carry crosses a word
(`ShiftMovesSlots`), wrapping in `Check` only ever makes a packet look older
(`NotTooOld`), and an accepted packet keeps `Inv` (`AcceptKeepsInv`).

`ReplayWindowProofs`, of `DataPlane` (assumption: `DataPlaneAssumption`, the types of
the bounds): `SessionIsTunnel` proves `ImplementsTunnel` and `OnlyFirstGetsThrough`
`OnlyFirstArrives`, for any window, traffic and repetition. No run checks the two.
`PlaneInv` says that what is under way to an end has a number the other has used
(`UnderWay`) and that an end has marked exactly what it forwarded, once
(`MarkedOnce`). The tunnel needs no more, and would be one with a repaired header
too. That numbers are sealed as 0 (`FromPeer`) gives the second theorem: the
finding of the run `data_not_forwarded`, of every packet.
`WindowsAreSliding` proves `WindowsSlide`, that each end's marks and highest number are a
`SlidingWindow`, step by step (`StepsMoveWindows`), and so the abstract window that
`ReplayWindow` implements is the one the tunnel rests on. `BitmapDecides` says it of the
checks themselves: while no number comes within a window of the wrap, `Check` lets a
number through in the bitmap exactly when it is new and in the window.

`ClientManagerProofs` and `ServerProofs` (assumptions: `ManagerAssumption`, that
an absent key is neither a caller nor an address and that blocking takes at
least one failure, and `ServerAssumption`, the types of the constants) prove for
any number of attempts, handshakes, repetitions and addresses:

- `ServerUsesManager`: the server implements `ManagerSpec`, so every call finds
  the manager's precondition true (one `AssignIP` and one `Add` per handshake,
  `Touch` and `Remove` only of sessions that were added);
- `ServerTypeOK`, `ServerUniqueIPs`, `ServerIndexesLive`, `ServerKeyAgreement`,
  `ServerOneSession`: `Spec => []` of `TypeOK`, `UniqueIPs`, `IndexesLive`,
  `KeyAgreement`, `OneSessionPerAttempt`;
- `ServerKeepsOut`: `Spec => RevokedStaysOut`, an action property. A session begins
  with a handshake of its client that has passed its token (`SessionsBegin`), and the
  handshakes that have not passed it find it revoked;
- `ServerAgrees`: `Spec => AttemptsAgree`, every attempt is an `Agreement`. No run
  checks it.

The manager comes first, by itself (`ManagerCorrect`). `ManagerInv` adds
`TableSound` to what is to be shown: a session is added once, by a caller that
had been promised an address, under that address or 0.0.0.0. Without it an
address could be given back while somebody else holds it, and a second `Add`
could leave an index entry with another object's key. The server's `ServerInv`
adds two facts. `HandshakeInv` says what each handshake has done by its state: it has
an address if and only if it is accepted, and then its client has taken up its
challenge (`Chosen`). `PacketInv` says that what is on its way is true: an
AUTH comes from a client that has taken up the challenge in it, an ACCEPT names
the address its handshake was promised (`Promised`). A client chooses once, and
a promise is not taken back (`ChoicesKept`, `PromisesKept`), so both facts
survive repetition and reordering, and that choice gives one session per attempt.
`ServerStep` has one lemma for each group of actions; those of `HandshakeSteps`
and `QuietSteps` say what a step may change and leave the table to `ManagerStep`.
`StepsAgree` is by what the client does: it stays as it is (then the server may have
accepted, and `Chosen` says what), it takes up a challenge, or it gets in. That the
challenge is its first needs one more invariant (`NothingChosen`), and that nothing
accepted is taken back needs `PromisesKept`.

`ClockProofs`, of `Keepalive` (assumption: `KeepaliveAssumption`, in particular a delay
shorter than the period; hypothesis of each theorem: `Roomy`, that
`(MaxLost + 1)` periods and two delays fit in the idle timeout):
`IdleSessionSurvives` and `SilentSessionIsEvicted` prove `SurvivesLosses` and
`SilenceIsBounded`. The inductive invariant is `Inv` in `Keepalive`: `AgeBound`
relates the age of `LastSeen` to the keepalives lost since and to one under way,
`SweepBound` to the time since the last sweep. `SurvivesLosses` alone is not
inductive, since a sweep needs to know the age. With the code's 25 s and 120 s,
`Roomy` allows three losses in a row with delays of up to 10 s.

`ClockProofs`, of `RateLimit` (assumption: `RateAssumption`, the types of the
constants): `GuessersAreBlocked` and `BlockHolds` prove `GuessesAreLimited` and the
action property `BlockLasts`, for any sources, window, limit and history. `CountFits`
says that the counter has at least every failure that came within the window before
the last one, which is what the next failure needs.
`BlockFits` says that an entry in `blocked` is only ever dropped when its time is
over, which the handshakes still pending need. `LimiterRefined` proves
`ImplementsLimiter`, the refinement of the limiter in `ClientManager`; no run checks
it. A record that is too old counts as 0 there and a block that is over as none
(`Unexpired`), and one tick may end several: what is proved of the server, whose
blocks and counts expire at any time, holds with the clocks.

`WireProofs`, of `Transport` (any capacity of the channels, any number of packets
and closers): `QueuesKeepOrder` and `StatisticsAccount` prove `OrderKept` and
`DropsAreCounted`. That each queue is in order is not inductive, since a packet
moves from the end of one to the end of the next: `InOrder` and `OutOrder`
add that everything in a queue is above everything in the queue after it
(`Below`), and that the packet `writeLoop` has in hand lies between two. `Counted`
is the sum behind the statistics, with that packet in it (`InHand`). The lemmas
about `Append` and `Tail` come first. `CloseReturnsLast`, `CloseWaitsRightly` and
`ClosedStaysClosed` prove `CloseIsFinal`, `CloseWaitsForEnding` and the action property
`NothingAfterClose`, which no run checks: a Close that has returned is over for every
caller, the waits in it are for goroutines that were told to end and never in a circle,
and nothing moves afterwards. `CloseInv` says how much is closed by where the caller of
`once.Do` is (`Told`), since the others know only that there is one.

`WireProofs`, of `KeyExchange` with `Codec` and `Obfuscation` (assumptions:
`ObfuscationAssumption`, that masking a byte twice gives it back, that there is a key
and that the padding's length fits a byte, and `KxAssumption`, the types of the constants,
that a packet's length and a clock fit their fields): `SessionsAgree`, `UndamagedIsRead`
and `FirstFrameArrives` prove `ExchangeAgrees`, `WireIsReadable` and `FrameArrives`, for
every base of a byte, padding, key, token, clock and number of damaged packets. The lemmas
go from the bottom up: pieces that are joined are found at their offsets, a number is
read as it was put, signed ones at both ends of their range, padding and masking are
undone, and so every header and payload is read as it was built. `KxInv` says where
one end can be when the other is where it is (`InStep`, `OnTheWay`) and what is left of each
packet under way, whatever was damaged: of an AUTH the client's HMAC and token or
noise (`AuthIsClients`), of a DATA packet the frame sealed with the client's key under
the header it is sent with, or noise (`DataIsClients`); undamaged packets are as they were
built (`AcceptIsServers`, `HeaderIsSent`). From the moment the server accepts, its key
and token are the client's (`KeysAgree`). Agreement at the end is not inductive, since
nothing in it speaks of packets; HMAC and AEAD, which are free constructors, carry it past
the damage. `ExchangeImplementsAgreement` proves `ImplementsAgreement`, which no run
checks. For it `AuthIsClients` speaks of a client that has given up too, which
`ExchangeAgrees` leaves out: what the server accepts is what that client had answered
with (`AcceptsTheOffer`).

`StartStopProofs`, of `ConfigStore` (assumption: `ConfigAssumption`, that no key is
empty): `ServesSaved` proves `ServesWhatWasSaved`, for any number of starts, crashes
and edits. `StoreInv` follows the saved key and the user's setting from the file
(`FileHasSetting`, `FileHasSaved`) to memory (`LoadedIsWritten`). Its core is that
a file is written only while no key is saved, so that a torn file never was one
with a key.

`StartStopProofs`, of `VpnLifecycle` (assumption: `LifecycleAssumption`, the types of
the constants): `RunningTellsOpen` proves `RunningMatchesResources`, for any number of
threads and calls. The property speaks of the moments between calls. `VpnInv` says
besides what is open when a call in progress is at each of its labels
(`StageFits`); stops may be in progress together (`OneStart`), and what is open only
goes down while they are (`Closing`). It claims nothing once a start has met another
call. `DeviceIsTaken` proves `ServerUsesDevice`, for all calls: devices have the
numbers of the calls that opened them (`NumbersInv`), and one is opened when none is and
no read is left in one.

`StartStopProofs`, of `LocalApi` (assumption: `ApiAssumption`, the types of the
constants): `TokensAreHonoured` proves `InvitesAreHonoured`, for every width of a
duration. `ApiInv` adds that a token has the expiry that was computed at its issue and that
the refused ones are dead, which holds on because a number is never drawn twice; a
lifetime below half the range is computed without wrapping (`FitsUnwrapped`).

`StartStopProofs`, of `LocalApi` with `InviteLink` (hypothesis `AddressesAreTexts`: no
address that may be found or configured, and no port, has a "?", "/" or "#" in it. The
configuration's `public_ip` may be any text, so this is a hypothesis and no assumption):
`LinksAreReadAsIssued` proves `LinksAreRead`, for any addresses, port and tokens. `LinkInv`
says that every token there is has the link of the address the server has now. The
rest is about texts: what `splitByte` makes of a text in which the separator stands in
known places (`SplitIs`), and that what was escaped is decoded to itself
(`EscapedIsRead`), so that any server and token are read from the documented form
(`ConnectLinkIsRead`), the escape character included. The loops of the parsers are
recursive functions over the places of a text. That such a function is defined at
every place (`DefinedFromTheEnd`), and what it yields, is shown from the last place
back: a set of numbers with 0 in it that is closed under successors has them all
(`SetInduction`), and the set is that of the distances from the end for which the claim
holds. No induction theorem with an operator as its parameter is needed for it.

`StartStopProofs`, of `AddressPool` (assumption: `AddressAssumption`, that there are
octets and bits in them): `PoolHoldsUsable` proves `PoolIsExact` and `LoopAdvances`
that the loop's address rises until it leaves the subnet, so that it ends. Both
are for octets of any width, any number of them and any subnet of at least one
bit. `PoolInv` says that the pool has the usable addresses before the loop's, in
order. That rests on two facts about addresses in general. `incrementIP` gives
the next one, or the first after the last (`IncrementIsNext`). A mask is ones and
then zeros (`MaskShape`), so that masking keeps the order (`MaskedGrows`) and a subnet has
no gap (`SubnetHasNoGap`), a first and a last (`FirstAndLast`) and not the last address
there is together with 0 (`NoSubnetWraps`), where the loop would start again. Powers
of two have no induction here; they are counted as sets of subsets (`PowerIs`,
`PowerSplits`).

`DesktopProofs`, of `DesktopClient` (assumption: `ClientAssumption`, the types of the
bounds): `ClientTypes`, `ConnectedTunnel`, `RouteIntoTun` and `LoopsGiveBack` prove
`ClientTypeOK`, `ConnectedHasTunnel`, `RouteHasTun` and `NothingLeaks`, for any number of
connects. The code has no owner of the device and the route: who has them follows
from where each loop is (`SocketsFit`, `TunFits`, `RouteFits`). A second open fails
while the first is open or a read is left in it, so no two loops are between open and
close, and a read that is left is the last one of a cancelled loop (`ReadersFit`). Where
the removal of a route failed, the route is there for as long as such a read keeps the
interface (`Left`). `ClientUsesDevice` proves `UsesDevice`: the client does with its
device only what `Device` lets it. No run checks that one.

`DesktopProofs`, of `TunDevice` (assumption: `TunAssumption`, that a buffer has a size):
`OpenGivesBack` proves `OpenIsAllOrNothing` for any number of handles on each system, and
`PacketsCrossTheDevice` proves `FramingIsUndone` for packets and buffers of any size: on
macOS the family's four bytes are cut off what is read, however short
(`DarwinReadCuts`), and not counted in what is written (`DarwinWriteAll`). `HandleFits`
adds what a handle has when its open comes to its n-th step (`LinuxAt`, `DarwinAt`,
`WindowsAt`), without which nothing is known of the step that fails or of the last one;
`LinuxStep`, `DarwinStep` and `WindowsStep` follow it through the table of each system.
`LinuxIsDevice` proves `ImplementsDevice`, that on Linux the driver is that `Device`: its
invariant `OneHasName` says that one handle at most has the name, be it half-way through
`openTUN` or closed with a read that has not returned, and `OpenHasName` that an open one
or a read has it. On macOS the system numbers its interfaces and several may be open;
that is why the theorem is about Linux, whose device `DesktopClient` and `VpnLifecycle`
have. `TunDevice` lets a read return at any time, `DesktopClient` only when its context is
cancelled; `Device` allows both.

`MobileProofs`, of `MobileEngine` (assumption: `EngineAssumption`): `LiveLoopReachable`,
`NothingOutlivesItsLoop` and `EventsRefined` prove `LiveLoopIsReachable`,
`NothingOutlives`, and that every step of the engine is a step of `EngineEvents` or
none. `EngineInv` adds that a loop which is neither cancelled nor about to be, by a
`Disconnect` that has taken its cancel function, is the one in `e.cancel`
(`CancelIsCurrent`), that only a cancelled loop winds down (`OnlyCancelledEnd`), that
the published session has a loop still to clear it (`SessionHasLoop`), and which
state each loop has announced when it is at which line (`ShownFitsLoop`), which
ties the announcements to the program.

`MobileProofs`, of `AndroidService` and `IosTunnel` (no assumption): `ServiceReaches` and
`HandlerCalledOnce` prove `NothingOutOfReach` and `CompletionOnce`, for any number of
engines and any order of their events. `ServiceInv` adds that there is no engine when
the main thread has still to connect one (`ServiceTodo`) and that there is one device
as long as no `openTun` met a stop (`OneDevice`). `TunnelInv` relates the flags of the
provider to the answers given.

Only model-checked:

- All liveness: `HandshakesEnd`, `GoneIsForgotten`, `CancelledEnds`,
  `CloseTerminates`, `CountersProceed`, and the second half of
  `ImplementsEvents`. TLAPS has no liveness under fairness. Of `CloseTerminates`, what
  does not need fairness is proved (`CloseWaitsRightly`).

## Not modelled

- The Android user interface, the iOS application, the Electron applications
  (except for the parser of the invite link), the build scripts and the web page:
  they show state and pass commands on.
- The HTTP layer of the API (routing, JSON, CORS), and the handlers that only read
  (`handleClients`, `handleLogs`; `handleStatus` is
  in `VpnLifecycle`, as far as it shows `Running`). The events the API and the
  clients send to their windows, and their statistics.
- The coroutines of the Android service and the threads of the iOS tunnel that move
  packets: they change no state of their host.
- What the NAT commands of the operating systems do: of the rules only how often they
  are installed is kept (`nat`). `setupNAT` returns nil whether they worked or not, and
  its caller goes on. That rules stay behind after a failed start, or are missing after
  one that succeeded, is visible in `VpnLifecycle` and no property forbids it.
- The second copies of the Go sources (`main 2.go` and the like).
- Data races on `Session.LastSeen` and on the variables of `main` are modelled as
  atomic accesses in any order, not as torn values. `RunningMatchesResources` excepts
  what follows a start that met another call: two such calls can set `tun` to nil under
  each other.
- DISCONNECT to a desktop client, which would end its receive goroutine
  (`client/desktop/main.go:346`): no program sends it.
- The parser of the Electron client is `URLSearchParams` of the browser; `InviteLink` reads
  its query as the mobile engine's library does. They differ in escapes and characters
  that no token has.
- A `PaddingMaxBytes` above 255, which the code cuts to a byte and then cannot
  unpad; a subnet of 0 bits.

## Plan

Done: every part of the Go program and the two native hosts, each safety property of
the runs for every value of its constants, and the contracts between the parts
(`ManagerSpec`, `Agreement`, `SlidingWindow`, `Tunnel`, `Device`, `EngineEvents`). Left:

1. The port of `VpnLifecycle`, a set of its own there, as the abstract socket that
   `Transport` implements.
2. Liveness, when the prover reasons about `ENABLED`: `CloseWaitsForEnding` and the
   invariants of the loops are what these proofs would begin with.
