# Caraka: models, checks and proofs

Caraka is a desktop messenger for networks without infrastructure. Nodes find each
other by UDP beacons on a LAN (or dial each other through Tor), keep TCP connections,
flood packets over them hop by hop, and encrypt direct messages and files end to end.
The core is Rust (`src-tauri/src`), the user interface one JavaScript file
(`src/main.js`). This directory models the core's control logic in TLA+, checks it
with TLC and proves part of it with TLAPS.

Paths below are relative to the repository; `transport.rs:168` is a line of
`src-tauri/src/transport.rs`.

## 1. The system

| Component | State | Operations | Talks to |
|---|---|---|---|
| Rate limiter (`routing.rs` `TokenBucket`) | tokens, time of the last refill, per peer | `consume` | Router |
| Router (`routing.rs` `Router`) | LRU replay cache of 512 packet ids, trust score and bucket per peer | `handle_incoming`, `register_outgoing`, `is_duplicate`, `register_broadcast`, `compute_origin_mac` | one mutex shared by all readers and commands of a node |
| Flooding (`transport.rs`, `commands.rs`) | frames queued at writers, `peer_senders`, work between two locks | `process_incoming_packet`, `relay_packet`, `broadcast_packet`, sending half of `send_dm`, `send_file`, `send_broadcast` | Router, Connections, frontend (`message_received`, ...) |
| Connections (`transport.rs`, `discovery.rs`, `state.rs`) | TCP streams, `peer_senders: node id -> channel`, reader and writer tasks | `connect_to_peer`, `start_tcp_server`, `handle_connection`, `connect_to_tor_peer`, the listener of `connect_to_peer` events | discovery (events), frontend (`peer_connecting`, `peer_connected`, ...), store |
| Sessions (`commands.rs`, `store.rs`, `keys.rs`, `crypto.rs`) | `sessions.msg_counter`, `sessions.recv_counter_hint` in SQLite | `send_dm`, `send_file`, `try_decrypt_packet`, `try_decrypt_file_packet` | store, Flooding |
| History (`store.rs`, `commands.rs`) | `messages` table | `save_message`, `get_messages` | Sessions |
| Peer book (`store.rs`) | `peers` table (address, onion, port, trust, name) | `upsert_peer`, `get_all_peers`, the dials that start from a row | beacons, Hellos, invites, Tor dials |
| Network monitor and hotspot (`network_monitor.rs`, `hotspot.rs`) | Normal / Lost / Emergency, hotspot running | monitor loop every few seconds, `activate_emergency_hotspot`, `deactivate_emergency_hotspot` | operating system, frontend |
| Vault and lifecycle (`vault.rs`, `state.rs`) | vault file, keyring, `AppState` | `create_vault`, `unlock_vault`, `complete_initialize` | everything |
| Tor (`tor.rs`, `state.rs`, `transport.rs`) | bootstrap state, onion service | bootstrap with a 180 s limit, dial with four tries, accept loop | Connections |
| Epidemic sync (`sync.rs`, `transport.rs`) | fingerprints of stored messages | handlers of SyncReq, SyncResp, SyncData (nothing sends the first) | store |
| Files (`file_transfer.rs`) | download directory | `save_received_file` | Sessions |
| Codec, cryptography, invites (`packet.rs`, `crypto.rs`, `keys.rs`, part of `commands.rs`) | none | pure functions | everyone |
| Frontend (`main.js`) | connection status per peer, emergency banner, vault screen, Tor status, open chat | event handlers, commands | core |

What is hard about it:

* Every connection has two handlers with a reader and a writer task each, and all of
  them, the discovery tasks and the user's commands run concurrently. No lock is held
  across an operation: `process_incoming_packet` locks the router, releases it, emits to
  the frontend, and locks `peer_senders` to relay; `send_dm` has six separate lock
  sections.
* Packets arrive in any order, several times and by several paths; writers drop
  frames silently when a channel is full.
* Beacons make both nodes of a pair dial each other at the same moment.
* Every machine has a clock of its own, and a message is refused when the two differ by
  more than 300 s. Errors of the database are reported in some places, ignored in others
  (the row and the hint of a received message) and replaced by a default in others again
  (the session and the hint of a sender).
* Processes end at any moment; only the database and the vault file survive, and the
  vault file is written in place. The page can be reloaded while the core goes on.
* State is read long before it is used: the monitor samples interfaces before it takes
  the lock, the page checks for a vault before it creates one, a dial looks for a
  connection and then takes seconds or, on Tor, minutes.
* Events are emitted after the lock is released, so that a page may see them in another
  order than the state changed.
* Several numbers sit at a boundary: the 512 ids of the replay cache, the 200 tokens
  of a bucket, ttl 7, a window of 5 counters back and 60 ahead, frames of 64 KiB,
  clocks with a resolution of one second used as identifiers.

What makes each part correct:

* the limiter admits in no window more than a burst plus what the window earns, and
  does not starve a peer that polls it;
* the router never lets a corrupted copy shadow the genuine packet, forgets an id only
  after 512 others, lowers trust only for cause, and never readmits a banned peer;
* flooding gives a packet to each application at most once, keeps the hop tags
  verifiable on every path, ends, and reaches the nodes within the ttl;
* the connection map holds a usable sender for each connected peer and is repaired
  after failures;
* sessions never encrypt two messages with one key, and a receiver opens whatever is
  inside its window however calls and crashes interleave;
* the peer book loses no address, trusts no peer before its Hello, and ends up with what
  is needed to dial every neighbour;
* the network state comes to fit the interfaces, and the banner follows the state;
* a node keeps the identity it has announced, comes up after any number of failed
  attempts, and shows the status of the Tor client it uses.

## 2. Modules

    TokenBucket                    the limiter and its clock        [TokenBucketProofs]
    Routing                        the router's actions, for many nodes [RoutingLemmas]
      Router    EXTENDS Routing    one router, arbitrary calls      [RouterProofs]
      Mesh      EXTENDS Routing    a router per node, readers, writers, relays [MeshProofs]
                  INSTANCE Flood   what the application is promised
    Session                        counters, hints, rows, crashes   [SessionProofs]
    Connections                    dials, handlers, peer_senders, status of a peer [ConnectionsProofs]
    PeerBook                       rows, beacons, Hellos, moves     [PeerBookProofs]
    Emergency                      monitor, hotspot, banner         [NodeProofs]
    Lifecycle                      page, vault, AppState, Tor status [NodeProofs]

In brackets the module with the proofs. `NodeProofs` extends both `Emergency` and
`Lifecycle`, the two modules about one process and its page, which is why the
specification of `Emergency` is called `EmergencySpec`, its initial states
`EmergencyInit`, and so on.

An `MC...` module adds only values for the constants (topologies, negative numbers,
symmetry sets). Definitions whose comment begins with "Fault" are not part of any
specification: each is a variant of the definition below it with a plausible mistake,
and `PROJECT.json` names for every property the fault that must violate it.

**TokenBucket.** `Admit` and `Refuse` are the two outcomes of `consume`; `Refill`,
`Credited`, `Available` are its three assignments. `Tick` is the clock and `OpenWindow`
an observer that starts to count at an arbitrary moment. The code computes in `f32`
seconds; the model takes the arithmetic as exact.

**Routing.** `handle_incoming` has one action per outcome, with the checks in the order
of the code: rate limit, trust, duplicate, hop tag; then the cache, the trust and the
relay. Trust is an integer number of hundredths. A hop tag is the tuple it is computed
from. The sender's bucket is the number of tokens in it; time between two calls is
represented by the tokens a call finds credited (`REFILLS`), and `TokenBucket` is where
the clock itself is modelled.

**Router.** One router and everything a transport can call on it, with history variables
for what it has seen. `Presented` are the packets a peer can offer: its own tag or one
that does not verify, with ttl left or not.

**Mesh.** A frame travels `sending -> wire -> emitting -> relays -> wire`. `sending` is
what a command has registered but not broadcast, `emitting` what a reader has registered
under the router lock but not emitted to the frontend, `relays` what it has emitted but
not relayed: no lock is held from one to the next, so these are separate steps and other
readers overtake (`ReceiveBroadcast` is `transport.rs:512-519`, `DeliverToApp` the emit
at 524 or in `deliver_to_app`, `Relay` is `relay_packet`). A reader takes its next frame
only when it is done with the last; if its connection is cut meanwhile (`CutOff`) it still
emits and relays, and the reader of the next connection of the pair need not wait for it.
`emitting` and `relays` are sets, so two copies that were left by two connections of one
pair and are equal in every field count as one. `Full` is the nondeterminism of
`try_send`: a frame may be lost only where a channel is at its capacity. A Broadcast goes
through `ReceiveBroadcast`, which never asks trust, rate limit or tag, as in
`transport.rs:505-544`; a Dm or File through `ReceiveDm`. Connections come and go by
`Disconnect` and `Connect`, here as one step for both ends (module Connections has the
real ones). `taken` is a history of the ids each router has registered, in this order.

**Flood.** The abstract specification: publish once, deliver at most once per node, not
to the origin, only along edges from a node that has the packet. Mesh implements it with
`origin` and `delivered` as they are; everything else of Mesh is hidden. The mapping is
`Flooding == INSTANCE Flood WITH origin <- origin, delivered <- delivered`, and
`ImplementsFlood` is `Flooding!Spec` as a property of `mesh`: a command that registers its
packet publishes it, an emit to the frontend delivers it, and every other step is a
stutter. A lost frame is a stutter too, so the refinement says nothing of losses.

**Session.** A command is `Invoke`, `Save`, `Count`, `Broadcast`, one step per lock
section of the database; `Abort` is an error of the database before anything was sent. A
File has no row, so it goes from `Encrypted` to `Count`. A call of `try_decrypt_packet`
is `TryDecrypt`, which reads the peers, the session and the hint, and then `OpenDm`,
`OpenFile` or `Fail`. The code reads the list of peers and then the rest, in two lock
sections; they are one step because rows of `peers` are never removed: for a peer unknown
at the first read nothing else is read, and a peer known then is still known at the
second. What a call finds is its `lookup`: a query of the session that fails leaves
session id 0, under which nothing opens, and one of the hint leaves the hint 0
(`commands.rs:468-471`); a call in which `get_all_peers` fails returns an error and is like
a packet that never comes. Each clock is set freely, forward and back (`SetClock`), and
`OutOfTime` is the `abs_diff` of `crypto.rs:105` between the sender's clock at the
encryption and the receiver's now. `Open` takes two parameters for the two results nobody
looks at, of `save_message` and of `bump_recv_counter_hint` (`commands.rs:531-534`): each may
fail, and a process that ends between the two statements is the row without the bump,
followed by `Crash`. `raised` collects the packets whose bump was done. `Crash` loses
commands and calls of a node, the tables stay. `get_messages` changes nothing, so it is the
operator `Hidden`: the rows that a call at this moment shows as encrypted. Crashes and
database errors are counted together (`Fault`).

**Connections.** Two handlers per connection, each going through
`AwaitHello -> Registered -> Greeted -> Running -> Removed -> Done`, the stretches of
`handle_connection` between its awaits. `peer_senders[n][k]` is the connection whose
channel is in the map under key `k`. `Dial` checks for a connection, and everything that
follows happens later. The dialer sends its Hello in `Established`; the acceptor's comes
with `Greet`. `Broken` ends a stream: what is on its way is lost or still read, and each
end notices only when its reader runs. `Emit` is an event and what `setupEventListeners`
makes of it, the status the frontend keeps for the peer.

**PeerBook.** A row has the columns `upsert_peer` merges; the port is one of three kinds
(the data port, the port of the onion service, the ephemeral port of a dialer's socket)
and trust is 1, 2 or, without a row, 0. Beacons are datagrams that may be late or lost.
A dial enters `dials` in the step that has looked for a link (`Linked`) and ends, whenever
it likes, with `Connect`, `DialFails` or `DialTimesOut`; who answers at an address is
decided when the dial ends (`Reached`), so that it may be another node or the dialer
itself. Of the Hellos of a connection only one goes through the reader loop and is
stored: the acceptor is sent two and spends the first in the handshake, the dialer is sent
one (`transport.rs:298`, `:172`). `Move` gives a node another address or network, `Break`
takes its links. The four attempts of `connect_to_tor_peer` are one dial.

**Emergency.** The monitor takes three steps: two samples and the `match` under the lock,
with its event. `activate_emergency_hotspot` runs `netsh`, then PowerShell (`start`), sets
the state under the lock, and emits after it; `deactivate_emergency_hotspot` likewise
(`stop`). `UplinkChanges`, `GuestChanges`, `HostingEnds` and `AddressAppears` are the
machine. Output of `netsh` that contains "started" counts as success even where nothing is
hosted (`hotspot.rs:109`), and its exit status is not looked at when hosting is stopped
(`hotspot.rs:128`), so `StartByNetsh` may leave nothing hosted and `StopByNetsh` the hosted
network. The banner is what the last event handled made of it, or the user (`Dismiss`).

**Lifecycle.** A call of `create_vault` or `unlock_vault` is a record with where it is:
`derive -> write -> init -> ok` or `read -> init -> ok`, or `error`, or `late`. The file is
`Torn` between truncation and the last byte, and stays so when the write fails
(`WriteFails`). `InitFails` is `complete_initialize` failing before the `AppState` is set,
`InitFailsLate` after the services were started (`state.rs:217-234`): the page gets an
error from a node that runs, and Tor is never started (`stalled`). `Submit` lets a page have one call at a time (the
button is disabled), `Reload` gives the user a new page while calls of the old go on.
`app` is the managed `AppState`; each has its own Tor task, and the events of all of them
reach the one page. `raced` records that a page asked for the vault while a call was
creating it, or is back at the screen to create it after a call that failed late.

## 3. Runs

| Run | Instance | States | Shows |
|---|---|---|---|
| `bucket` | burst 3, 3 ticks per token, time to 14 | 14 000 | limiter: window bound, no starvation |
| `router` | 2 peers, 3 ids, cache of 2, 8 calls | 19 000 | replay window, corrupted copies, trust |
| `mesh` | triangle, two packets of any type from anybody, channels of 1, one reconnection | 121 000 | hop tags, ttl, Mesh implements Flood |
| `mesh_live` | four nodes (kite), a Dm and a Broadcast of one of them, cache of 1 | 300 000 | floods die out and reach all, packets given again only after others, honest nodes keep trust |
| `session` | 2 nodes with clocks of 2 values, 2 `send_dm` and 1 `send_file`, window 1 back and 2 ahead, 2 crashes or errors | 3.3 million | counters, hints, rows, refusals and unreadable rows for cause |
| `connections` | 2 nodes, 2 connections, 2 sends, channel of 1, one fault | 548 000 | map keyed by node id, no stale entry, shown connected only with a handler |
| `connections_live` | the same without sends, with fairness | 72 000 | beacons repair the map |
| `peers` | 2 nodes, 2 addresses of the router and one of a hotspot, 2 acts | 340 000 | rows keep addresses and earn trust; neighbours end up linked and dialable |
| `emergency` | 4 changes of interfaces, 3 commands | 114 000 | banner follows the state, the state settles |
| `lifecycle` | 2 faults, so 3 calls, with and without a key in the keyring | 408 000 | identity kept, node comes up, Tor status settles |

Two more runs are expected to find a violation; section 6 explains them.

Why these bounds suffice. The interesting events of the router are eviction from a full
cache, re-entry of an id and the crossing of the trust threshold; with a cache of two,
three ids and penalties that reach the threshold after a few faults, each happens
within eight calls. The proofs of section 5 hold for every size. A triangle is the smallest
topology in which a packet comes back to a relay and arrives twice; the kite adds a node
that only hears through others and two paths of different length. A channel of one frame
makes `try_send` fail. For sessions, three commands give two overlapping ones plus one
that follows, in either direction; a window of 1 and 2 counters makes packets fall out at
both sides; clocks of two values with an age of 0 are apart in either direction and
together again; two faults are a lost bump or a failed lookup and a crash, or the two
errors of one call. Two connections at a time are what beacons of both sides produce, and one
fault is enough to strand the map entry of the other; a third connection repeats the
second's role. In `peers` two acts are a command and a move or restart, or a move and a
lost link: enough for a row with an address that is no longer the peer's, an address that
now belongs to the other node, a row that has both addresses, and trust raised, lowered
and copied; acts are what users and the surroundings do, beacons, dials and Hellos are not
counted. In `emergency` an activation, a deactivation and another activation overlap with
interfaces that change at every point between two samples. In `lifecycle` two faults are a
crash or a failed write that tears the file and another, or a reload that leaves a call
running and a crash or failure of it; a third call is there for the user to try again. Bounds are constants named `MAX_...` in the modules and appear only in
guards of actions of the environment (users, faults, clock).

Fairness. `Mesh!Fairness`: tokio runs a task that can run, so a command goes on to
broadcast, a reader to its emit, its relay and its next frame; connections need not be made or
broken, and users need not send. `Connections!Fairness`: a beacon is sent every five
seconds while the process runs, every step of a handler is a task that is ready; that a
dial succeeds is fair because a dial that does not fail in five seconds does (`DialFails`
is bounded by `MAX_FAULTS`, which is the usual "faults eventually stop"). It also takes for
granted that a reader notices when its stream has ended: the code has no keepalive and no
read timeout, so a peer that vanishes without closing its stream stays connected until
TCP gives up.
`PeerBook!FairSpec`: beacons are sent for ever, each sender's datagrams are read, a dial
ends, a Hello that was written and not lost with its link is read; nothing is assumed of
users or of Tor. `EmergencyFairSpec`: the monitor wakes up, the processes a command runs
come back, and Windows gives the adapter it hosts on its address; users need not click.
`Lifecycle!FairSpec`: the user goes on to answer the screen that is shown, calls run,
`TorContext::launch` comes back or is cut off after 180 s, events arrive and the page
polls. Deadlock checking is off where the bounded environment may come to rest.

## 4. Properties

* `TokenBucket`: `RollingRateBound`, `RefusalIsBrief`.
* `Router`: `ReplayWindow`, `CorruptedNeverCached`, `TrustLossHasCause`,
  `BanIsPermanent` (an action property).
* `Mesh`: `MacChain` and `HopBudget` over every frame in flight, queued or between two
  locks; `HonestNeverPunished`; `GivenAgainLate`, the replay window as applications see it; `ImplementsFlood`
  (refinement); `FloodsDieOut`, `FloodsReachAll` (liveness).
* `Session`: `HintBehindCounter`, `HintAboveRaised`, `FreshKeys`, `SentIsRecorded`,
  `UnopenedForCause` (an action property), `HiddenForCause`.
* `Connections`: `KeyedByNodeId`, `EntryHasReaders`, `ShownWhileConnected`,
  `EventuallyLinked`.
* `PeerBook`: `AddressesKept` (an action property), `TrustNeedsHello`,
  `EventuallyDialable`.
* `Emergency`: `BannerFollows`, `StateSettles`.
* `Lifecycle`: `IdentityKept`, `EventuallyRuns`, `TorStatusSettles`.

Several are as weak as the code makes them. `FloodsReachAll` holds only with a ttl that
covers every path between two nodes, and without loss; `mesh_live` has such a ttl.
`GivenAgainLate` counts what the router took between two takings of a packet, not what the
frontend was given between two emits: emits are made without the lock, in another order,
so that fewer others than the cache holds may lie between them. `HintAboveRaised` speaks of
the bumps that were done: a bump that fails is ignored, and a packet may be opened with
the hint left below it. `UnopenedForCause` therefore names every cause the code has: an
unknown sender, a session or a hint that could not be looked up, clocks more than 300 s
apart in either direction, and a window that has passed the packet or not reached it,
measured by the bumps that were done. `ShownWhileConnected` accepts a handler that is about
to report its end, and says nothing of a connected peer shown as offline.
`HiddenForCause` accepts every row that is older than the age a nonce may have.
`EventuallyDialable` speaks of nodes in one network, where beacons correct a row; `BannerFollows` excepts a command that has its event still to
send, and is about a banner that says lost, not about one that is hidden; `StateSettles`
allows Normal or Emergency while a hotspot is up; `IdentityKept`
excepts a page loaded while the vault is created and one whose call failed after it had
announced the node, `EventuallyRuns` a torn file, and `TorStatusSettles` accepts
bootstrapping for ever of an `AppState` for which Tor was never started. What
is excepted is real behaviour of the code, listed in section 6.
`FreshKeys` excludes overlapping commands to the same peer; `session_key_reuse` shows
why it must.

## 5. Proofs

TLAPS checks the modules below for every value of the constants that the `ASSUME`s of the
modules allow: any number of nodes, connections, packets, commands and faults, and any
capacity. Every safety property the passing runs check, invariant or action property, is
a theorem. The inductive invariants were checked with TLC on the instances of section 3
as far as it can evaluate them (`SpentOnce` and `CallsFollowHint` of
Session range over infinite sets).

| Module | Proved | Rests on |
|---|---|---|
| `TokenBucketProofs` | `TypeOK`, `RollingRateBound`, `RefusalIsBrief` | `IInv` |
| `RouterProofs` | `TypeOK`, `CorruptedNeverCached`, `TrustLossHasCause`, `BanIsPermanent`, `ReplayWindow` | `IInv`, `ReplayInv` |
| `MeshProofs` | `TypeOK`, `MacChain`, `HopBudget`, `HonestNeverPunished`, `GivenAgainLate`, `ImplementsFlood`, and at most one delivery | `MeshInv` |
| `SessionProofs` | `TypeOK`, `HintBehindCounter`, `HintAboveRaised`, `FreshKeys`, `SentIsRecorded`, `UnopenedForCause`, `HiddenForCause` | `SessionInv` |
| `ConnectionsProofs` | `TypeOK`, `KeyedByNodeId`, `EntryHasReaders`, `ShownWhileConnected` | `ConnInv` |
| `PeerBookProofs` | `TypeOK`, `TrustNeedsHello`, `AddressesKept` | `PeerBookInv` |
| `NodeProofs` | `EmergencyTypeOK`, `BannerFollows`; `TypeOK`, `IdentityKept` of Lifecycle | `LifecycleInv` |

* **TokenBucket.** `IInv` distinguishes whether a token was credited since the observed
  window opened: if not, what was admitted came out of the burst; if so, the credit is
  paid for by the time up to `last_refill`.
* **RoutingLemmas.** What `Put` does to a cache (length, members, order), that a cache
  without repetitions has as many members as its length, and what `UpdateTrust` does to a
  score. `CacheOf(c, s)` relates a cache to the history of ids put into it: the
  cache has no repetitions, holds only ids that were put, has them in the order they were
  last put (`RecentFirst`), and an id that was put and is not in it has been followed by
  `CACHE_SIZE` different others (`LongGone`). `PutAfter` says that putting an id that is
  not cached keeps this and the replay window (`Window`): the id that is evicted is the
  last of a full cache, and all the others in the cache are more recent. Router and Mesh
  both rest on these lemmas.
* **Router.** `IInv` is the type, that cached ids are vouched for, and that trust
  accounts. `ReplayInv` is `CacheOf` and `Window` of the router's cache and its history,
  and gives `ReplayWindow`.
* **Mesh.** `SoundInTransit` states `MacChain` and `HopBudget` of every frame wherever it
  is; the frames on a wire are a set (`Frames`), so that no argument is about positions
  in a queue. `SoundInTransit` is kept by a relay because ttl, hop counter and tag change together
  (`SoundOnward`). Trust is not lowered because a frame that verifies is not punished and
  a duplicate is not either. `WindowInv` is `CacheOf` and `Window` of every node's
  `taken`, and that what is cached was sent, so that a fresh id is nowhere cached.
  `TakenInv` ties what a frontend was given, and what readers have still to emit
  (`Pending`), to `taken`: what was given or is pending was taken, and two of these were
  taken twice. Together they give `GivenAgainLate`, with no assumption on the number of ids
  and whichever order emits come in. For the refinement, `InFlood` says that a frame is
  only where its bearer has the packet and an edge leads on, and the lemma `NeverTwice`
  that, under `CacheHoldsAll` (no more ids than a cache has room for), nothing is taken
  twice, so that by `TakenInv` each emit is the first. Without that assumption
  `MeshImplementsFlood` and `MeshDeliversOnce` are false, of the code as well: a
  node forgets an id after 512 others, and takes a copy that still circulates for new,
  also of a packet of its own. In `mesh_live`, with a cache of one id for two packets, both
  happen, and `GivenAgainLate` is what remains. `mesh` checks the refinement with a cache
  for both of its ids.
  `FloodAtMostOnce` is about the abstract specification alone; with the refinement it
  gives `MeshDeliversOnce`, what the applications see of the mesh.
* **Session.** `SessionInv` has a part for each thing that a step relates.
  `CountersSpent`: a packet leaves only after its counter is passed, and a hint moves only
  over counters that are, which is `HintBehindCounter`. `OnlySent`: what is received was
  broadcast. `HintReached`: a hint that has moved is one above a counter it was raised for;
  with `HintAboveRaised` this makes it one above the highest of them. `IdsFresh`,
  `RowsInTime`, `RowsKeepCounter`: a row is there from `Save` on, under its packet's counter, and no
  row of the same packet is in the way. `OnePending`: in a direction without overlap a
  command under way holds exactly the next counter; with `SpentOnce` this gives
  `FreshKeys`. `CallsFollowHint`: the window of a call that found the hint was computed from one that was one above the highest counter raised before it,
  and that of a call that did not is the first window. The lemma `FailedForCause` turns
  "outside the window" into the causes of `UnopenedForCause`, with a count of the missing
  counters (`CountersMissing`).
* **Connections.** Most of `ConnInv` is a predicate of one connection record, `Sane`, so
  each action is proved against one record, and the map and the events follow. The part
  that makes `KeyedByNodeId` inductive is `HelloFirst`: until an end has read the Hello,
  the Hello is at the head of what comes to it, or is still to be written by a handler
  that has queued nothing before it. `UpIsServed` says that a handler returns only after
  the stream has ended; `EntryHasReaders` needs it for the other end. The assumption that
  `None` is no node and no number says that an empty entry of the map names no connection.
* **PeerBook.** `PeerBookInv` is the type invariant, `TrustNeedsHello`, and that a row
  with an address has a port (without which what `reconnect_known_peers` dials would have
  no type). One lemma, `UpsertKeeps`, carries what the three writers of rows share, and
  gives `AddressesKept` for every step as well.
* **Emergency.** `BannerFollows` is inductive as it stands: the banner is set in the step
  that changes the state, or by the command that is excepted.
* **Lifecycle.** `LifecycleInv` is `Types` and, unless `raced`, `Identity`. `Types`
  completes the type invariant (calls past the vault have a key, a page at its main
  screen has an `AppState`, the vault is missing only until the first call writes it).
  `Identity` says that a call that is to write the vault is alone, but for calls
  that have failed and have only their reply to give (`Active`), and nothing has been
  announced yet, that a page at the create screen has seen nothing announced but by a call
  of its own, and that calls past the vault have its key. `IdentityKept` alone is not
  inductive: that a call about to write is alone takes the other three.

Only model-checked is liveness, which is out of this prover's reach: `FloodsDieOut`,
`FloodsReachAll`, `EventuallyLinked`, `EventuallyDialable`, `StateSettles`, `EventuallyRuns`
and `TorStatusSettles`.

## 6. Where code and documents disagree

* `session_key_reuse`: `send_dm` and `send_file` read `msg_counter` and increment it in
  different lock sections. Two commands to one peer that overlap use the same DM key;
  `keys.rs:134` says the key changes with every message.
* `connections_big_file`: a file of up to 5 MB is one packet (`commands.rs:1287`), a
  frame is at most 65535 bytes (`transport.rs:421`). The refusal ends the writer task and
  leaves the sender in the map.

Met while modelling, without a run of their own:

* Of two connections of one pair the later takes over the map entry; when one ends, it
  removes the entry, whosever it is (`transport.rs:216`). The other connection is read but
  cannot be written to, against `transport.rs:80` ("to every connected peer").
  `EventuallyLinked` shows that a beacon repairs it.
* The `peer_disconnected` of one of two connections (`transport.rs:222`) is also what the
  frontend shows for the other, which goes on; it disables sending. A reloaded page shows
  every peer as disconnected until its next event (`main.js:1448`).
* The first copy of a packet makes every later one a duplicate (`routing.rs:168`), also
  one with more ttl left, so a flood may stop short of a node within its ttl;
  `docs/CLAMP-SPEC.md:152` promises all nodes.
* Received rows are named by sender and second (`commands.rs:515`) and inserted with
  `INSERT OR IGNORE` (`store.rs:223`): of two messages of one second the second is shown
  and not kept. `store.rs:24` calls the id a UUID.
* Stored rows are decrypted with the check of the age of their nonce
  (`commands.rs:651`, `crypto.rs:95`): history older than 300 s is shown as encrypted. The
  same check refuses a message of a node whose clock is ahead or behind by more than that.
* `save_message` and `bump_recv_counter_hint` of a received message are two statements whose
  errors are ignored (`commands.rs:533-534`, 1541): a message may be shown and not stored, and the
  window stays where it was. A query of the session or the hint that fails counts as
  session 0 or hint 0 (`commands.rs:468-471`): the message, or a call's whole history
  (`commands.rs:597-601`), is then not opened, though nothing is wrong with it.
* The frontend is given packets without the router lock (`transport.rs:524`, 577, 583), so
  not always in the order in which the router took them.
* Only the acceptor stores a peer from its Hello (`save_peer_from_hello`): the dialer never
  gets a second one. What it stores for a LAN peer is the ephemeral port of the dialer's
  socket (`transport.rs:759`), which `reconnect_known_peers` then dials; the next beacon
  corrects it, and lowers the trust that the Hello has raised.
* A hotspot noticed while the state is Normal never makes it Emergency (the arm of
  `network_monitor.rs:134` is for Lost only), `deactivate_emergency_hotspot` sets Normal
  without any network, until the monitor corrects it, and stops only what `netsh` started.
  `emergency_hotspot_stopped`, emitted late, hides a banner that a later
  `network_lost` has put up.
* A crash while `create_vault` writes leaves a file that exists, cannot be opened and
  cannot be created again (`vault.rs:88`). A page loaded while a vault is created is
  offered to create another, which replaces it (`commands.rs:134`), and so is a page whose
  call has failed after the services were started (`state.rs:225`, 234). After a reload of the
  page an unlock builds a second `AppState`, and the services of the first go on
  (`state.rs:161`).
* `main.js:2730` declares `handleIncomingPacket` a second time; the declaration is
  hoisted, so the override calls itself for every packet that is not a file. Session
  models the commands as the frontend means to call them.

## 7. Not modelled, and the plan

Written in this order: TokenBucket, Routing and Router (the heart of the protocol), Mesh
over them with Flood as its abstraction, Session, Connections, then PeerBook, Emergency
and Lifecycle. Every component with state and control of its own now has a module,
and every safety property a proof. What is left to state and to prove:

* an abstract specification of a session as its two users see it (a command hands over
  a packet once, a call opens it or refuses it for cause), with Session as its
  refinement, as Flood is of Mesh;
* an abstract specification of presence (who may be sent to), which Connections
  implements once a peer's handlers are hidden.

Not modelled:

* Epidemic sync. Nothing in the repository sends SyncReq, so its handlers and the sync
  tables are never reached; a model of them would be of a system that does not exist.
* In the history, rows of versions before the column `msg_counter`, which `get_messages`
  tries with every counter and repairs.
* In the Tor transport, the four attempts of a dial one by one and the accept loop.
* A second `AppState` in the other models: Connections, PeerBook and Emergency have one
  per process.
* Reading and writing of files (`file_transfer.rs`): a check and a write of one function.
* The peers table as Session sees it is only who is known; PeerBook has the rows.
* Losing power. A crash is the end of the process: what a statement has committed is
  kept. SQLite runs in WAL mode with `synchronous=NORMAL` (`store.rs:90`), so that a machine that
  loses power may lose the last commits, an increment of `msg_counter` among them.
* That a query of the session fails in `get_messages`: all rows of that one call are shown
  as encrypted, until the next.
* `ReceiveBeacon` of PeerBook writes the row and looks for a connection in one step;
  `connect_to_peer` does so in a task of its own, a little later. The dial reads nothing of
  the row, and a connection made in between only spares it.
* `Deactivate` of Emergency is a command the page never gives: `main.js` has no call of
  `deactivate_emergency_hotspot`. It is registered and can be invoked, and the model lets
  users do so at any time.

Left out for good: byte layouts of packets, the cryptographic primitives (used
symbolically), parsing of invite codes, QR images, the DOM code of the frontend, and
reading and writing of files. `set_channel_key`, `register_peer`, `mark_delivered` and
`mark_synced_to_peer` have no caller.
