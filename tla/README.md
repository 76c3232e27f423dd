# A TLA+ model of the proxy server

This directory holds TLA+ modules that model the proxy server of this
repository, TLC configurations that check them on small instances, and proofs
that TLAPS checks for every value of the constants. `PROJECT.json` lists the
components, the runs, the mutants (changed definitions that show that each
property can fail), which lines of the source each definition stands for, the
findings, the hazards and the theorems.

Paths below are relative to `src/`.

## 1. The system

The server is one process with one thread. `ProxyServer::Run` opens a listening
socket and then loops until it fails: wait for a batch of events, handle them one
after the other. Nothing else runs in the process; the concurrency is between
the loop, the kernel and the remote ends of the connections.

| component | source | state | operations |
|---|---|---|---|
| Event loop | `server/proxy_server.cc` | `connections_` (descriptor to `Connection`), `poller_`, `socket_`, the batch and the place in it | `Run`, `HealthResponse`, `CleanUpResources` |
| Connections | `core/connection.cc` | descriptor, role, `peer_socket_id_`, receive and send buffer, `want_write_`, `closed_`, `protocol_` | `Read`, `Write`, `Close` and the destructor, `SetProtocol`, `AcceptNewClientConnection`, `CreateUpstreamTCPConnection` |
| SOCKS4 handler | `core/protocol/socks4.cc` | Init, Established or Failed, the destination | `OnReadable` |
| Protocol detector | `core/protocol/detector.cc` | none | `ProbeProtocol` and its five tests |
| Linux sockets and poller | `core/os/linux/network_linux.cc` | the kernel's: registrations, socket buffers, pending errors | thin wrappers of the system calls |
| macOS poller | `core/os/macos/network_macos.cc` | a vector of `pollfd` | the same interface over `poll()` |
| LRU cache | `core/cache/` | a list and a map into it, the bytes held | `get`, `put`, eviction |
| Base64, SHA-256 | `core/utils/` | none | encode, decode, digest |
| Configuration | `server/config.cc`, `server/main.cc` | `Config` | parsing of the command line |
| SOCKS5 | `core/protocol/socks5.cc` | none | stubs |
| DNS, logger, strings | `core/os/*/dns_*.cc`, `core/logger`, `core/utils/string_utils.cc` | the log file | look-ups nothing calls, output, formatting |

How they interact: the loop finds the `Connection` of an event in
`connections_`, and that of its peer under `peer_socket_id_`, both *by
descriptor*. `Read` drains the socket into the receive buffer. For a client
without a protocol, `SetProtocol` asks the detector and creates the handler.
The handler's `OnReadable` first parses the request and stages a reply in the
send buffer of the connection it was read from; once established it moves the
receive buffer to the send buffer of the peer. A granted client without a peer
makes the loop open an upstream connection, which inserts a second entry in
`connections_` and links the two. At the end the loop tells the poller what it
wants to hear about the connection *and about its peer*. The writable half of
an event drains the send buffer.

What is hard about it:

- **descriptors are reused**: a link to a peer, an event of the batch and a
  registration with the poller are all keyed by a number the kernel gives out
  again;
- **a batch ages**: it is a snapshot, and the events in it close and open
  descriptors while the remote ends go on;
- **the two halves of one event**: a reset may arrive between `recv` and `send`;
- **segmentation**: a request or a preface comes in as many reads as the network
  likes, and a decision is taken at each of them;
- **backpressure and wake-ups**: output is put into a connection by another
  connection's event, which has to arm it for writing;
- **failures in the middle** of accepting or connecting, and of the set-up:
  each leaves another set of descriptors to be closed.

What makes each component correct:

- loop and connections: the three tables (loop, poller, kernel) are about the
  same descriptors; an event reaches the connection it was reported for; no
  output is left without a wake-up; every event is handled, input read, output
  written, failed sockets closed;
- SOCKS4 handler: only a granted request opens an upstream connection, the
  verdict is final, a tunnel relays everything in order to its own peer;
- start and end: the loop gets one listening socket and one poller, options are
  what was given, nothing stays open and nothing foreign is closed;
- detector: a verdict given on the first bytes stands when more arrive;
- cache: the two containers agree, the byte count is that of the entries and at
  most the limit, the least recently used entry goes first;
- Base64: `Decode(Encode(s)) = s`; SHA-256: the padding of FIPS 180-4.

## 2. The modules

| module | what it is |
|---|---|
| `Socks4` | pieces of a byte stream, and what the code decides on them |
| `ProxyServer` | the loop with connections, handler, poller and kernel; properties at its end |
| `Tunnels` | what the proxy promises of the bytes of a tunnel: FIFOs, one each way |
| `ProxyServerTunnels` | the refinement mapping from `ProxyServer` to `Tunnels` |
| `ProxyServerClaims` | what comments of the source say and the code does not do |
| `MCProxyServer` | the streams for the runs of these |
| `ProxyServerProofs` | proofs about `ProxyServer`: the tables, the batch, the verdicts |
| `TunnelProofs` | proofs about `ProxyServer`: links and what goes through them |
| `FifoProofs` | the proof that `ProxyServer` implements `Tunnels` |
| `Startup` | the command line, `main`, `Run` up to its loop, `CleanUpResources` |
| `MCStartup` | the command lines for its run |
| `StartupProofs` | proofs about `Startup` |
| `Detector` | `ProbeProtocol` on a growing buffer |
| `MCDetector` | its run, and the agreement of `Socks4` with it |
| `DetectorProofs` | proofs about `Detector` |
| `LRUCache` | the cache's list, map and byte count |
| `LRUMap` | what the cache promises, which `LRUCache` implements |
| `Sizes` | sums of sizes, for both |
| `CountingLemmas` | the least-number principle and sums, for the proofs that need them |
| `LRUCacheProofs` | proofs about `LRUCache`, and that it implements `LRUMap` |
| `MCLRUCache` | the data for its run |
| `Encoding` | Base64 and the padding of SHA-256, beside their standards |
| `MCEncoding` | the inputs for its run |
| `EncodingProofs` | proofs about `Encoding` |

Operators preceded by a comment that begins with *Mutant* are not part of the
specifications. They are the changed forms used to test the properties.

### ProxyServer and the code

| variable | code |
|---|---|
| `connections` | `connections_`; a record has `role_`, `peer_socket_id_` (`peer`), `receive_buffer_` (`recv`), `send_buffer_` (`send`), `want_write_` (`want`), `closed_` and the state of the `Socks4` object, or `"none"` for a null `protocol_` |
| `interest` | the registrations made with `EPOLL_CTL_ADD` and `MOD` |
| `batch` | `events[i..n-1]`, those still to be handled, with their masks |
| `current` | the descriptor whose event (or whose accept loop) is under way |
| `sockets` | the kernel's side: `inq` is what `recv` would return, `fin` the end of the stream, `err` a pending (`"reset"`) or consumed (`"dead"`) error, `up` that the handshake is over, `todo` what the remote end still has to send. `gen`, `paired` and `given` are history: which incarnation of the descriptor this is, which incarnations `CreateUpstreamTCPConnection` linked to it, and all that `send` has taken for it |
| `backlog`, `callers`, `made` | clients queued in the kernel, clients that ever called, connections ever opened |
| `status` | running, stopped (`Run` returned) or killed (by SIGPIPE) |

**Grain.** One step is one stretch of code between two points at which something
else could be seen: a wait, one turn of the accept loop, the readable half of an
event, the writable half of an event. The environment steps anywhere between
them. Within a half everything the code does belongs to the one action: the peer
look-up that clears a dead link, the read, `SetProtocol`, `OnReadable`, the
upstream connection and both interest updates. (What arrives *during* a half is
the same as if it came just before or just after it.)

| action | code |
|---|---|
| `WaitForEvents` | `network_linux.cc:152-180`: at most `MaxEvents` of the ready sockets, any of them, with their masks as of now |
| `WaitInterrupted`, `WaitFails`, `ListenerError` | the three ways out of the loop; `Halt` includes `CleanUpResources` |
| `AcceptOne`, `AcceptRejected`, `AcceptAborted`, `AcceptDone` | the turns of `AcceptNewClientConnection`: success, `SetSocketNonBlocking` fails (next client), `RegisterReadEvent` fails (loop left), `accept` returns -1 |
| `ErrorEvent` | `proxy_server.cc:71-85` |
| `ReadClosed` | `Read` returns `PeerClosed`: end of the stream, or `closed_` set earlier by a refusal |
| `ReadUnknown` | no protocol after `SetProtocol`: health page, and `continue` |
| `ReadRequest`, `Tunnel`, `ReadKept` | `OnReadable` consumes a request, relays, or does nothing; each ends in `FinishRead` (upstream connection, interests) |
| `WriteEvent`, `WriteKilled` | the writable half; `send` takes some of the buffer, none and reports an error, or raises SIGPIPE |

**Data.** A byte stream is a sequence of *pieces*, runs of bytes that matter
together: the fixed part of a request, its address, the NUL that ends the user
id, nine bytes of something else with or without a NUL. `Width` gives their
lengths, so that "eight bytes" (detector) and "a NUL at byte 9 or later"
(handler) are computed as in the code, for the pieces that occur in the runs: a
`SOCKS4a` address read together with what follows it, or a user id of many bytes,
would need other lengths. Each piece carries the incarnation of the
socket it was read from, which is how a property can ask where bytes ended up.
Reads and partial writes cut at piece boundaries, and every boundary is
possible. `MCDetector` checks that `Socks4!IsSocks4` on every buffer of up to
three pieces agrees with `Detector` on its bytes.

**Kernel.** The code relies on it, so the model has it: level-triggered events,
the lowest free descriptor, closing a socket takes it out of the poller,
`connect` returns with the handshake under way, an error is reported once by
`recv` or `send` and after that a write raises SIGPIPE. `Fd` is the set of
descriptors the process may still open, and `NoFreeFd` its resource limit. A
reported error is one flag: the loop does not tell error from hangup. These
definitions have no lines under `src/` and are marked external.

**Tunnels.** `Tunnels` knows nothing of buffers and events. Of each way of an open
tunnel it keeps what its sender still has to send, what is in transit and all that
the other end has been given. Each step is on one way: `Send` moves a message
from the sender to the end of what is in transit, `Deliver` from the front of that
to what has been given. Nothing leaves otherwise, except all of it when the tunnel
ends. `Stray` lets something in that is from no tunnel: it stands for the stale
links of `claim_peer`, and takes nothing away. `ProxyServerTunnels` maps the code to
this. A tunnel is two connections that name each other with a granted request
between them. What is in transit one way is the peer's `send_buffer_`, then
`receive_buffer_`, then the kernel's queue, whole: the reply to the request is there
too, and whatever a wrong link put there would be seen. What has been given is
`given`. Reading and relaying to one's own peer map to stutters, a write to
`Deliver`, closing either end to `Shut`, relaying over a link left behind to
`Stray` if it leads into a tunnel. `Unmixed` says that what one end sends is on no
way but its own, in transit or given; `Open` asks for it, and the proofs show that
it always holds. What is in transit when a tunnel opens is taken as it is: what the
client sent with its request is spoken for from then on, by `ReadRequest` alone
before.

**Faults.** The constant `Faults` names what may go wrong in a run. The passing
safety run has all of it.

### Detector and the code

`stream` is what a client sends, reduced to what the detector can tell apart
(its opening, whether a blank follows, whether bytes 5 to 8 are `0.0.0.x`);
`Receive(n)` is one read followed by a probe, for every way to cut the stream.

### LRUCache and the code

`lruList` is the list as a sequence of nodes, `entries` the contents of the nodes
that are allocated, `cacheMap` the map from urls to nodes (the iterators),
`currentSize` the count and `answer` what the last call returned. `get`,
`putExisting` and `putNew` are whole calls, with the move to the front and the
eviction: `After(t, ..)` is the cache after `t` turns of the loop of
`evictIfNeeded`, each of which takes the back of the list, `Turns` is the loop's
condition, and the loop ends after the first `t` that falsifies it.
`LRUMap` has none of these: a map and an order of use, of which a put keeps the
longest part that fits. The refinement mapping reads the urls off the list and
the data through the map, so it fails when the two disagree.

### Startup and the code

`phase` is where `main` is; `argv`, `next` and `config` are those of
`ParseConfig`, one step for each turn of its loop; `open` is the process's table
of descriptors with what each one is; `socket_` and `poller_` are the members,
`Unset` until they are assigned, as neither has an initialiser; `candidates`
counts the addresses of `getaddrinfo` that are left. Every call that can fail has
an action for its failure with the clean-up the code does on that path
(`NotListening` does none, `NonBlockingFails` reads `poller_` unset: any number).
In the loop only the descriptors matter: it opens and closes connections until it
ends, by an error or a signal, or by SIGPIPE. `--max-events` decides how far a
start gets: 0 makes the first wait fail, a negative number makes the vector in
`WaitForEvents` throw and a large one overflows the stack with the `events`
array; the last two are one action, `EventsOverflow`, which ends the process.

What matters of a word is which option it is and what `atoi` makes of it. The
process is assumed to start with descriptors 1 and 2 open; 0 may be closed, and is
then the first the kernel hands out.

### Encoding and the code

A behaviour is one call: of `Encode`, of `Decode` on any text, or of the padding.
After `Encode` it may go on and decode the result. Each turn of a loop over the
input is an action (`EncodeByte`, `DecodeChar`), what comes behind the loop another
(`EncodeEnd`, `DecodeEnd`).

| variable | code |
|---|---|
| `loop` | `val`, `valb` and `output` |
| `input`, `at` | `input`, and how much of it the loop has read |
| `call`, `given` | which function runs or has returned, and what the first was given |

`val` is an `int` that loses its high bits by shifting (C++20, so defined); here it
is a number modulo `IntRange`, which is 2^32 in the code. Of its bits the code
never reads one above the twelfth, so neither its sign nor its width matters as
long as there are twelve: this is what is assumed of `IntRange`, and what the proof
shows to be enough. `Appended` is what `Sha256::Compute` pushes behind a message,
with `bit_len` in 64 bits. The properties are the definitions of the standards, in
groups of 24 bits and numbers of bits, and share nothing with these but the
alphabet.

## 3. The runs

| run | instance | states | what it shows |
|---|---|---|---|
| `safety` | 2 descriptors, 1 client, batches of 2, all faults, five kinds of client | 259,291 | `TypeOK`, `TablesAgree`, `OutputArmed`, `UpstreamAfterGrant`, `EventsFresh`, `VerdictFinal`, `RelayedWhole`, `TunnelsAreFifo` |
| `reuse` | 4 descriptors, 2 clients, batches of 2, resets, failing `connect` | 604,896 | `OutputArmed`, `TunnelsGenuine`, `EventsFresh`, `TunnelsAreFifo` with two tunnels at once and descriptors reused |
| `liveness` | 2 descriptors, 2 clients, batches of 1, resets, destinations that only listen | 21,018 | `BatchHandled`, `InputRead`, `OutputWritten`, `FailedSocketClosed` |
| `detector` | every kind of client, up to 16 bytes | 884 | `VerdictStableButPreface`; the assumption `PiecesAgree` |
| `lru_cache` | 3 urls, data of 1, 2, 2, 4 and 5 bytes, a limit of 4, 4 nodes | 3,433 | `ContainersAgree`, `SizeCounted`, `SizeBounded`, `KeepsPromise` |
| `startup` | 7 descriptors, command lines of up to 3 of 8 words, up to 2 addresses | 77,248 | `TypeOK`, `CleanExit`, `LoopHandedOver`, `ConfigAsGiven`, `StartSettles` |
| `encoding` | up to 4 of five bytes, one byte up to 12 times, texts of up to 5 of six characters, 145 sizes | 46,240 | `EncodesRfc4648`, `RoundTrip`, `DecodesWholeBytes`, `PadsFips180` |
| `claim_*` | as small as the counterexample allows | | one finding each, section 5 |

What the properties say:

- `TablesAgree`: connections, open sockets and registrations are always about the
  same descriptors, whichever of `accept`, `fcntl`, `epoll_ctl` or `connect`
  failed. Nothing leaks and nothing is closed twice.
- `OutputArmed`: no lost wake-up. Mutant: the peer is not re-armed at
  `proxy_server.cc:233`.
- `EventsFresh`: an event that waits its turn is about the very incarnation of
  the descriptor it was reported for, although the loop looks it up by number.
  It holds because an event never closes any other descriptor than its own, and
  because of that the "not found" branches (lines 81 and 123) are dead. Mutant: a
  connection takes its peer along when it goes (a fix one might well make for the
  orphans of section 5) and thereby breaks it.
- `UpstreamAfterGrant`, `VerdictFinal`: the decisions of the handler, also when an
  upstream's event drives the client's handler.
- `RelayedWhole`: in a tunnel, what a read returns is appended in full, behind
  what had been left in the receive buffer by an earlier event.
- `TunnelsGenuine`: two connections that name each other were linked with each
  other, as the incarnations they are now. Links by descriptor do go wrong
  (`claim_peer`), but never both ways, so two wrong ends never make a tunnel.
- `TunnelsAreFifo`: `ProxyServer` implements `Tunnels`, with partial writes,
  half-read buffers and strangers' links. While both ends live, an end is given
  what the other sent, in order, nothing lost and nothing twice, and nobody else's
  tunnel is given any of it. Mutants: relayed bytes replace the staged ones
  (`safety`, one tunnel), or are staged on every connection (`reuse`, two).
  It says nothing of bytes lost as a tunnel ends, which is `claim_relayed`.
- `BatchHandled`: the loop always gets back to its wait, also out of the accept
  loop when no descriptor is left.
- `ContainersAgree`, `SizeCounted`, `SizeBounded`: the redundant parts of the cache
  agree after any calls, and only an entry that is alone exceeds the limit.
  `KeepsPromise`: `LRUCache` implements `LRUMap`.
- `CleanExit`: when `Run` returns, on whichever path, what it opened is closed
  and what was open before is untouched, with the two exceptions the code has: a
  listening socket with number 0 stays open (`> 0` at `proxy_server.cc:280`), and
  when the listening socket cannot be made non-blocking the unset `poller_` may
  close one descriptor of somebody else. The property says that these are the
  only ones and that it is at most one.
- `LoopHandedOver`: no socket of a candidate address is left when the loop starts,
  and the members hold the right numbers. It is what `ProxyServer`'s `Init`
  takes for granted.
- `ConfigAsGiven`: which words are options (an option's value may look like one),
  and that the last value counts. `StartSettles`: no command line and no failure
  makes the start hang or spin.
- `EncodesRfc4648`, `RoundTrip`, `DecodesWholeBytes`, `PadsFips180`: the shifting
  loops compute what the standards say.
- `InputRead`, `OutputWritten`, `FailedSocketClosed`: what the kernel holds is
  read, what is staged is written, what failed is closed - or the connection
  ends first. In `liveness` one kind of client sends data right behind its request,
  so that an upstream connection has output while its handshake is still under way.

**Bounds.** The fields that could grow are bounded by the environment:
`MaxClients` callers, finite streams. Two descriptors are enough for a tunnel,
for running out of descriptors (the second client of `liveness`, the upstream of
a second client in `safety`) and for reuse in sequence; three allow a stranger to
get a descriptor while an orphan still links to it, and four that stranger to have
a tunnel of its own, or two tunnels to be open at once. In `reuse` a connection
goes by a reset and not by the end of its stream, which adds no other way to
leave a link behind. The destinations of `liveness` send nothing: what is read
there comes from clients, what is written goes to both sides. Batches of two are the least
in which one event can disturb another; batches of one are the hardest for
liveness, because every wait leaves somebody out.

The cache has room for two entries or one, with data that exceed it alone, and
one spare node, so that a freed node can be used again or not.

`Startup` has as many descriptors as one start can use with one to spare, so that
running out of them is a case too; three words are an option, its value and
another option, or one that is swallowed; two addresses are one that fails and
one that works. `StackEvents` is a small number between the values of
`--max-events` that occur. Base64 handles three bytes at a time, so up to four
show every remainder and the carry into the next group; twelve bytes are enough
for the accumulator to overflow several times. Sizes go past two blocks, and to
where the number of bits takes a second, third and fourth byte.

**Deadlock** is not checked in the runs: the server legitimately blocks in
`epoll_wait` with timeout -1 once the bounded environment has nothing more to
do, and it stops for good after `Halt`; a `Startup` run ends with the process, an
`Encoding` run with its last call. That it is not stuck when there *is*
something to do is what the liveness run checks. A `Detector` run ends when the
client's bytes do.

**Fairness.** In `Startup`, `WF(Program)`: the one thread runs, and every call of
the set-up returns; clients and signals need not come. In `ProxyServer`,
`WF(Server)`: the thread runs. `SF(Reports(fd, event))`: epoll
serves its ready list in turn and an entry that is reported goes to the end of
it, so a socket that is ready again and again is not left out for ever; strong,
because readiness comes and goes with the masks and the batches. The same for
the listener. `WF` on the end of a handshake: it completes or times out. A
remote end need not send or close anything. It is assumed to read: whether a
send buffer has room is a choice of each wait, and `SF(Reports(fd, "Writable"))`
says that it has room time and again. That is the one assumption about remote
ends, and without it nothing could be promised of output.

## 4. The proofs

`ProxyServerProofs` proves, for any finite set of descriptors, any streams, any
batch size, any number of clients and any set of faults, from the four
assumptions stated in `ProxyServer`:

| theorem | |
|---|---|
| `TypeCorrect` | `Spec => []TypeOK` |
| `TablesAlwaysAgree` | `Spec => []TablesAgree` |
| `OutputAlwaysArmed` | `Spec => []OutputArmed` |
| `UpstreamOnlyAfterGrant` | `Spec => []UpstreamAfterGrant` |
| `EventsAlwaysFresh` | `Spec => EventsFresh` |
| `VerdictsFinal` | `Spec => VerdictFinal` |

The inductive invariant `IInv` is the conjunction of these state properties with
two more. `PendingOpen` (a waiting event is about an open descriptor) is needed
because otherwise the handlers could apply `connections` outside its domain;
`HalfDone` (between the halves of an event, only its writable half is left) is
needed because `WriteEvent` may then assume that the event is still in the batch.
Both are consequences of the order in which the loop works and neither follows
from the other properties.

The argument goes per connection: `Rearranged` turns `IInv` from a conjunction by
property into one by descriptor (`GoodConnection`, `GoodInterest`), so that an
action that changes one entry, or one and its peer, has to be looked at there
only. Each stage of a readable half (`AfterRead`, `Answered`, `Drained`,
`Refreshed`, `EndRead`, `FinishRead`) has a lemma of its own, as the actions share
them. The two action properties have a second pass over the actions each:
`SocketsKept` says that a step leaves every other socket's incarnation in place,
`VerdictsKept` that it moves every other connection's protocol forward or not at
all.

`TunnelProofs` proves, from the same assumptions:

| theorem | |
|---|---|
| `LinksAlwaysGenuine` | `Spec => []Genuine` |
| `TunnelsAlwaysGenuine` | `Spec => []TunnelsGenuine` |
| `TunnelsRelayWhole` | `Spec => RelayedWhole` |

`TunnelsGenuine` is not inductive: it says nothing of a link that is not returned
yet. `Genuine` (`LinksInv` of the current tables) does: the incarnations of the
open sockets are distinct and at most `made`, pairings are mutual, and *a link
leads to the socket it was made for or to a younger one*. That holds because a
link is only ever made to a socket that has just been created, and whoever gets a
descriptor later is younger still. Two connections that name each other cannot
both be younger than the other, so one of the links is the one that was made,
and the pairing being mutual so is the other. Every action but two at most
loosens links (`Loosened`); accepting and connecting have a lemma each.
`RelayedWhole` needs no invariant beyond `IInv`: in a tunnel the handler is
Established on both sides (`TunnelledHandler`), so that of the readable halves
only `Tunnel` is possible, and nothing else empties a queue (`QueuesKept`).

`FifoProofs` proves, from the same assumptions:

| theorem | |
|---|---|
| `SourcesAlwaysKnown` | `Spec => []FifoInv` |
| `TunnelsNeverMix` | `Spec => []T!Unmixed` |
| `TunnelsAlwaysFifo` | `Spec => TunnelsAreFifo`, that is `Spec => T!Spec` |

The mapping reads the loop's tables, so the proof is about tables:
`Ways(table, open)` is what the mapping makes of them (`FlowsAreWays`), and the
lemmas say which changes of the tables leave the ways alone (`QuietWays`,
`ApartWays`), change one (`OneWay`), end some (`ShutStep`) or open two
(`OpenedStep`). Most steps are then a line: a step on connections outside tunnels
is no step of `Tunnels`. Reading and relaying to one's own peer only move the
borders between the three parts of what is in transit (`ReadKeptFifo`,
`RelayedFlows`), and a write that between transit and `given` (`WriteFifo`).

Where a link left behind leads into a tunnel, the bytes come in behind what
waits for that end (`RelayedStray`). That they are of a connection in no tunnel
is easily said: its link leads to an end that names another, so it has no peer that
names it. That they are never of a tunnel that *opens later* is what needs the
invariant. `FifoInv` says that what is in the queue and in the receive buffer of a
connection was read from its own socket, and that what waits for a connection or
was written to it came from `Linking`: from the proxy, from connections that are
gone, and from connections whose link leads to it. So it is about links and
not about tunnels, and is inductive because a link never turns from one living
connection to another: it is made once, to a socket that has just been created
(`LinksStay`). An end of a tunnel has its link to its own peer, hence nothing of
it elsewhere (`WaysUnmixed`, `NeverMixed`). A connection that a request is answered
to is in no tunnel (`ReadRequestFifo`) - also when the request came in by a
stranger's stale link.

`StartupProofs` proves, for any limit on descriptors, any words and any number of
addresses:

| theorem | |
|---|---|
| `AlwaysCleanExit` | `Spec => []CleanExit` |
| `LoopAlwaysHandedOver` | `Spec => []LoopHandedOver` |
| `StartTypeCorrect` | `Spec => []TypeOK` |
| `ConfigAlwaysAsGiven` | `Spec => []ConfigAsGiven` |

`OpenInv` says of each stage of the set-up exactly which descriptors are open and
which of `socket_` and `poller_` are assigned; `ReturnsClean` is the one argument
for the four paths that clean up. `ReadInv` says of the loop of `ParseConfig` that
what has been read is as the property says for the words before `next`, and that
`next` is itself the position of an option or the end. That there is exactly one
set of option positions, which the property chooses, is `Positions`.

`LRUCacheProofs` proves, for any urls, nodes, data, sizes and limit:

| theorem | |
|---|---|
| `ContainersAlwaysAgree` | `Spec => []ContainersAgree` |
| `SizeAlwaysCounted` | `Spec => []SizeCounted` |
| `SizeAlwaysBounded` | `Spec => []SizeBounded` |
| `CacheKeepsPromise` | `Spec => KeepsPromise`, the refinement of `LRUMap` |

A cache is `Sound` when its list and its map hold the same entries and its count
is their size. `AfterSound`: it is so after any number of turns of the loop, as each
takes the same entry off all three; `Evicted`: there is a first number of turns that
ends the loop, the least of those that would. `Moved`, `InsertedSound` and
`UpdatedSound` are the other stages of a call. For the refinement, `KeptFits` says
that the list the loop leaves is the longest front of the list before it that fits,
which is what `LRUMap` keeps, and `MovedOrder` that a move to the front is a use.

`DetectorProofs` proves `Spec => VerdictStableButPreface` for any set of clients
and any number of bytes: `ProbeMonotone` says that a probe that has decided on
`n` bytes decides the same on more. The proof needs that every method with its
blank is at most eight bytes long, so that `Unsupported` cannot come before it;
the HTTP/2 preface is fourteen, hence the exception.

`EncodingProofs` proves, for any inputs and texts, messages of fewer than 2^61 bytes
and an `int` of any number of values that is a multiple of 4096:

| theorem | |
|---|---|
| `EncodingInvariant` | `Spec => []IInv` |
| `AlwaysEncodesRfc4648` | `Spec => []EncodesRfc4648` |
| `AlwaysRoundTrip` | `Spec => []RoundTrip` |
| `AlwaysDecodesWholeBytes` | `Spec => []DecodesWholeBytes` |
| `AlwaysPadsFips180` | `Spec => []PadsFips180` |

The properties speak of calls that have returned, and so say nothing of a loop that
is under way. `HasEncoded` and `HasDecoded` do: after `n` turns the output is, up to
there, what the standard asks for, and of `val` the bits not yet put out - none, two
or four when encoding; none, six, four or two when decoding - are those of the last
byte or character. Nothing is said of its other bits, which is why it may overflow.
That `x % IntRange` keeps the low twelve bits is `LowBitsKept`; `ByteIn`, `RestIn`
and `DigitIn` say which bits a turn takes from where. There is a case for each
remainder of `n`, by three or by four. The round trip follows from the standards
alone (`Decoded`): the text is read up to its first `=`, and the groups of
six bits are put together to the bytes they came from. It is the only way the two
loops meet. That a message may have at most 2^61 - 1 bytes is the one limit: from
there on `data.size() * 8` would not fit `bit_len`.

No proof uses an induction theorem of the library, which the installed provers
cannot instantiate. Where a recursive function or a loop inside a step has to be
followed, the least-number principle (`LeastNatural` in `CountingLemmas`), applied
to the numbers at which the claim would fail, stands in for it (`Positions`, the turns of `evictIfNeeded`); `Encoding` has its loops' turns as steps,
so that the invariant does it.

Only model-checked, and why:

- the four liveness properties and `StartSettles`: liveness is out of the
  prover's reach;
- `PiecesAgree`, that the detector and the handler read the same first bytes alike:
  it is about the bytes that occur, of which there are few;
- the claims.

## 5. Findings

Each is a run that TLC finds violated, and quotes the line it contradicts.

| run | what happens |
|---|---|
| `claim_send` | a RST between the wait and the write: the second write raises SIGPIPE and kills the process, although `Send` is said to return <= 0 |
| `claim_peer` | client A of a tunnel goes, a new client C gets its descriptor, and what A's destination sends is staged for C, as the upstream's link still names the number |
| `claim_refused` | a refused client that waits for the server to close waits for ever: `closed_` is looked at by the next read only |
| `claim_health` | a request in two segments, the first shorter than eight bytes, is answered with the health page in front of its SOCKS reply |
| `claim_relayed` | the last bytes of a stream, read together with its FIN, are dropped |

Further behaviours seen while modelling, which no run isolates:

- A signal during `epoll_wait` stops the server: on `EINTR` `WaitForEvents`
  returns -1 (`network_linux.cc:164`), which `Run` takes for fatal, although the
  comment at lines 157-159 says "we can continue on". `WaitInterrupted` has it.
- `poller_` and `socket_` have no initialiser, and `CleanUpResources` reads
  `poller_` before it is set on one path; a listening socket that is descriptor 0
  is never closed (both in `CleanExit`).
- `--max-events` is not checked: 0 ends the server at its first wait, a negative
  or a huge one kills it.
- Bytes that arrive with the request, or before the upstream connection exists,
  stay in the receive buffer until the client sends something else
  (`RelayedWhole` says they are relayed then, in order).
- When one end of a tunnel goes, the other is neither closed nor told. It is read
  for ever into a receive buffer nobody empties; a client in this position is
  given a *new* upstream connection at its next bytes.
- The client is told "granted" before the connection is attempted, and is not
  told when it fails; each of its later reads tries again.
- `Read` is said not to close the socket (`connection.h:50-51`), and closes it at
  the end of the stream and after a refusal (`connection.cc:114-118`).
- The HTTP/2 preface is `Unsupported` on 8 to 13 bytes and `Http` on 14.
- Out of descriptors with clients queued, the level-triggered listener makes the
  loop spin; it recovers when a connection closes.

## 6. Not modelled

- The macOS poller. `network_macos.cc` defines no `ConnectTCPIPv4`, which
  `connection.cc:242` calls, so at this commit no server can be linked with it and
  there is no program to be faithful to. (Its `poll()` vector also keeps
  descriptors that were closed.)
- The compression function of SHA-256: sixty-four rounds of the formula of the
  standard, for which the only reference is the same formula; the repository's
  own test vectors are the better check.
- `GetSocketInfo` and `SocketToAddress`: they only feed the log.
- SOCKS5 and `DNS`: stubs and unused code. Logger, string utilities: output and
  formatting. The tests are of SHA-256 only.
- The default branch of the protocol switch (`proxy_server.cc:195-214`):
  `SetProtocol` only ever creates a `Socks4`.
- Sizes of kernel buffers, except that they may be full; urgent data; half-open
  connections that never fail. Standard output or error closed at the start, when
  messages would go to whatever has their descriptors.

## 7. Plan

Done: the loop with its connections, handler, poller and kernel; the detector; the
cache and its abstract specification; the tunnels as FIFOs and the refinement;
the start and the end of the program; Base64 and padding. Proved: every safety
property of the runs that pass, and both refinements; not `PiecesAgree`, an
assumption that TLC evaluates.

What is left, in the order of its worth:

1. The composition of `Startup` with `ProxyServer`: `LoopHandedOver` is
   what `Init` assumes, but the two are separate specifications.
2. Larger instances of `reuse`: five descriptors, with an orphan beside two tunnels.
