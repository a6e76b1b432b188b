# transport_proxy in TLA+

`transport_proxy` (tproxy) is a transparent gateway: it intercepts the outbound
TCP connections and DNS queries of a host, applies an allow or block list,
relays TCP directly or through an upstream proxy, and upgrades DNS to DoH. On
Windows packets are captured with WinDivert and translated in user space; on
Linux the kernel's nat tables redirect them.

This directory models the parts of the program where its own logic is
concurrent, timed or must survive failure, checks them with TLC and proves
central properties with TLAPS. File names and line numbers below are relative
to the repository (`src/` in `PROJECT.json`).

## 1. Inventory

| Component | State | Operations | Interacts with | What makes it correct |
|---|---|---|---|---|
| TCP interception, `internal/interceptor/redirector.go` | `sessions` (client endpoint to original destination, `LastSeen`), WinDivert handle | several `packetLoop` workers: forward NAT, reverse NAT, reinjection; lookup, delete, `sessionGCLoop` | the TCP stacks, the connection handlers, the clock | a connection reaches the destination its client dialled; a session lives as long as its connection; closing reaches the client |
| Connection handler, `internal/proxy/server.go` | per connection: original destination, sockets | accept, lookup, peek, filter, route, dial, relay, deferred delete and close; bounded wait at shutdown | NAT table, filter, PAC, forwarder | every accepted connection ends and releases what it holds |
| Relay, `internal/proxy/forwarder.go` `PipeConnEx` | `lastActivity`, `lastDeadline` of each direction, both sockets | two copying goroutines, lazily refreshed read deadlines, half-close, drain | both peers | nothing lost, duplicated or truncated; idle sessions are cut in time, active ones not; no busy loop |
| Dialling and proxy authentication, `forwarder.go`, `internal/sspi` | connection, authentication context | CONNECT, 407 handshake, retries | upstream proxy | ends, leaks no connection, does not repeat a finished handshake |
| DNS engine, `internal/dns` `engine.go`, `coalesce.go`, `probe.go`, `cache.go`, `doh_client.go` | answer cache, probe results, mutex of each server, calls in flight | `ProcessDNSQuery`, `CheckOrProbe`, `Do`, `Get`, `Set`, `UpdateConfig` | DoH servers, configuration | one request and one probe at a time; the right answer under the right ID; every query ends |
| DNS dispatch (Windows) | `dnsQueue` of 2048 tasks, 16 workers | enqueue or spill, process, inject | packet loop, engine | no query is lost between queue and engine |
| iptables redirector (Linux), `redirector_linux.go` | kernel nat tables, `rulesApplied`, `closed`, DNS listeners | `Start`, `Close`, `SetDNSServers`, `SetDryRun`, `-cleanup` | kernel, `main`, reloads | rules match the configuration, never loop the gateway's own traffic, never outlive an orderly exit |
| Lifecycle, `cmd/tproxy/main.go` | what is open | start-up, reload callback, signals, shutdown order | everything | redirection only while it is served |
| Configuration, `internal/config` | current configuration, `lastMod` | poll, load, publish, callbacks | all engines | the last good file takes effect once |
| PAC resolver, `internal/pac` | decision cache and its size, session | `Resolve`, `UpdateConfig`, cleanup, `Close` | PAC engine, handlers | decisions of the current configuration; bounded cache |
| Filter, `internal/filter` | rule sets | `ShouldBlock`, `UpdateRules` | handlers, DNS engine | the decision a reader of the rules expects |
| Logger, `internal/logger` | queue of 32768, drop counter, worker | `Write`, `Flush`, `Close`, replacement | every goroutine | accepted messages are written once and in order; nobody blocks |
| UDP flow table, `udp_flow.go` | last time each flow was seen | check and record, cleanup | packet loop | each flow is audited once per session |
| Outbound ports, `dialer_windows.go` | port counter | pick and bind | packet loop's own-traffic test | own traffic is recognised |
| Port guard and scanner | last report | poll, report | operating system tables | reports what is new |
| Parsers, PAC script engine, SSPI and WinDivert bindings | none | byte formats, foreign functions | | not modelled: data or foreign code |

The hard behaviours: several packet workers and old and new handlers share one
table that is indexed by an endpoint which clients reuse; two goroutines share
a clock and set each other's deadlines; identical queries share one request
that may fail or panic; nat tables change one command at a time and survive the
process; every component is reconfigured while it runs. `PROJECT.json` lists
the hazards at their lines, with the properties that watch them.

## 2. Modules

| Module | Models | Runs | Proofs |
|---|---|---|---|
| `NatSessions` (`MCNat`) | packet workers, session table, handlers, garbage collector, both TCP stacks | `nat`, `nat_live` | `InterceptProofs` |
| `PacketLoop` (`MCPackets`) | dispatch of captured packets, DNS queue and workers, UDP flow table, setters, shutdown (Windows) | `packets` | `PacketProofs` |
| `Server` (`MCServer`) | accept loop, transparent and explicit handlers, `Close` | `server` | `ServerProofs` |
| `ProxyDial` | `DialOutbound`, the CONNECT handshake with Basic and SSPI, the retry | `server` | `ServerProofs` |
| `Relay` | `PipeConnEx` | `relay` | `RelayProofs` |
| `Pipe` | abstract: what a relay promises its two peers | `relay` | `RelayProofs` |
| `DnsEngine` (`MCDns`) | concurrent `ProcessDNSQuery` with probes, coalescing, reloads | `dns`, `dns_live` | `DnsProofs` |
| `DnsCache` (`MCDnsCache`) | the answer cache: map, counter, TTLs, sweeps, `Purge` | `dnscache` | `DnsCacheProofs` |
| `ConfigReload` (`MCConfig`) | the configuration file, the watcher, `main`'s callback | `config` | `ReloadProofs` |
| `Filter` | rule compilation and matching, and what they are meant to decide | `config` | `ReloadProofs` |
| `LinuxGateway` | `main`, reload callback, iptables redirector, nat tables | `gateway` | `InterceptProofs` |
| `Logger` | `AsyncWriter`, its worker, `SetupGlobalLogger`, `main`'s flush, close and `log.Fatalf` | `logger` | `LoggerProofs` |
| `PacResolver` (`MCPac`) | `Resolve`, its cache, `UpdateConfig`, cleanup, `Close` | `pac` | `ReloadProofs` |

A module of proofs may cover two components and then extends both; for that the
definitions of `ConfigReload` and `LinuxGateway` that every module has carry the
module's name (`ConfigInit`, `GatewayNext`, `GatewayTypeOK`).

How they fit together:

- `ConfigReload` extends `Filter`: a new configuration is compiled by
  `UpdateRules` and asked by `ShouldBlock`, so one run covers the way from the
  file to a verdict.
- `Server` extends `ProxyDial`: every handler runs a dial of its own.
- `Relay` instantiates `Pipe` under a refinement mapping: a peer's stream has
  ended when the peer is not open, a peer has been told when a FIN was sent to
  it, and the pipe is closed when the client's connection is.
- `Server` keeps of the relay its order, and nothing of its end (`RelayEnds` may
  happen and need not): `RelayReturns` of `Relay` takes peers that read. `PacketLoop` keeps of the DNS engine that
  every query ends, which is `EveryQueryEnds` of `DnsEngine`; a handler's lookup
  and deletion in `NatSessions` are those at both ends of a handler of `Server`.
- A reload runs through `ConfigReload`'s callback in one goroutine; what each
  engine does with it is an action of its own module (`Reload` of `DnsEngine`,
  `UpdateConfig` of `PacResolver`, `Purge` and `SetMaxTTL` of `DnsCache`, the
  setters of `PacketLoop` and `LinuxGateway`, `SetupGlobalLogger` of `Logger`).

### NatSessions

A *connection* is opened once by a client, from an endpoint (`KeyOf`) to a
destination (`DstOf`). `sessions` is `Redirector.sessions`; a session is its
destination and whether `LastSeen` is a TTL ago. A captured packet is a
connection, a direction and a kind. A worker's turn is two steps: `ForwardNAT` or
`ReverseNAT` takes a captured packet, reads and changes the table and rewrites
the packet, which then waits in `rewritten`; `Send` gives it to the stack, which
acts on it (`SendForward`, `SendReverse`). Between the two, handlers, the
collector and the other workers go on. `Load` and `Store` of one packet stay one
step: the table ends as if another goroutine's access had come before or after
both. Packets wait in sets, so that workers may process and send them in any
order. `LastSeen` is only looked at for the TTL of 24 hours, so that it does not
matter that reverse packets refresh it once a second at most. The IPv6 branch of the
loop is the same translation. The dry run is `PacketLoop`'s, as are the ports
40000 to 48999, which the proxy dials from and no client endpoint of the model has.
`orig` is what a handler looked up, until it returns. `handleClient` is `LookupOriginalDestination`, then
`Respond`, `ReturnEarly` or `ReturnFromRelay`, then the deferred
`DeleteSession` and `DeferredClose` as two steps. The collector finds an
expired session (`GcFindExpired`) and deletes it (`GcDelete`) in two steps.
The client's socket, the proxy host's socket (`leg`) and the driver are
external; they keep what the table can notice: SYN, data or ACK, FIN, RST,
retransmission, displacement of a socket by a new SYN, late segments.

### PacketLoop

A packet is of one class (TCP, QUIC, DNS, other UDP) and ends sent as it was,
translated, answered or lost for a named reason. The handle is opened once:
whether it diverts or sniffs, and what it captures, is settled in `Init` from
the first configuration, while the setters of a reload (`SetDNSServers`,
`SetDryRun`, `SetUDPFilter`) change the fields that the workers read without a
lock. `DispatchTCP` translates, or sends on as they are the packets of the
proxy's own ports and its answers without a session; `NatSessions` says which
has a session. `DispatchDNS` appends to the queue or, when it is full, starts a goroutine
(`"task"` directly); `CheckEngine` and `AskEngine` are two steps because the code
tests the engine and then calls it. `CheckAndRecord` of the flow table is a load
(`DispatchUDP`) and a store (`FlowStore`), `Cleanup` a look and a delete. One
flow is modelled, for flows share nothing but the table.

### Server and ProxyDial

A client's stream is a sequence of numbered chunks; chunk 1 begins the hello or
is the request, and the name in a hello is known from its first `helloLen`
chunks. `Peek` takes what has arrived, `ReadRequest` may take more than the
request, and an upstream's first chunk may come with the proxy's 200: the three
places where the code buffers bytes the relay must not lose or repeat. A request may announce a body: `WriteRequest` sends the head, and `CopyBody` one
chunk after another from the client, whose read deadline is gone by then; while
none comes the handler waits (`AwaitsBody`), and a client that leaves ends it. The
deferred calls are `HandlerReturns` and `HandlerDone`. `Accept` and
`StartHandler` are two steps, since `activeConns.Add` comes after `Accept`.
`Close` is the flag, the listener, and the wait that either drains or takes
three seconds.

A dial is a record: where it is, which request waits, its sockets and whether a
deadline is set. A proxy answers anything: 200, 407 with either scheme, with or
without closing the connection, another status, an error, or nothing. The fresh
connection after a failed SSPI handshake is `conn = 2`.

### Relay

Direction `s` reads from side `s` and writes to the other. A deadline is the
time left, a timestamp the time since. `ReadData` includes the store to
`lastActivity`; `updateDeadline` and its interval, `HandleTimeout`, `ReadEOF`
with `closeWrite` and the drain deadline, and the two ways of closing follow
the code of one goroutine; the other goroutine is its mirror image. Time passes
only when both goroutines are blocked: they run in microseconds and the least
interval is seconds. The 20 ms granularity of the shared clock is below the
model's unit.

`Pipe` has no clock, goroutine or buffer: it delivers, passes an end of stream on
behind the last chunk, cuts a direction, or closes.

### DnsEngine

A query is processed once; `pc` says where. A key stands for target server,
name and type; an answer is named after the query whose request obtained it,
and carries the ID of the query it is given to. `GetStatus` reads and
`DeleteStatus` deletes in two steps, as `sync.Map` allows; the per-server mutex,
the second look under it, the deferred cleanup of a coalesced call (remove from
the map, then release the followers) and the store in the cache are steps of
their own. A request succeeds, fails or panics; a panic ends in the recover of
`processDNSTask`, which drops the query. Target servers are never loopback or
unspecified addresses, for which the code does not probe.

### DnsCache

Every load, swap, delete and addition to the counter is a step. An entry is its
expiry and the number of Purges begun before it was stored. `Set` reads `maxTTL`
three times, as the code does: for the default of `ExtractMinTTL`, for the
comparison and for the clamp. `Get` deletes by key what it found expired. A
sweep, of the ticker or of a `Set` over the capacity, visits in any order the
keys that had expired when it began; the others need no visit, for entries stored
later expire later. `Purge` visits every key once and then stores 0.

### ConfigReload and Filter

The file has a content and a modification time, and is changed by others at any
moment: written in place in two parts, replaced by a file with an older or newer
time, or removed. The watcher's poll, second stat, read, publication and the
callback's seven engines, one by one, are steps. The defaults are applied by
`Normalise`; `RulesOf` is the choice of lists in `main`. The callback may panic
between two engines. `taken` is history: the reload from which an engine took
its configuration.

In `Filter` names are sequences of characters over a small alphabet with both
cases, and addresses integers of `AddrBits` bits. `UpdateRules`, `match` and
`ShouldBlock` follow the code; `matchWildcard` is a recursive function over
positions. `CoversName`, `CoversIP` and `WildcardSpec` say what a rule is meant
to cover, without those algorithms.

### LinuxGateway

`nat` counts how often each chain, rule and hook is in the table of each address
family; `Refused` and `Effect` are what the kernel does with `-N -A -D -F -X`.
`removeIPTablesRules` and `applyIPTablesRules` are the command sequences of the
code with what it does on error (`ignore`, `abort`, `skip` the family, add the
`owner` rule instead). `execCmd` runs one command; it may fail without reason
up to `MaxFailures` times. The holder of `Redirector.mu` (main, the reload
callback or `-cleanup`) runs its list to the end; the process may die between
any two commands, and the tables stay. The fifth `-D` of a family and the removal of
explicit PREROUTING rules of older versions are left out: this version
creates no rule that they could match. `main` goes through `loaded`, when the reload
callback is registered and `Start` still to come; `early` is history, and says
that a reload has ended a dry run in that window.

### Logger

Writer `w` is the `w`-th `AsyncWriter`. A message goes through `Write` in up to
three steps, the look at `closed`, the `select`, and, if that found the queue full,
`dropped.Add` (`CountDrop`), under the standard logger's own mutex (`outMu`,
external). The worker may empty the queue and end before the last of them. The worker's `select` is `Receive`, `Tick`, `Stop`
and `AcceptFlush`; `drainQueue` takes one message at a time. `Close` is three
steps (set the flag, close the queue, wait), taken by a reload that holds
`writerMu` or by `main`, which does not. `FlushBuffer` may fail after any part of
the buffer; the worker ignores it and bufio then refuses everything (`broken`).
`accepted`, `before`, `drained` (a Flush emptied the queue) and `late` (a drop was
counted when nothing was queued any more) are history. bufio's own write of a full buffer is left out: it only moves messages
to the destination earlier.

### PacResolver

Configurations are numbered, and a decision is the number of the configuration
it was made with. Every `sync.Map` and atomic operation of `Resolve`,
`storeCache`, `UpdateConfig` and the cleanup is a step; a `Range` visits the
keys one by one in any order. `mu` is held by `UpdateConfig` from its first to
its last step; `Resolve` reads the configuration only while it is free. `late`
and `overlap` are history.

## 3. Runs

All runs pass; the numbers are distinct states.

- **nat** (2.7 million): one client port used for two connections to different
  destinations, two packets between capture and reinjection at a time, and either one
  late segment or one idle TTL (`MaxRare`). A handler dials another destination than
  its live client's only if a packet of the port's previous connection was processed
  after the port was reused (`MisrouteNeedsStraggler`); a handler mistakes an
  intercepted connection for an explicit one only if another handler or the collector
  deleted the session (`MissNeedsDeletion`). Two connections on one port is where
  reuse begins, and two packets is where workers can overtake; late segments only
  ever put a session back, so that they and the collector need not meet. The theorems
  hold for any number of either.
- **nat_live** (450 thousand): under `TalkingSpec` a close reaches the client, even
  though the session is deleted first: the client's next packet recreates it
  (`CloseReachesClient`); and a connection attempt is answered (`ConnectIsAnswered`).
  The connections reuse one port here too; a packet of the first may still be between
  capture and reinjection when the second begins.
- **relay** (890 thousand): timeouts 0 (permanent), below and above the refresh
  cap, one chunk each way. `IdleCutBound` (an idle direction is not cut too late; that
  an active one is not cut too early is the next), `NoActiveSessionIsCut`, the refinement
  `ImplementsPipe`, and under `ReadingSpec` `RelayReturns`. The constants keep
  the code's order floor < cap < drain (5, 30, 60 s). One chunk is enough for
  data before, after and during each half-close; for any number the proofs hold.
- **dns** (2.9 million): three queries, two of them identical, one server, one
  expiry, one reload. `OneRequestPerKey`, `AnswerFits`, `ProbesAreCoalesced`,
  `FallbackIsHeeded`. The two identical queries are interchangeable, hence the
  symmetry set; the run has no temporal property.
- **dns_live** (16 thousand): `EveryQueryEnds`, with a blocked name, an
  unparseable query and panics.
- **dnscache** (2.2 million): two queries, the ticker and one reload, two keys, a
  capacity of one. `CountIsExact`, `PurgeForgets`, `SweepIsComplete`,
  `LifeIsBounded`. One key has no usable TTL and the other one between the two
  maxima, so each branch of `Set` is taken; a capacity of one makes a `Set` sweep.
- **config** (610 thousand): four configurations (an all-pass mode, a blacklist,
  one written `Blacklist`, and the default whitelist), three changes of the file,
  three ticks. `PolicyFollowsConfig` (with `WildcardIsExact`, every pattern of up
  to four characters and two longer ones against every text of up to three),
  `EnginesAgree`, `FileTakesEffect`. Three changes are a half-written file, its
  completion and a replacement.
- **gateway** (610 thousand): one crash, one reload, one failing command.
  `ExitRestoresNetwork`, `RulesMatchConfig`, `NoSelfLoop`, `RedirectIsServed`, and
  under fairness `ShutdownEnds`. One failing command is the most for which
  `ExitRestoresNetwork` and `NoSelfLoop` hold, and they say so (`failures <= 1`): two
  that fail together (the unlinking and the flush, or both forms of the bypass
  rule) leave a redirection behind.
- **logger** (480 thousand): three messages, a queue of one, a switch of the
  file, a flush and the exit. `AcceptedIsWrittenOnce`, `LossNeedsCause`, and under
  fairness `CallersReturn`. A queue of one is full as soon as two messages meet,
  and three messages are one to be written, one queued and one dropped.
- **pac** (940 thousand): three calls, two of them for one URL, a maximum of one
  entry, one reload. `StaleNeedsOverlap`, `DriftNeedsOverlap`, and under fairness
  `StaleEntriesGo`.
- **packets** (370 thousand): three packets of one UDP flow; two queries that
  meet in a queue of one, beside a TCP packet; one of each kind of UDP; one
  reload and the shutdown. `OneCopy`, `LossIsExplained`, `ReauditNeedsOverlap`,
  `PacketsAreSettled`. A TTL of two and a refresh of one are the least with three
  different ages of an entry: fresh, to be refreshed, expired.
- **server** (360 thousand): one client that makes any of eight connections
  (transparent or explicit, with a body, blocked by name or address, direct, through
  an HTTP or HTTPS proxy, bypassing SSPI, remote) and one whose permanent connection
  competes with it. `StreamsInOrder`, `HandlerReleasesAll`
  (with `DialLeavesNothing`), `DrainedMeansDone`, and under fairness
  `EverythingEnds`. Two rounds of SSPI instead of five: the first, a further one
  and the bound. Handlers share the wait group and the accept loop only, so that
  two are enough to have one waited for and one late.

The type invariant of a module is a theorem, or the first conjunct of an invariant
that its run checks (`CountIsExact`, `RulesMatchConfig`, `AcceptedIsWrittenOnce`,
`EnginesAgree`, `StreamsInOrder`, `OneCopy`), or both.

In eight places the code does something else than the repository says of it. The
models do what the code does, and no property takes either side's word for it:

- `dry_run`. `README.md:263` and `:289` say that a change takes a restart; the reload
  callback (`main.go:262`) sets the redirector's flag from the file, and so also ends
  a dry run asked for on the command line. `EnginesAgree` leaves the flag out.
- If it does so after `main` decided to open no listener (`main.go:298`) and before
  `Start` looks at the flag (`redirector_linux.go:122`), the TCP redirection goes up
  and nothing serves it. `RedirectIsServed` excepts exactly this, by the history
  variable `early`; a `~early` left out of it has TLC find the race.
- `dns_servers`. `README.md:278` says that it is reloaded; a reload that empties it
  redirects DNS to a port on which nothing listens, for `Start` alone opens it
  (`redirector_linux.go:128`). `RedirectIsServed` speaks of DNS until the first reload.
- `dns_cache_ttl_sec`. `README.md:283` and `config.go:40` call it a maximum, `cache.go:85`
  says "clamped by maxTTL"; the floor of 5 s comes after the clamp (`cache.go:97`), so
  that an answer outlives a maximum below 5. `LifeIsBounded` leaves such maxima out.
- `fallback_to_udp`. `config.go:38` and `README.md:281` let it decide what a DoH failure
  does; a query to a server whose probe failed leaves in plain text without its
  being asked (`engine.go:112`). `FallbackIsHeeded` excepts this.
- Blocking by name. `server.go:241` has the rules "ALWAYS active for all protocols &
  destinations"; a client that sends its hello late or in pieces is judged by its
  address, and what follows is relayed (`server.go:216-219`). No property.
- Blocking by address. `README.md:147` and `:273` and the same comment promise it; the
  filter is asked about the address only when there is no name (`server.go:242`), and
  a blocked address is reached under any name that is not blocked. No property.
- `idle_timeout_sec` 0. `README.md:224` has a session kept up all the time; after a
  half-close the other direction gets a deadline of 60 s that is never refreshed
  (`forwarder.go:400`). `NoActiveSessionIsCut` speaks of sessions both of whose peers
  are still sending.

Properties with an exception in their statement name a behaviour of the code
that the models contain and that a reader of the code should know of. The other
ones:

- `MisrouteNeedsStraggler`, `MissNeedsDeletion`: lookup and `DeleteSession` are
  by endpoint, so a late packet of a port's previous connection makes the
  lookup return the old destination, and a handler that returns late deletes the
  next connection's session.
- `CloseReachesClient` needs a client that sends something: the session is
  deleted before the socket is closed, and the FIN alone does not get through.
- `RelayReturns` needs peers that read: writes have no deadline, and no property
  holds of peers that do not.
- `ExitRestoresNetwork` leaves out a process interrupted before `signal.Notify`,
  and `RedirectIsServed` a dry run that finds a dead process's rules (`inherited`).
- `LossNeedsCause`: the old writer is closed before the new file is opened; if
  that fails, log output, the console's too, ends. A message may also end as
  `panicked` (sent on the queue `Close` has just closed), or still be queued when
  `log.Fatalf` exits. A `Flush` drains the queue without reporting drops, and a
  drop that is counted when the queue is empty again is reported by nobody, if
  nothing more is logged: the worker may even have ended. `AcceptedIsWrittenOnce`
  promises nothing of a destination that has refused a write.
- `StaleNeedsOverlap`, `DriftNeedsOverlap`: a call that overlaps a reload may put
  an old decision back into the cleared cache, and the size counter may lose
  entries, so that the cache exceeds its maximum.
- `CountIsExact`: a `Purge` that overlaps a `Set`, a `Get` or a sweep leaves the
  counter wrong for good. `LifeIsBounded`: a `SetMaxTTL` between the reads of a
  `Set` may give an answer a lifetime neither maximum allows.
- `PolicyFollowsConfig`: a blacklist mode not written in lower case is handed the
  *allowed* lists by `main` and treated as a blacklist by the filter, which then
  blocks what was to be allowed.
- `EnginesAgree`: an engine whose update panicked, and those behind it, keep the old
  configuration, while the ones before it have the new; what holds even then is that no
  engine is ahead of one that is updated before it. `FileTakesEffect`: a replacement that is no younger than an earlier
  version is never loaded, and after a panic of the callback the engines behind
  it keep the old configuration until the file changes again.
- `OneCopy`: a handle opened for a dry run goes on sniffing after a reload has
  ended the dry run; the translated packet is then sent beside the original.
- `LossIsExplained`: queries in the queue when a reload takes the engine away are
  dropped. `ReauditNeedsOverlap`: two workers may both log a new flow, and
  `Cleanup` may delete an entry that was just refreshed.
- `DrainedMeansDone`: a connection accepted and not yet counted escapes `Close`.
  `EverythingEnds`: a handler may wait without limit for a silent proxy, in the TLS
  handshake, with `bypass_sspi` and in the Basic retry; for the body of a request
  that its client has announced and does not send; and in its relay.
- `StaleNeedsOverlap`, `DriftNeedsOverlap` and `ReauditNeedsOverlap` say that only
  overlapping goroutines can do the harm, not that they cannot: what they
  check is that each goroutine alone, in any order with the others, does none.

`CHECK_DEADLOCK FALSE` is given where a run ends because its clients, queries,
packets or bounded changes are used up (`nat*`, `dns*`, `dnscache`, `config`,
`packets`, `pac`) or the process has ended (`logger`, `server`); elsewhere
deadlock is checked.

## 4. Fairness

- Goroutines and workers that are ready are scheduled (weak fairness): a step of
  each relay direction, handler, DNS task, packet worker, logger or updater.
- A mutex that is released again and again is granted to each waiter (strong
  fairness on the step that takes it): Go's mutexes switch to a fair mode.
- A `select` with two channels ready takes each of them again and again (strong
  fairness of the watcher's stop in `ConfigReload`): Go chooses at random.
- Requests end: the HTTP client, the dialer and iptables have timeouts or end. The
  answer of an upstream proxy does *not* have to come; only a deadline that the
  code has set ends the wait.
- Timers expire and time passes. In `Server` no relay has to end, nor any write to
  a peer, for which there is no deadline.
- A packet worker's turn is fair for each connection and direction, both its
  translation and its sending (`ProcessOf`, `SendOf`).
- `TalkingSpec` and `ReadingSpec` add what a well-behaved peer does (it
  retransmits or sends keep-alives; it reads); without it the properties fail,
  as said above.
- Otherwise nothing is assumed of clients' sending, reading or closing, of upstreams,
  of crashes, of reloads, or of the file.

## 5. Proofs

All theorems hold for every value of the constants that satisfies the named
assumptions of the module: `ConstantsAssumption` and `NoneIsNoSession` of
`NatSessions`, `TimesAssumption` of `Relay`, `DnsAssumption` and `NoneAssumption`
of `DnsEngine`, `CacheAssumption`, `PacAssumption`, `PacketAssumption`,
`LoggerAssumption`, `GatewayAssumption`, `BoundsAssumption` and
`ConfigsAssumption` of `ConfigReload`, `CharsAssumption` and `AddrBitsAssumption`
of `Filter`, and `ServerAssumption` with `DialAssumption`. They give constants
their types and keep `None` apart from values. `AddrBitsAssumption` also says that
powers of two are positive numbers, since the provers know no exponentiation, and
TLC evaluates it. Three say more: the refresh interval of a flow is at most its
TTL (5 and 60 s in the code), the relay's floor, cap and drain are in the code's
order, and the sets of clients and cached keys are finite, so that what is counted
has a number.

Each module of proofs states its inductive invariant first, as a conjunction of
named parts, then one lemma per action, and its theorems last.

- `InterceptProofs`, of the two ways to intercept. For `NatSessions`: `TypeCorrect`.
  `RoutingCorrect` proves `MisrouteNeedsStraggler` from `RoutingInv`: an endpoint
  belongs to the connection opened last (`LiveIsLatest`), nothing is known of a
  connection that was not opened (`IdleIsUnknown`), and without stragglers the
  session of an endpoint names the latest connection's destination once that has
  reached the proxy (`SessionOfLatest`). The property alone is not inductive: it
  says nothing of the table before the lookup. `LookupCorrect` proves
  `MissNeedsDeletion` from `LookupInv`: from the first packet a worker has rewritten,
  sent on or not, to the lookup there is a session, unless a named culprit took it (`SeenHasSession`), the
  collector only takes aged ones (`ExpiredIsAged`), and a half-open socket has no
  handler.
  For `LinuxGateway`: `NeverLoops` (`NoSelfLoop`), `ExitsAreClean`
  (`ExitRestoresNetwork`), `RulesFollowConfig` (`RulesMatchConfig`) and
  `RedirectsAreServed` (`RedirectIsServed`), for any number of crashes and reloads,
  any choices of servers and any number of failing commands that the properties
  themselves admit, all from `GatewayInv`. A family's removal and application are
  twenty kinds of commands, and the scripts of the code go through forty positions
  of two families (`Command`, `NextPos`). `ProgressOK` says that what is left of the
  running script is a path from some position to the end, and that each family's
  table holds what `Stage` says at that position: chains are off once they are
  unlinked or flushed (`Removal`), nothing is hooked in before it is complete and
  guarded (`Building`), and without failures each entry is gone or back according to
  its place in the script (`Faultless`). `TablesOK` is what holds whatever runs: the
  kernel's own rules, a redirection is guarded, nothing is there twice. `QuietOK`
  and `MatchOK` carry the result over the time when no script runs, and `LifeOK`
  ties the holder of the lock, `main`'s flags and the listeners together, and says
  that a process started dry has its flag cleared before `Start` only if `early`. The
  properties are far from inductive: that a second start over a dead process's rules
  ends with each rule once depends on every command before it. The proof has a lemma
  for each kind of command that succeeds (`SuccessStep`) and for each thing the code
  does about one that fails (`IgnoredStep`, `OwnerStep`, `SkipStep`,
  `AbortIsQuiet`); `NeverRefused` shows that, as long as no command has failed, the
  kernel refuses none whose error would end the script.
- `RelayProofs`. `RelayTypeCorrect` includes that no direction delivers more
  than was sent (`NoDuplication`). `NeverSpins` proves `NoSpin`, that no goroutine
  spins on a deadline in the past, from
  `RefreshIsDue`: time left plus age of the last refresh exceeds the refresh
  interval, an invariant that also the drain deadline set by the other
  goroutine keeps, because the cap is below it. `CutIsBounded` adds
  `DeadlineIsNear`: last activity plus time left is at most twice the idle
  timeout and a drain. `RelayIsAPipe` proves `ImplementsPipe`, the safety
  refinement, for any amount of data: `PipeInv` accounts for the chunk a
  goroutine holds between its read and its write (`Carried`), which is what makes
  "the end is passed on behind the last chunk" inductive, and `StepIsPiped` maps
  each action to an action of `Pipe` or a stutter. `ActiveSessionsGoOn` proves
  `NoActiveSessionIsCut` from `ActiveInv`: in a session that was neither reset nor
  silent for its timeout the connections are open until both goroutines have
  ended, and one ends only behind the last chunk (`CalmInv`); in permanent mode a
  direction has no deadline while the other peer is open (`PermanentInv`). That a
  deadline never expires earlier than the timeout after the last activity comes
  from the arithmetic of `HandleTimeout` and the refresh.
- `DnsProofs`. `DnsTypeCorrect`. `SingleFlight` (leaders are the registered
  calls of their keys, `LeadersAreRegistered`). `AnswersFit` (entries, calls and
  results all belong to the key they are filed under, and a result is written
  once, `AnswerInv`). `ProbesCoalesced` (`ProbesAccounted`: a probe is paid for
  by a known status, a probe under the mutex or a deletion). `FallbackHeeded`
  proves `FallbackIsHeeded` from the history of a query (`QueryHistory`: no reply
  before it ends, no call joined before it reaches the group) and of the probes
  (`ProbeHistory`: what is held to be unsupported was probed), and from what
  a query that waits or leads was told (`AnswerInv`).
- `DnsCacheProofs`. `CacheTypeCorrect`. `CountCorrect` proves `CountIsExact`:
  while a `Purge` runs undisturbed the equation is suspended, nobody has an
  addition in hand and only keys still to be visited are present, so that the
  final store of 0 restores it (`CountInv`). `PurgeIsThorough` proves
  `PurgeForgets`: entries older than the running Purge are at keys it has still to
  visit (`EraInv`). `SweepsAreComplete` proves `SweepIsComplete`: what had expired
  when a sweep began and is still there is among the keys left or is the one being
  deleted (`Swept`), because whatever is stored meanwhile expires later.
  `LifetimesBounded` proves `LifeIsBounded` from what a `Set` knows after each of
  its reads (`Timed`).
- `ReloadProofs`, of what a reload changes. For `PacResolver`: `PacTypeCorrect`.
  `StaleDecisions` proves `StaleNeedsOverlap` from `StaleInv`: an entry is of the
  current configuration, was stored late, or is of the previous one and about to be
  deleted (`EntriesAccounted`); a call never reads the configuration that is being
  installed (`ReadBeforeUpdate`); and what a call stores is of the configuration it
  read (`OwnDecision`). `CountDrift` proves `DriftNeedsOverlap` from `DriftInv`:
  until two goroutines have overlapped, at most one is changing the cache (`Alone`),
  and the difference between counter and entries is known from the step it has
  reached (`SizeInv`).
  For `ConfigReload`: `EnginesStayInStep` proves `EnginesAgree` from `ReloadInv`:
  while the callback runs the engines before the next one have the configuration
  that was published, and so have the rules and the dry-run flag from the step that
  sets them (`FirstUpToDate`); and no engine's configuration is from a younger reload
  than that of one before it, panics included (`TakenInOrder`). `LoadsStayBounded` proves `LoadsAreBounded`, the part of
  `FileTakesEffect` that is an invariant, from `ChargedInv`: a version not loaded
  yet is a change of the file that no load has used up. `PolicyStaysFaithful` proves
  `PolicyFollowsConfig` for all configurations, names and addresses: a compiled list
  covers a name exactly if a rule of it is meant to (`NamesListed`, from
  `RuleCovers` on suffixes and lower case), an address exactly if a block of the
  list contains it (`AddressesListed`, `BlockCovers`), and `DecisionIsIntended` goes
  through the modes.
  For `Filter`: `MatchWildcardExact`, that `matchWildcard` agrees with
  `WildcardSpec` for every pattern and every text. `Fits` is the meaning of the rest
  of a pattern for the rest of a text, `FitsStep` says how it depends on shorter
  rests, `CellFits` that an entry of the table computes just that, and `TableIsFits`
  concludes for the whole table: of the entries that were wrong one would have the
  fewest characters left (`Smallest`, from the well-foundedness of the naturals,
  which takes the place of an induction), yet it is right because the shorter ones
  are.
- `PacketProofs`. `PacketTypeCorrect` includes the bound of the DNS queue.
  `PacketsAreNotCopied` (`OneCopy`) and `LossesAreExplained` (`LossIsExplained`)
  follow from `PacketInv`: what the handle does was settled at the start and a
  field that differs was set by a reload (`HandleInv`), the queue holds each query
  once (`QueueInv`), nothing was sent of a packet in hand except the copy that a
  sniffing handle let pass (`InHand`), and a settled one was sent once or has a
  reason (`Settled`). `ReauditsNeedOverlap` proves `ReauditNeedsOverlap` from
  `FlowInv`: without an overlap what the one worker in `CheckAndRecord` has loaded
  is what the table holds, or so old that a new flow begins anyway (`Loaded`), and
  the entry lags behind the flow's last packet by less than the refresh interval
  (`Current`).
- `ServerProofs`. `ServerInvariant` keeps `ServerInv`, from which the four others
  follow: `ServerTypeCorrect`, `StreamsAreOrdered` (`StreamsInOrder`),
  `EveryHandlerReleases`
  (`HandlerReleasesAll` with the `DialLeavesNothing` of `ProxyDial`) and
  `DrainIsComplete` (`DrainedMeansDone`). The invariant joins three things. Of a
  dial (`DialSound`): which socket is open where it is, that a deadline is set
  only while an answer is awaited, and how many requests a round has cost
  (`Frugal`, `Asked`). Of a client (`ClientSound`): what went upstream and what the
  handler still holds are together the consecutive chunks it has read (`Held`),
  the chunk that came with the proxy's 200 precedes what the relay reads
  (`DownInOrder`), and an explicit
  request is owed an answer (`Answering`); `Linked` says where a handler's dial can
  be. Of the wait group (`GroupInv`): it counts the handlers that run. None of
  these is inductive without the others: order needs to know that a handler which
  writes has a connected dial, release that a failed dial has closed its socket.
- `LoggerProofs`. `LoggerInvariant` keeps `LoggerInv`, and gives
  `LoggerTypeCorrect`, `AcceptedAreWritten` (`AcceptedIsWrittenOnce`) and
  `LossesHaveCause` (`LossNeedsCause`). What a queue took is what is written,
  buffered and queued, in this order (`QueueInv`, with `Kept` and its lemmas on
  concatenation), and a worker ends with both empty; a drop that is not yet
  reported has a message behind it that will report it, unless a Flush took that or
  the drop was counted late (`DropInv`); one `Write` is in progress at a time (`CallInv`); the current writer
  is the output and is closed only by the switch that replaces it (`SwitchInv`);
  the writer that main flushes or closes has a worker, only main's request makes
  it drain, and main closes a writer that is no longer the current one (`MainInv`).

Every invariant and action property of every run, and the relay's refinement of
`Pipe`, is proved. Only model-checked are the liveness properties
(`CloseReachesClient`, `ConnectIsAnswered`, `RelayReturns`, `EveryQueryEnds`, `FileTakesEffect`,
`ShutdownEnds`, `CallersReturn`, `StaleEntriesGo`, `PacketsAreSettled`,
`EverythingEnds`): the prover has no fairness or ENABLED.

No `RECURSIVE` operator is used.

## 6. What is left out

Next would be models of the outbound ports and of the port guard, and of the
search for a free listen port.

Known hazards outside the models' properties: the rules are in force before the
process handles signals (`cmd/tproxy/main.go:325`) and a dry run does not remove
what a crashed process left (`redirector_linux.go:122`), both of them exceptions
of the gateway's properties; `log.Fatalf` leaves past the deferred `CloseGlobal`
(`main.go:309`); a send may meet a queue that `Close` has just closed
(`logger.go:133`).

Left out of modelled components: the IPv6 branches (the same translation over
wider addresses), a custom `DivertFilter`, the deduplication of dry-run log lines,
the cache of local addresses, the search for a free listen port
(`AcquireListener`), the fields of the configuration that only carry a number to
an engine, and the Linux DNS listener's loop, which calls the engine with what it
reads.

### Not modelled

- Packet, TLS, HTTP and DNS byte formats and checksums (`packet_parser.go`, the
  name parser of `dns/parser.go`): functions over bytes that appear as a packet's
  class, a query that parses or does not, a name that is known or not.
- The JavaScript engine and WinHTTP (`pac/js_engine.go`), the SSPI and WinDivert
  bindings (`sspi_windows.go`): foreign code behind one call, which appears as a
  decision, the outcome of a round, or an external action.
- `PortGuard` and the port scanner: polls of operating-system tables around a set
  of ports already reported.
- Outbound ports (`dialer_windows.go`): a wrapping counter around bind calls, one
  goroutine per dial; a dial succeeds or fails in `ProxyDial`.
- `mock_proxy`, scripts and scratch programs.
