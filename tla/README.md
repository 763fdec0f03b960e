# A TLA+ model of sys-amneziawg

sys-amneziawg is a background module for a game console. It keeps an AmneziaWG
(obfuscated WireGuard) tunnel open and offers it to applications through a
transparent TLS proxy on 127.0.0.1:443. This directory models the parts of it
that hold state, model-checks them on small instances and proves the most
important properties for every value of the constants.

## The system

One thread runs everything.

| Part | Source | What it does |
| --- | --- | --- |
| Main loop | `main_switch.c` | One pass: ask the power log, rebuild a lost tunnel, send a handshake or keepalive, bring the stack up, wait, drain the socket, tick lwIP, print a status line |
| Session | `awg_session.c` | Handshake with retries, key rotation, previous keypair, counters, anti-replay windows, keepalives |
| Noise and framing | `awg_noise.c` | The handshake messages, transport encryption, padding, header protection, junk packets |
| Tunnel interface | `awg_netif.c` | lwIP's network interface: packets out through the session, packets in from it |
| Proxy | `awg_proxy.c` | Sixteen slots, each joining an application's socket to a connection through the tunnel; reads the host from the ClientHello, resolves, connects, relays |
| lwIP | `lwip/`, `lwip_port/` | Vendored TCP/IP stack, raw API, no thread of its own |
| Power | `awg_power.c` | Reads the console's play-event log for sleeps |
| Configuration | `awg_config.c`, `awg_obf.c` | Parser, timer ranges, obfuscation chains, base64 |
| Crypto, randomness | `crypto/`, `awg_rand.c` | Primitives |
| Scaffolding | `awg_ipprobe.c`, `main_host.c` | A hand-built DNS probe no longer called; tests run on a PC |

The loop calls the session with the current time. The session never calls
anybody. lwIP calls `tunnel_output()` (session, socket) and the proxy's callbacks
from `awg_netif_input()` and `awg_netif_poll()`. The proxy's pass,
`awg_proxy_poll()`, is also where the loop sleeps. A rebuild replaces the socket
and the session under a running lwIP and restarts the proxy.

## Modules

| Module | Models | Kind |
| --- | --- | --- |
| `ReplayWindow` | `replay_ok()` | operators, with the ideal window they are compared with |
| `AwgChannel` | what a session promises | abstract specification |
| `AwgSession` | `awg_session.c`, `tunnel_output()`, what of `awg_noise.c` and the loop touches a session | specification, implements `AwgChannel` |
| `AwgTunnel` | the main loop around the session | extends and implements `AwgSession` |
| `AwgNoise` | `awg_noise.c`: both ends of the handshake, packets and their headers | specification, symbolic |
| `AwgPower` | `awg_power.c` over the play-event log | specification |
| `AwgProxy` | `awg_proxy.c` over lwIP's pcbs and resolver | specification |
| `AwgHello` | `find_sni()`, `host_normalise()`, `host_denied()` of `awg_proxy.c` | operators and their reference definitions |
| `AwgHttpProbe` | the self-test fetch of `main_switch.c` over lwIP's raw API | specification |
| `AwgConfig` | `awg_config.c`: the loader and who owns its templates | specification |
| `AwgObf` | base64, template lengths and rendering (`awg_obf.c`), `parse_ipv4()` | operators and their reference definitions |
| `LwipTcpPcb` | `tcp.c`, `tcp_in.c`, `tcp_out.c`: what each function does to a control block | operators |
| `LwipTcp` | a connection between the proxy and a peer over a bad network | specification over `LwipTcpPcb` |
| `LwipDns` | `dns.c` | specification |
| `LwipTimeouts` | `timeouts.c` | specification |
| `LwipReass` | `ip4_reass()` and its timer | specification |
| `LwipHeap` | `mem.c` | specification |
| `PacketStore` | what the packet buffers are for | abstract specification |
| `LwipPbuf` | `pbuf.c` along the path of a packet, and the code that calls it | specification, implements `PacketStore` |
| `AwgTunnel_proofs` (of the window, `AwgSession` and `AwgTunnel`), `AwgParts_proofs` (of `AwgPower`, `AwgHttpProbe` and `AwgConfig`), `AwgNoise_proofs`, `AwgProxy_proofs`, `LwipDns_proofs`, `LwipTimeouts_proofs`, `LwipReass_proofs`, `LwipHeap_proofs` | theorems | proofs |
| `MCAwgSession`, `MCAwgTunnel`, `MCAwgProxy`, `MCLwipTcp` | instances | for TLC |
| `MCAwgParts`, `MCLwipParts` | instances of several specifications side by side | for TLC |

A definition such as `BuildData_NoAdvance` or `SplitUncounted`, just before the
one it is named after, is that definition with a plausible mistake in it. It is
used nowhere; putting it in the place of the original makes the property named
in `PROJECT.json` fail, which shows the property depends on that code.

`MCAwgParts` and `MCLwipParts` put specifications side by side that share no
state. The initial state chooses the part in `focus`, every step is one of that
part, and the others rest, so that a behaviour is a behaviour of one part and
the states add up instead of multiplying. Fairness is that of the part in focus.

### ReplayWindow

The 64-bit bitmap is the set of positions whose bit is set. `ReplayOk` is the
verdict, `ReplayMark` the update. `IdealOk` is the window one would want: it
remembers every counter. `Represents(w, seen)` says that `w` is a faithful
picture of the set `seen` of accepted counters.

### AwgSession

The variables are the fields of `awg_session`, the clock and whether the loop has
a socket. One action per call: `BuildInitiation`, `TunnelOutput`,
`BuildKeepalive`, `OnDatagram` (with `OnResponse` and `OnTransport`),
`PowerTransition` (`awg_session_wipe()`), `Rebuild` (`awg_session_init()`),
`RebuildFails`. A keypair is known by the number of the initiation it comes from.
Local indices are drawn from a small set, so that two attempts can have the same
one. The network may deliver any datagram the peer could have sent, any number
of times, in any order, and others. An answer with the right index is mixed into
the pending chain before its tag is checked (`awg_consume_response()`), so a
wrong one spoils the pending handshake: `awaiting`.

History variables record the nonces used, the counters accepted, when
keypairs were retired and when a packet was last sealed. `last_tx_ms` is what the
code keeps of the latter: the whole clock when a keepalive went out, the clock
modulo `ClockWrap` when a packet of lwIP's did. Guards use `begun`, `tx_counter`, `now` and `sent` only.

### AwgNoise

Both ends of the handshake, in symbols: a public key is named by its private key,
a shared secret is the set of two names, a hash and a chaining key are the
sequences of what was mixed into them, and a box opens under the key, nonce and
associated data it was sealed with. The order of mixing, on which everything
depends, is the code's, and each end has its own operators. The session sends
initiations, the responder answers any of them, twice too, and answers arrive
late. `AwgSession` takes from here which answer is accepted and what a refused one
does to the chain, and leaves out what the messages hold.

A packet has one bit for its header being masked, since masking twice restores
it. `OpenWithEither` tries the current and then the previous keypair on the same
bytes, as `awg_session_on_datagram()` does.

### AwgTunnel

`pc` is the step of the pass. Every step that touches the session is an action of
`AwgSession`. `fd` and `g_fd` number the sockets, so a stale descriptor can be
told from a new one. Time passes and faults happen during the wait. `dead` and
`link` decide what `sendto()` and `poll()` may answer; an answer that says
nothing (any other error) is always possible, and `poll()` may say nothing of a
dead socket, so that it is found by a `sendto()` of a later pass.

### AwgPower

A call makes two requests, the range of the log and the entries, and `pc` is
between them. Either may fail. `Write` is the system: it may append, and drop the
oldest entry, at any time. Of a batch the system hands out what it still has.
`reports` keeps the transitions behind each answer of true, `pushed` what a look
could not reach.

`AwgTunnel` keeps one flag, `transition`, in place of the log: an answer of true
consumes it and an answer of false is always possible. `NeverTwice` and
`NothingOld` are what makes this a fair picture: behind every answer of true is a
transition that no earlier answer used, written while the module watched. The
comment "True once for each power transition" (`awg_power.h:37`) promises more:
several transitions in one batch give one answer.

### AwgProxy

`conn` is `g_conn`, `pcbs` is lwIP's pool, `dns` counts the lookups whose
callback will carry a slot. Handlers are written as functions from a `World` to
the set of worlds they may leave, because one handler calls others (a hello may
run through lookup, `tcp_new()` and `conn_close()` in one call). `phase` and
`cursor` walk the three loops of `awg_proxy_poll()` over the table. lwIP's
callbacks run between passes.

lwIP is modelled from its source: `tcp_alloc()` takes a TIME_WAIT pcb when the
pool is empty and tells nobody, then a LAST_ACK pcb and calls `on_err()`; the
timer frees TIME_WAIT silently; a connection whose sending side was shut down
ends with `on_err(ERR_CLSD)`. A FIN that cannot be queued for want of memory is
retried by lwIP and counts as sent. `undefined` becomes true when a freed pcb is
used; nothing is said about what follows.

Of a hello `AwgProxy` knows that it yields a name or nothing yet. `AwgHello` has the
walk over its bytes. `NameIsWhole` builds hellos from their fields, cuts them at
every length and says what must be found: the name as soon as its extension has
arrived, and nothing before. `HostsAgree` compares the suffix test on characters
with one on labels. The name is copied out of the hello with its length and then
taken as a C string, so a NUL ends it (`CString`).

### AwgHttpProbe

`pass` is where the pass of the loop is: it drops the fetch if the tunnel is
rebuilt, starts one that is due, reports one that has ended, and then
lwIP may call back any number of times. `conn` is lwIP's side of the connection:
its state, and which callbacks are set. `orphans` counts pcbs that nobody points
to any more. `HttpStart` may fail at `tcp_new()` and at `tcp_connect()`, which
leaves a pcb that is closed and still pointed to.

### AwgConfig and AwgObf

A line of the file is what the loader makes of it: `Heading`, `Key`, `Address`,
`Dns`, `Template`, `Endpoint`, or `OtherLine`, which is only counted. `i` holds
the five pointers to templates, `chains` what is allocated, `leaked` what a
second line for the same template has pushed out. `AwgObf` has no steps: each
initial state is an input, and the invariants compare the code's loops, folded
over the characters or bytes, with what the conversion is for.

### LwipTcpPcb and LwipTcp

`LwipTcpPcb` has one operator per function of lwIP's TCP, from a control block to
the control block it leaves. A block has, besides the fields the code has, `out`
and `ev`: the packets sent and the callbacks made in the step. A segment has its
bytes and the lengths of its pbufs, because `snd_queuelen` counts those. The
argument `f` of an operator is the call that fails in the step: `"mem"` for any
allocation, `"link"` for the interface. Time is abstract: whether a timer is due
is a choice of `SlowTimer`, but counters of retries are kept.

`LwipTcp` adds the application (the calls `awg_proxy.c` makes), a peer that keeps
to the protocol, and the network. What lwIP sent may arrive late, any number of
times or never (`toPeer`). What the peer sent is not kept: any segment that it
could have sent by now may arrive, cut in any way.

### LwipDns

`dns_table`, `dns_requests` and `dns_pcbs` as in the code. `asked` holds the
queries that went out; any of them may be answered at any time, again, and after
its entry has changed hands. An address is the name it belongs to. As in
`AwgProxy`, the operations are functions on the whole memory (`Memory`), because
one calls others; `Checked` is the loop of `dns_check_entries()` over the table.

### LwipTimeouts

One iteration of the loop of `sys_check_timeouts()` is one step, because handlers
take time. `clock` wraps. Every timeout carries `left`, the time that truly
remains, which the code does not have; the properties compare the two.

### LwipReass

A fragment is an interval of its datagram, one pbuf to a byte. Fragments arrive
in any order and as often as they like, cut in any way. The loops that make room
and that count the seconds are recursive functions over the rounds and over the
list; `Clen` and `Total` sum over sequences. `returned` and `arrived` are history:
the datagram that this step gave to `ip4_input()`, and whose fragment came.

### LwipHeap

`heap` maps the offsets of the blocks that are in the list, the end of the heap
included, to their `next`, `prev` and `used`. `owned` and `refused` are history: who
asked for what, and the size that was refused in this step. `mem_trim()` is called
by `pbuf_realloc()`.

### LwipPbuf

`pbufs` is the memory: a pool and a heap of buffers with `next`, `len`,
`tot_len`, `ref` and an offset for `payload`. `held` names the pointers: the
packet in `tcp_input()`, one out-of-order segment, the proxy's queue, two output
segments. `PacketStore` keeps packets as sequences of bytes; `KeepsPackets` is
the refinement, with `Flat` reading the bytes out of the chains.

## Runs

| Run | Shows | Bounds |
| --- | --- | --- |
| `session`, load of counters | `NoReplay`, `NoFalseReplay`, `ChannelSpec` | window 3, counters 0..4 (beyond the window on both sides), two handshakes |
| `session`, load of keys | `NonceFresh`, `RetiredKeysDie`, `KeepaliveNeverLate`, `ChannelSpec` | three handshakes, two indices (so two may collide), two seals, time 3 with retirement after 1; the stored stamp wraps at 2 |
| `proxy_safe` | `SlotsConsistent` (types; a connecting slot and its pcb agree), `DeniedNeverLeaves`, `NoEndUncounted` | two slots, two pcbs, one lookup at a time, one denied host, both spellings |
| `proxy_live` | `NoPcbLeftBehind`, `SlotsComeBack` (sniffing ends; a slot whose client is lost is free again) | two slots over one pcb, which is reused and runs out; clock of 3 values, so every timeout crosses its wrap |
| `tunnel_loop` | `NeverStranded`, `StaleOnlyUntilRebuilt` (lwIP writes to the loop's socket, but for the time between a failed rebuild and the next), `NoSessionSurvivesSleep`, `RebuildsSpaced`, `Patience`, `SessionSpec` | time 4, two faults, spacing 2, limit 1, any number of failing `socket()` calls, one packet per keypair from lwIP; no data arrives, which decides nothing in the loop |
| `lwip_tcp` | `PcbConsistent` (queues and counts add up, nothing unacknowledged is forgotten, the window is where its parts say, the persist timer runs alone), `StreamsInOrder`, `NeverStuck`, `ToldOnce`, `EdgeNeverRetreats`, `NothingHangs` (connecting is decided, flights end, a FIN that found no memory is sent) | segments of two bytes, a window of three, streams of up to three bytes, sequence numbers that wrap in the first bytes; six loads: an upload into windows that close and are too small for a segment, one into windows that close and hold one, a download that fills the window out of order, one that ends with a FIN, both directions with both FINs, and one call that fails. `NothingHangs` is about the last load, whose timers are watched |
| `lwip_parts`, DNS | `DnsConsistent` (a request waits at one entry that asks, a port in use is open, queries differ), `RightAddress`, `EveryQuestionAnswered` | table of two, one port (so two queries share it), two ids, three names and questions, one server or two |
| `lwip_parts`, timers | `TimersConsistent` (due in order, each in the list once, none run twice to make up for a pause), `TimersOnTime` (not early, not late, again and again) | clock of 32 that starts at its end, pauses longer than every period, handlers that take time |
| `lwip_parts`, reassembly | `ReassConsistent` (the count of buffers, no datagram that is whole waits, what is returned is whole), `KeptUntilDue` | three datagrams for two places and four pbufs, so both limits are met |
| `lwip_parts`, heap | `HeapWellFormed` (the list, no two holes side by side, `lfree`, owners have their room, all comes back), `RefusesOnlyWhenFull` | 120 bytes, headers of 8, requests below the minimum, unaligned, and of almost everything |
| `awg_parts`, power | `EachReportedOnce` (a query fits, nothing twice, nothing old, no silent loss), part of `PartsGetOn` | batch 2, log of 3, seven entries: bursts exceed the batch and the log drops entries |
| `awg_parts`, probe | `ProbeConsistent` (busy is connected, one pcb and none when idle, no report twice) | three fetches, a rebuild in any state of one |
| `awg_parts`, configuration | `OnlyRepeatsLeak` (a template leaks exactly when a second line displaces it; every other is freed once) | five lines, two slots, two servers, three addresses |
| `awg_parts`, conversions | `ConversionsAgree` (keys, templates, addresses, hellos, names) | keys of up to four bytes, templates of up to three tags, addresses of two, four and five fields; hellos of up to two extensions, one longer than 255 bytes and one that looks like a name, cut at every byte; all names of up to five characters from seven, NUL among them |
| `awg_parts`, handshake | `EndsAgree` (keys, damaged messages, packets) | three initiations and two answers, two indices (so attempts collide), an equal and a different preshared key, headers protected or not |
| `awg_parts`, buffers | `BuffersConsistent` (lengths and references of chains), `KeepsPackets`, part of `PartsGetOn` | pool of three buffers of two bytes, two heap buffers, packets of three and five bytes |

A property that bundles several is a conjunction; its conjuncts are named and
explained in the module.

Five more runs state what a comment or document says and find it violated by
what the code does (`findings` in `PROJECT.json` quotes the lines):

| Run | Property | What happens |
| --- | --- | --- |
| `tcp_fin` | `FinIsLast` | a last segment split to fit the window keeps its FIN; the peer sees the end of a stream it has only a part of |
| `proxy_host` | `RightHost` | a late DNS answer connects a reused slot to the earlier host |
| `proxy_dangling` | `PcbIsTheConnection` | a pcb in TIME_WAIT is freed under a slot that still has data to deliver |
| `proxy_balance` | `BooksBalance` | a lookup or connect that fails is counted as failed and again as closed |
| `proxy_drained` | `DrainedBeforeEnd` | the last acknowledgement drops data the application has not read |

Other disagreements, met on the way and kept here without a run:

- `tunnel_output()` stamps a 32-bit time (`awg_netif.c:58`): after 49.7 days of
  uptime every stamp is old and each pass sends a keepalive, although
  `awg_session.h:122` says one is due "once the session has been idle for a
  keepalive period". `KeepaliveNeverLate` is the direction that survives the wrap.
- After a rebuild whose `socket()` fails lwIP goes on writing to the closed
  descriptor (`main_switch.c:544-549`), although "lwIP must not write to a closed
  one" (`main_switch.c:510`, of the other place that closes it).
  `StaleOnlyUntilRebuilt` says exactly when this is so.
- "Report a finished fetch exactly once" (`main_switch.c:668`): never twice
  (`NeverReportedTwice`), but a fetch that ends when the next is due is replaced
  unreported, a rebuild drops one, and a reset after the end of an answer turns a
  fetch that was done into one that failed.
- A server that takes the request and says nothing keeps the probe busy until the
  tunnel is rebuilt: no timer ends the fetch. No liveness is claimed for it.
- The characters are those that hostnames are made of, "and anything else is refused
  rather than sanitised" (`awg_proxy.c:385-387`), but a name with a NUL in it is cut
  there and visited (`awg_proxy.c:189`, `391`). `HostsAgree` is about what is left.
- An application that goes on writing and never reads is not swept out, since every
  write renews `last_ms` (`awg_proxy.c:461`), and keeps the pbufs of its queue.
  `OutOfOrderYields` is about the rest of the pool.
- The persist timer can run with nothing to send, against the assertion at
  `lwip/core/tcp.c:1241` and the comment at `lwip/core/tcp_out.c:2211`; assertions do nothing in this port, and
  `tcp_zero_window_probe()` returns.
- `mem_trim()` of the last block leaves a hole at the end of the heap, against the
  assertion at `lwip/core/mem.c:777`; the code behind it copes (`ListIntact`).
- A second `I1` line displaces the first one's template without freeing it
  (`awg_config.c:179`); a template without tags is refused without a reason, and
  so accepted as none.
- `S2` and `S4` come from the configuration unchecked, so data can be as long as
  an answer (S2 = 16, S4 = 12, 64 bytes) although `awg_session.c:164` says the
  totals do not collide; it is then unmasked as one and lost.
- The nanoseconds of an initiation's time stamp are drawn at random, although
  `awg_noise.c:115` says that they need to be monotonic within a second.
- `reject_after_s` is drawn and read nowhere, although `awg_session.h:10` says
  that keys expire.

The bounds are named constants: `MaxTime`, `MaxInitiations`, `MaxSeals`,
`MaxCounter`, `MaxAccepted`, `MaxOutput`, `MaxFaults`, `MaxEntries`, `MaxFetches`,
`MaxLines`, `MaxSpoils`, `MaxQuestions`, `MaxPause`, `MaxLag`, the ephemeral keys
`InitKeys` and `AnswerKeys`, and the sizes of streams and numbers of failures in
`Loads`. `MaxInitiations = 20` in the tunnel run is out of
reach within `MaxTime`. `CHECK_DEADLOCK FALSE` stands where a bounded behaviour
ends: the input is used up.

### Fairness

The main loop never blocks for more than 100 ms, so
`PollAny`, `Events`, `Sweep` and `Pump` are weakly fair. Strong fairness of
`Poll(1, ..)` says that the clock goes on while the loop turns: the loop may be
restarted by `Stop` and `Start` again and again, but the passes cannot all take
no time. No fairness is assumed of applications, remote hosts or the resolver.
Both liveness properties of `proxy_live` end in `\/ undefined`, for behaviours that use a freed pcb.

The reader of the log: the call is weakly fair, since the loop makes it every
second; strong fairness of `Query` assumes of the system that it does not refuse
every request.

The other specifications state fairness as `[]<>` of a variable that shows which
step was taken, because TLC evaluates `WF` of large actions slowly. `LwipTcp` has
`ran`: the slow and the fast timer run again and again while there is a
connection, and a timer that runs comes to be due. `LwipDns` and `LwipReass` flip
a `parity` with every second; their timers are always enabled, so this is their
weak fairness. `LwipTimeouts` asks that the clock goes round. `LwipPbuf` asks
that `sys_check_timeouts()` runs with every pass, and nothing of the
application. No fairness is assumed of the peer,
the servers or the network.

## Theorems

All proofs are for arbitrary constants. Assumptions: the window is at least one
wide, the constants are natural numbers, the configuration is a record of
integer ranges and natural paddings (`WindowAssumption`, `CfgAssumption`,
`IndexAssumption`, `ClockAssumption`, `BoundAssumption`, `TunnelAssumption`,
`PowerAssumption`, `ProbeAssumption`), that the address 0 is not one the allocator
returns (`ConfigAssumption`), that a header and the smallest block have a size
and fit into the heap together (`HeapAssumption`), that the proxy's table and
buffers are not empty and the hosts finitely many (`ProxyAssumption`), that
the resolver has a table, a retry and a list of servers, and no name is the empty
one (`DnsAssumption`), and that no key is the one that stands for damage
(`NoiseAssumption`), that there is room for a datagram in the reassembly, and 0 is
not the id of one (`ReassAssumption`). `TimeoutsAssumption` says of the timers that the pool has an
entry for each, that a period is at most a quarter of the clock, which
`sys_timeout()` asserts, and that a period, the longest pause and two runs of every
handler are together less than half of the clock. With 2^32 milliseconds that is a
pause of 24 days; a longer one would make what is overdue look like the future.

- **Window.** `OkIffIdeal` and `MarkRepresents`: a faithful bitmap gives the
  verdict of the ideal window, and marking keeps it faithful.
- **Session.** `IInv` is inductive (`Invariance`). `NonceFresh` alone is not: it
  says nothing about the keypair about to take over. `KeysInv` adds that a
  handshake still awaiting its answer has never been current; `NonceInv` that
  nonces belong to keypairs that have been current, those of the current one
  being below `tx_counter`; `WindowInv` that each window represents what was
  accepted under its keypair; `RetireInv` that the previous keypair was retired
  at `prev_since_ms`. `TypeCorrect`, `NoncesAreFresh`, `NoReplays`,
  `NoFalseReplays`, `RetiredKeysStayDead` follow, and with them
  `ImplementsChannel`: the session implements `AwgChannel`. `IdleIsKeptAlive`
  needs that the stored stamp is never later than the last packet
  (`StampNotLater`), which a remainder never is, whatever the clock's width.
- **Loop.** `LoopRunsSession`: every behaviour of the loop is one of the session,
  so the session's theorems hold in it. `TunnelInv` is inductive relative to
  `IInv`: it adds how `next_rebuild` and the last attempt, and the wait for a
  network and its last restart, go together, and that what slept had been
  current. A keypair that becomes current later is fresh by `KeysInv`, hence not
  one that slept. `LoopNeverStranded`, `StackFollowsRebuilds`,
  `SleepEndsSessions`, `RebuildsNeverSpin` and `LoopIsPatient` follow.
- **Power.** `PowerInv` is inductive (`PowerInvariance`). `NoSilentLoss` needs to
  know what a query in progress has skipped: `CallInv` says that all of it is
  beyond the batch or out of the log, which stays so while the log grows.
  `NeverTwice` needs that reports are about entries up to `g_last_end` and a query
  starts after it (`ReportsInv`). `ReportsAreRight` concludes `EachReportedOnce`.
- **Heap.** `HeapInv` is inductive (`HeapSafe`). `ListIntact` says of the blocks,
  without recursion, that the next block of each is a block, that no block lies
  between the two, and that the way back leads to it. The module begins with
  the lemmas on such lists: what splitting a block and merging two keep.
  `LowestFree` needs that holes never meet, since merging moves `lfree`;
  `RefusesOnlyWhenFull` (`HeapRefuses`) needs `LowestFree`, since the search starts
  there; that all comes back follows from the list and `NoTwoHoles`
  (`HeapStaysWellFormed`).
- **Probe.** `ProbeInv` is inductive (`ProbeSafe`, `ProbeStaysConsistent`): that a
  busy probe is connected needs that every connection has its error callback, and
  that none is counted twice needs that an idle probe has no connection whose
  callbacks could make it busy again, also after a rebuild.
- **Configuration.** `OnlyRepeatsLeak` is inductive (`ConfigSafe`): that nothing but
  what was displaced is left after a refused file needs every other chain to be
  owned, and ownership needs that no slot points to what was freed.

- **Proxy.** `ProxyInv` is inductive (`ProxyInvariant`). It speaks of worlds: each
  handler takes a world in which slots and pcbs are linked, no denied host is
  looked up or connected to, and the counters are in order, to worlds of the same
  kind, whichever of its outcomes happens, so that handlers that call others need
  no argument of their own. None of the properties is inductive alone. That a pcb
  belongs to the slot its argument names (`Linked`) is what lets a callback find a
  live slot; a slot may be closed and counted only once because of it; and that
  the counters are in order again after a restart needs that nothing is live while the
  proxy is down. `SlotsAlwaysConsistent`, `NeverLeftBehind`, `DeniedStaysIn` and
  `NoEndGoesUncounted` follow, for any number of slots, pcbs, hosts and connections,
  and for a clock that wraps anywhere.
- **Resolver.** `DnsInv` is inductive (`DnsInvariant`). An operation changes a
  memory in one of five ways: an entry goes on asking, one that asks is settled,
  one that does not ask changes, one begins to ask, and a question is added that
  is answered at once or waits; a lemma for each says that the memory stays good.
  `WaitsOnce` needs that requests have different questions and that a
  request's entry asks for the name of its question; `RightAddress` needs the
  latter, since the answer goes to whoever waits at the entry, and that what the
  table remembers is the address of its name. `PortsInUse` needs that an entry
  that asks has a port. That the timer's loop keeps the memory good, for every
  length of the table, is shown by the first entry at which it would not.
  `AlwaysConsistent` and `AlwaysRightAddress` follow.
- **Timers.** `TimeoutsInv` is inductive (`TimeoutsInvariant`). The module begins with
  arithmetic: `TIME_LESS_THAN` compares two wrapped times as the true ones compare,
  provided these are less than half the clock apart. So every step must bound how
  far apart timeouts can be: none is due later than its period, and none is overdue
  by more than a pause and two checks. The last conjunct is the one that needs
  thought. A check is bounded by one run of every handler because the time since
  it began is at most `MaxLag` for each timer that is not due any more in this
  check, and a timer that has run is never due again in it: `lwip_cyclic_timer()`
  moves it a period on from now when the period after the old time is over. That
  `sys_timeout_abs()` inserts in order is shown for lists of any length.
  `TimersStayConsistent` and `TimersRunOnTime` follow.
- **Reassembly.** `ReassInv` is inductive (`ReassInvariant`). `ReassConsistent`
  alone is not. That what is returned is whole needs that every queue is sorted and
  free of overlaps, that `lastfrag` is set exactly if the queue has the last
  fragment, and that `len` is then the length of the datagram; that none is
  overlooked needs that a queue with its last fragment has a gap. The
  count needs lemmas on sums: what inserting, removing and replacing an element of
  a sequence do to its sum, used once for the fragments of a datagram and once for
  the list. In the middle of `ip4_reass()` the list holds an entry that has no
  fragment yet, and in the middle of `ip_reass_tmr()` the count is ahead of
  the list by what the timer has not come to; both are stated as conditions of
  their own (`Ready`, `Ticked`). The two loops are followed round by round, to the
  first round that would break the condition. `ReassStaysConsistent` follows, and
  `ReassKeepsOwn`, which is the safety part of `KeptUntilDue`: making room passes
  over the datagram that the fragment belongs to, in every round.
- **Handshake.** `NoiseInv` is inductive (`NoiseInvariant`). The messages and the
  handshakes at both ends are brought into closed form first (`InitMsg`, `RespMsg`,
  `InitHs`, `RespHs`), by following the operators through; what mixing keeps apart
  can be taken off a chain again from its end (`Unmixed`). `NoiseInv` says that every
  initiation and every answer has this form with an ephemeral key of its own, that
  the chain of the attempt is four links long and four more for every response that
  spoiled it, and that a keypair mirrors the handshake of an answer. From the length
  follows that a spoiled chain never equals the responder's, so that the response
  to this initiation is accepted exactly if none has spoiled it; from the keys of
  their own, that a packet opens under one keypair only. `EndsAlwaysAgree` concludes
  `EndsAgree`. It holds in the symbolic model, where different things never hash to
  the same.

Only model-checked:

- All liveness properties: liveness under fairness is beyond the prover.
- `LwipTcp` and `LwipPbuf`, with the refinement `KeepsPackets`: they use recursive
  operators, about which the prover cannot reason.
- `AwgObf`, `AwgHello` and `ConversionsAgree`: what a loop over the characters
  computes for every input is an induction over data.

## Not modelled

- Cryptographic primitives: bit-level arithmetic. Encryption is symbolic. The
  padding and masking of handshake messages (`awg_wrap()`, `awg_unwrap()`), junk
  packets and the value of time stamps are left out.
- Counters that are only printed, the log and heartbeat files, `main_host.c`, the
  unused `awg_ipprobe.c`.
- `g_stop`, which nothing sets, and the shutdown after the loop.
- Failures of `awg_create_initiation()` and `awg_wrap()`, which depend on the
  configuration alone.
- Most of the vendored lwIP tree is not part of the program: the Makefile compiles
  21 files of it, and PPP, IPv6, 6LoWPAN, the sequential and socket interfaces,
  the applications and the drivers are not among them. They are three quarters of
  the lines under `src/`, and nothing that runs could contradict a model of them.
- Of the files that are compiled, what `lwipopts.h` turns off (SACK, timestamps,
  window scaling, listening backlogs, keepalives, ARP, DHCP, IGMP, multicast DNS)
  and what nothing calls (`raw.c`, `sys_untimeout()`, fragmenting in
  `ip4_frag.c`); `ip4.c`, `udp.c` and `netif.c`, which check and fill header
  fields for the one interface there is; and `inet_chksum.c`.

## Plan

1. Recovery as liveness: with a network and a peer that answers, the loop gets a
   session again (`AwgTunnel` without the clock).
2. `awg_wrap()` and `awg_unwrap()` in `AwgNoise`, with the lengths by which the
   session tells datagrams apart.
