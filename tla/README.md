# TeaVPN2 in TLA+

A verification project for TeaVPN2, a VPN that carries IP packets between a TUN
interface and UDP datagrams. It holds TLA+ modules translated from the C source,
TLC configurations that check them on small instances, and proofs TLAPS checks
for every size of the constants. Paths below are relative to `src/src/teavpn2/`.

## The system

| Component | State | Operations | Interacts with |
|---|---|---|---|
| Session pool (`stack.h`, `server/linux/udp_session.c`) | stack of free indices, 2^16 buckets keyed by the low 16 bits of the source address, session array, `n_on_sess` | create, lookup, delete | called by the main thread (all three) and by the reaper (delete), under `sess_stk_lock` and `sess_map_lock` |
| Server main thread (`server/linux/udp_epoll.c`) | per-session fields, `ipv4_map`, `stop`, `in_emergency` | one handler per packet type, handshake, authentication, close | pool, route map, TUN device, clients |
| TUN workers (same file) | none of their own | route or broadcast a packet from the interface | read the route map and the sessions without a lock |
| Zombie reaper (same file) | position of the scan | ask idle sessions for a SYNC, close the expired ones | pool, route map; held off by `in_emergency` |
| Server set-up and tear-down (`server/linux/udp.c`, start and end of `udp_epoll.c`) | descriptors, thread flags, `sig`, `threads_wont_exit` | init in order, run, wait for threads, destroy | everything above |
| Client (`client/linux/udp.c`, `udp_epoll.c`) | handshake and auth progress, keep-alive timer, threads | handshake, auth, bring the interface up, forward packets, REQSYNC timer | server, interface |
| Interface (`net/linux/iface.c`) | addresses and routes of the host | up, down | shell commands |
| Authentication (`auth.c`) | user files | accept with an interface configuration, or reject | server |
| Command line and configuration (`server/entry.c`, `client/entry.c`, `main.c`) | the configuration structure | defaults, options, lines of a file, final checks | starts the server or the client |
| Front end (`gui/`) | the button, `client_event_type` under `event_mutex`, idle callbacks | click, post an event, show it | starts and stops client runs in its own process |
| Allocation, printing, old client, vendored code | - | - | - |

What is hard here:

* three kinds of thread share session slots; locks cover single operations on the
  pool, never a test and the use that follows it;
* slots are reused, so that a pointer held over an unlock may denote another session;
* a send may wait for half a minute in the middle of a handler, and its failure
  ends the thread after part of the handler was done;
* UDP loses and duplicates what the handshake and authentication rely on;
* stop requests must reach threads that sleep or block before memory is freed;
* the host's routes are changed by a sequence of commands of which any may fail, and are
  undone by another sequence, perhaps on another network;
* runs of the client in one process share static variables, signals and one button.

`PROJECT.json` lists these hazards at their lines, with the properties that
would catch them going wrong.

## Modules

| Module | Models |
|---|---|
| `SessionPool` | the promise of the session functions: a table whose entries are free or owned by one client each |
| `SessionOps` | stack, buckets, slots and counter, and the functions of `stack.h` and `udp_session.c` as operators on a pool; the predicates of the pool invariant |
| `UdpSession` | the pool as a state machine: one action per outcome of a call. Deletion is two steps, because `n_on_sess` is decremented after the unlock |
| `UdpServer` | the server with atomic handlers: one action per packet handled, packet routed or slot examined, with every call it makes |
| `SessionRace` | the same threads at the grain of their accesses to a slot: lookup, test, write, unroute, delete and decrement are separate steps |
| `ServerLifecycle` | the life of the server process: initialisation step by step with its failures, descriptors, signals, thread start-up, the waits of the tear-down and the freeing of the state |
| `UdpClient` | the client: initialisation, handshake and authentication with retries, threads, packet handlers, keep-alive timer, tear-down, and the front end that stops it or connects again. The server is an arbitrary environment |
| `Vpn` | the server of `UdpServer`, which it extends, and an instance of `UdpClient`, with two queues of datagrams between them and a network that loses, duplicates and reorders |
| `Iface` | the interface: `tun_alloc()`, the commands of `teavpn_iface_toggle()` up and down with their failures, prefix length and broadcast address |
| `Config` | defaults, options, configuration file and checks of server, client and front end; `teavpn2_auth()` and the user file |
| `Gui` | the button, the events and their callbacks, and of the client what the front end can see: the threads that post, `g_state`, `release_sub_thread`, the signals of the tear-down |
| `SessionOpsProofs` | lemmas on the operators of the pool, for the next three |
| `UdpSessionProofs`, `UdpServerProofs`, `SessionRaceProofs` | theorems on the pool, on the server, alone and with a client (`Vpn`), and on its races |
| `ServerLifecycleProofs` | theorems on the life of the server process and, in its second half, on the configuration it starts from (`Config`) |
| `UdpClientProofs`, `IfaceProofs`, `GuiProofs` | theorems on the module each is named after |
| `MC*` | instances for TLC |

`UdpServer` and `SessionRace` both build on the operators of `SessionOps`, so the
lemmas on the operators serve all of them.

### State and code

* A pool is a record: `stk` (`sp` and `arr` of `struct bt_stack`; the free indices are
  `arr[sp .. max_sp-1]`), `map`, `sess`, `n_on_sess` (modulo 2^16). A bucket is the
  embedded head entry `sess` and the list `next` of allocated entries. A source
  address is `<<high half, low half>>`, and `addr_to_bkt` takes the low half. The
  pointer fields of an entry are the indices they point to.
* `info[i]` holds the remaining fields of slot `i` that steer control:
  `is_authenticated`, `ipv4_iff`, `loop_c` and the time since `last_act`.
  `reset_udp_session()` zeroes `last_act`, which is the largest idle time.
* `ipv4_map[k]` is 0 or slot plus one, as in `add_ipv4_route_map()`.
* A write has four results: `ok`; `down` (EAGAIN, then a failed or given up wait: the
  server stops); `err`; `late` (an error after EAGAIN and a successful wait).
  Every send in every handler takes each of them.
* `sent` holds what the last step put on the wire. Names, strings, lengths and
  payloads are left out; a handshake is good or bad, a password right or wrong.
* In `UdpServer` a handler is one step. That is what the code does when threads do
  not meet in a slot; where they do is `SessionRace`. Two critical sections that nothing can
  separate observably are one step there (the lookup that misses and the creation: only the
  main thread inserts).
* `ServerLifecycle` and `UdpClient` keep a program counter per thread. A thread that was
  created is `spawned` until it sets `is_online`; `n_on_threads` is incremented a step
  later, as in the code. `open` is what the kernel has open, `field` what the state
  structure records, so that a descriptor that was opened and forgotten shows.
  `signal_intr_handler()` keeps its test of `sig`, and `stop = false` at the start of
  the event loop is a step of its own.
* In `UdpClient`, `idle` is `now - last_t`; `loop_c`, which threads increment without a lock,
  takes any value when there are workers; `event` is the last word of this run to the
  front end, which decides what its button does; `released` stands for the static
  `release_sub_thread` and survives a run. The timer sends its bursts of REQSYNC
  by the same thresholds as the code.
* In `Vpn` a step of either process is a step of its own module, restricted so that its
  system calls succeed; failures inside a process are the subject of `UdpClient` and `UdpServer`, and the
  faults here are those of the network. A receive action gets the oldest datagram of its queue: for
  instance `FromSession` pairs each packet type with the action of `UdpServer` that handles it.
* In `Iface` the host is a record: the device, its link, its address with prefix length and broadcast
  address, the host route to the server with its gateway, and which halves of the default
  route lead into the tunnel. Whether `ip(8)` accepts a command is external: it refuses to add what is
  there, to delete what is not, and a gateway it cannot reach; taking a link down drops
  its routes. Octets keep their order in memory, which is what the conversion of the netmask depends on.
* In `Config` an input is a sequence of words, options or lines, with values on both sides of what the casts
  keep; fields no check tells apart are left out. A refused line is skipped and remembered,
  as in `ini_parse_stream()`.
* In `Gui` a post is two steps, since the callback may run before the mutex is released. `lost`,
  `silent` and `settled` are history variables: the last event was dropped, a run began to end without an
  event, a run began when all others were over.
* The definitions marked as slips are single-line errors one could make in that
  place. They are not part of any specification; they serve to see that the
  properties notice.

## Runs

| Run | Checks | Result |
|---|---|---|
| `pool` | lookup exact, counter exact, the inductive invariant (with it the free list exact), refinement of `SessionPool` | holds |
| `server` | `ServerInv` (pool exact, counter exact, free slots clean, address iff authenticated, routes lead to the right live sessions), a packet routed to a session reaches the session with its address unless another user shares the low 16 bits, session life cycle, interface packets only to authenticated clients | holds |
| `server_stop` | a silent session is closed, or there is an emergency; stop, or the end of the main thread, leads to all threads out of their loops and all sessions closed, unless an early signal was erased; a free slot carries over at most one count of a packet | holds |
| `race` | in every interleaving, double deletion included: no list behind an empty head; the counter trails the stack pointer by the closes in flight. Until main thread and reaper meet in a slot: pool exact, free slots clean, routes sound, created session on the map | holds |
| `lifecycle` | threads start together and not waiting for each other for ever; every path to the end closes what was opened; a stop request that the running server sees ends it | holds |
| `client` | connecting ends whatever the server answers; a stop request, or silence of the server, ends the client; the interface comes down, the end is announced to the front end, and nothing follows the final CLOSE | holds |
| `vpn` | without misdeliveries client and server agree about the session and nothing is left of a client that ended; a single misdelivery does not leave them half connected | holds |
| `iface` | the prefix length of netmasks that end on an octet; the default route leads into the tunnel only while the route to the server exists; down undoes up; clean runs can be repeated | holds |
| `config` | the server configures the device it opened, or the option was used alone; a run starts only from input without an error; a user is accepted exactly with the password of the file | holds |
| `gui` | the button comes back; a run begun when all was over is alone; the button stops the run that is on | holds |
| `race_double_close` | the BUG_ON of `delete_udp_session()` | violated |
| `lifecycle_free` | no thread outlives the state it uses | violated |

The violated ones state what a comment or an assertion of the code says; the
`findings` of `PROJECT.json` quote it and explain the counterexample. Run `race` locates the
cause of the double close: `overlapped` records that main thread and reaper have been inside handlers of the same
slot at once, and as long as they have not, nothing fails that these two threads can cause.

Some passing properties have an exception that the code makes necessary. What the code, by a comment or its help text, says
without the exception is a definition beside the property. None of these holds: put in place of the invariants in the
configuration of its run, TLC answers with a counterexample.

| Definition | In place of, in run | The code says | What happens |
|---|---|---|---|
| `RouteFindsDestination` | `TunPacketReachesAddress`, `server` | `server/linux/udp_epoll.c:802`: "return 0 if it finds the destination." | `get_ipv4_route_map()` looks up the low 16 bits: with sessions of 10.0.0.1 and 11.0.0.1 a packet for one is sent to the other, and to nobody else |
| `LookupFindsCreated` | `CreatedIsOnMap`, `race` | `server/linux/udp_epoll.c:553`: "After calling create_udp_sess(), we must have it on the map." | the reaper goes on with a slot it tested before it was freed and taken again, and deletes the new session |
| `NewClientUnauthenticated` | `FreeSlotsClean`, `race` | `server/linux/udp_epoll.c:575`: "If the client has already been authenticated, this will be a no-op." | AUTH is handled while the reaper resets the slot; the free slot is left authenticated, and its next client starts so |
| `BroadcastToAuthenticated` | -, `race` | `server/linux/udp_epoll.c:835`: "Broadcast this to all authenticated clients." | the worker tests `is_authenticated`, the slot is given to a new client, and the worker sends to that |
| `PrefixIsNetmask` | `OctetNetmasksExact`, `iface` | `net/linux/iface.c:401`: "Convert netmask from 32-bit big-endian integer to CIDR number" | the integer is shifted in memory order: 255.255.252.0 becomes /24 |
| `OptionNamesInterface` | `DeviceIsConfigured`, `config` | `server/entry.c:73`, of `-D`: "Set virtual network interface name" | the option names the device that is opened; `ip(8)` configures the default one |

What the models show besides, without a run that claims the contrary:

* `in_emergency` stays set after a TUN write that had to wait, until a datagram is sent to a
  client; the reaper does not scan meanwhile. `ZombieReapedOrEmergency` has to
  allow for it.
* Two sessions with one interface address share a route, and closing either deletes it: the survivor is
  reached by broadcast only. Two users whose addresses share the low 16 bits share a route as well, and packets for
  one go to the other (`RouteFindsDestination`). `TunPacketReachesAddress` is what remains true.
* A signal before `stop = false` (in the client: one that no `poll()` notices) is erased, and
  since `sig` is set the handler ignores the later ones. `StopEndsServer` and
  `StopEndsClient` therefore speak of requests the running loop can see. When the main thread of the server then
  dies of an error, the SIGTERM it sends sets nothing either: the reaper runs on, the wait gives up
  and the sessions are not closed, which is the exception in `StopClosesEverything`.
* The packet that closes a session may be counted after the close and leave `loop_c` at 1: the SYNC of the next
  session of the slot is one packet early. `FreeSlotsClean` allows for it.
* `release_sub_thread` of the client is static and never reset: from the second run in a process on,
  the workers do not wait for the main thread.
* `close_tun_fds()` of the client does not close; a process that connects again keeps the queues.
* The handshake is tried 5 times, the authentication 6 times.
* When there is no memory for the state of the client, or its event loop cannot be set up, nothing is announced
  to the front end: the two exceptions in `EndIsAnnounced`.
* Two misdeliveries can leave a client in its loop with a session that is not authenticated, and each side's keep-alive
  keeps the other one from noticing. Packets of the local interface count as signs of
  life for the client as well.
* The prefix length of a netmask is rounded up to whole octets: 255.255.252.0 becomes /24 (`PrefixIsNetmask`).
* A failed `teavpn_iface_up()` is not undone. `teavpn_iface_down()` with a tunnel gateway always returns
  false, because the link went down with its routes before they are deleted; the result is ignored.
  A change of the default gateway leaves the host route to the server behind, and the next
  `teavpn_iface_up()` through another gateway fails: `DownUndoesUp` and `CleanRunsRepeat` except it.
* A default configuration file that is missing is passed over; one that cannot be read ends the program.
* The server's option `-D` sets one of two copies of the device name (`OptionNamesInterface`), `-m` one of two copies of
  the MTU; unknown options are ignored. `--encrypt` reads a null `optarg`. 256 threads are 0 threads, and
  the front end has no default for their number. An empty password is accepted for a user file
  without a password.
* The button of the front end comes back with the first thread that announces the end. A run started then
  shares `g_state` with the old one, whose tear-down signals stop it; a second callback of the old run
  gives the button back while the new one is connecting. A click on Disconnect before the callback of
  the last event ran writes to a state that is freed.
* A callback left by a connect or disconnect event may find an error as the latest event and read
  its null data as the error code (`crashed`; an optimising build drops the read).

### Bounds

* `pool`: three slots, two buckets of which one is the bucket of the reset address,
  clients with two ports. A bucket can hold a head and a list of two, so that every
  case of unlinking arises (head alone, head with list, middle, end), and full and
  empty stacks. Two deleters: the reaper and the main thread.
* `server`: two slots, two clients in one bucket, three users with different addresses, of
  which two share the low 16 bits; both clients may be the same user. `SyncEvery` (32 in the code) is 2,
  both timeouts are 0 and `MaxIdle` is 1: a session is fresh or expired. The TUN device is read by the main thread here
  (thread_num 1), by a worker in `server_stop`.
  `ServerView` leaves `sent` out of the comparison of states; no action reads it.
* `server_stop` has one slot, the same users, a worker, `SyncEvery` 3, timeouts of 0 and 1 and `MaxIdle` 2, so that the two kinds of
  sessions expire at different times.
* `race`: two slots, two clients in the bucket of the reset address, one interface
  address. `MaxDoubles` bounds the deletions of a slot that is free already: each may
  leave an entry behind and the lists would grow for ever. A thread that reached the
  bound waits, and a failed allocation ends the main thread, so deadlock is not checked there. `RaceView` leaves out what no step and no
  property of the run reads: dead local variables, and the slot a worker sends to.
* `lifecycle`: two workers, so that one can be up while the other is not, and two signals, of
  which only the first counts.
* `client`: the counts of the code for tries (5) and resets (3); a timeout of two ticks; a sign
  of life every second event instead of every 64th; one signal, one worker and two runs in
  one process.
* `vpn`: one slot, one client, one user whose password is right or wrong, one thread on each side, one
  misdelivery of a control packet, two tries of the handshake, two of the authentication and timeouts of 0
  and 1, so that an answer may arrive after the client gave up waiting for it, and a session may expire
  under a client that still connects. Three reductions: of the packets that are repeated for ever (TUN data, SYNC,
  REQSYNC) one per direction is on its way at a time; a process whose next steps nobody else
  could notice takes them before others go on; and time passes for both sides at once.
* `iface`: netmasks on and off the octets, tunnel gateways inside and outside of the
  network, both device nodes present or missing, two gateways of the host, one failing command, one change of the
  gateway at any time, two runs. The change replaces the default gateway and keeps the host route; one that
  takes the old link down, and the host route with it, is not among the moves.
* `config`: two options and two lines, so that one word may override or follow another in every order; numbers
  -1, 0, 1, 256 and 65537.
* `gui`: one worker beside the main thread; three runs, of which two may overlap, so that a run can begin
  settled after an unsettled pair; at most two callbacks wait. With two runs and no bound on the callbacks the
  properties hold as well.
* Deadlock is not checked for the server, its life cycle, the client and the runs built on them: they stop when
  they are told to. Nor for `iface`, `config` and `gui`, which end at their bounds.

### Fairness

`FairSpec` assumes that threads keep running: the reaper returns from `sleep(5)` and
goes on scanning, the loops read `stop` again (`epoll_wait()` has a timeout and the
main thread sends SIGTERM with `pthread_kill()`), and the main thread goes on to
`destroy_epoll()`. Nothing is assumed of clients, of the clock or of signals from
outside.

`ServerLifecycle` and `UdpClient` assume that each thread takes its next step when it
has one: system calls return, `poll()` and `epoll_wait()` by their timeouts, and the waits
of the tear-down give up after 1000 rounds. Packets, errors, the clock, signals and
the user owe nothing. In particular, no answer of the server is assumed.

`Vpn`, `Iface`, `Config`, `Gui` and `SessionRace` state safety only. That a half-dead connection ends follows
for each side from its own module (`SilenceEndsClient`, `ZombieReapedOrEmergency`), whatever the
other side does.

## Proofs

`SessionOpsProofs` shows that each operator of the pool keeps
`PoolInv`: the type; `FreeExact` (the stack holds the unconnected slots, each once);
`SpExact` (`sp` is the number of connected slots); `MapWF` and `EntriesExact` (a slot is linked once, in
the bucket of its address, exactly while connected); `OwnersDistinct`. None of these
is inductive alone: that the push finds room needs `SpExact`, that `SpExact` survives a
creation needs the popped index to be unconnected (`FreeExact`), that an unlink finds its entry
needs `EntriesExact`, and that a lookup has one answer needs `OwnersDistinct`.
The lists are handled by `RemoveFirstInjective`: what `RemoveFirst` does to a list without
repetitions.

`UdpSessionProofs` adds `CountExact` to obtain the inductive invariant `IInv`, and proves

* `PoolInvariant`: `Spec => []IInv`, and from it `FreeListIsExact`,
  `PushAlwaysFindsRoom`, `BucketsStayWellFormed`, `LookupIsExact`, `CountIsExact`;
* `PoolRefinesTable`: `Spec => ImplementsSessionPool`.

The assumptions are `PoolAssumption` (`MaxConn` a positive uint16_t, address halves and ports
in range, 0 among them since reset slots hold it) and `DeletersAssumption` (the number of
deleters is a natural number). `CountExact` is an equation modulo 2^16: with 65535 slots, which the
configuration accepts, and deletions between unlock and decrement the counter does wrap, and comes back.

`UdpServerProofs` proves of the server, with atomic handlers,

* `ServerInvariant`: `Spec => []ServerInv`;
* `PacketsReachAddress`, `SessionsLiveLegally` and `OnlyAuthenticatedGetPackets`: the other
  properties of run `server`. The first compares whole addresses, and excepts users who share the low 16 bits.

`ServerInv` is inductive as it stands. The argument separates the pool, for which the lemmas
above are cited (`CreateCounts` and `DeleteUncounts` add the counter), from slot fields
and routes (`RoutesOK`), with one lemma for each way a handler changes them. That a closed
session leaves no route behind needs both directions of `AddressIffAuthenticated`: its route,
if it has one, is the route of its own address; that a new session starts unauthenticated needs
`FreeSlotsClean`, since `create_udp_sess()` does not clear these fields. `ServerAssumption`
says that the interface addresses of users are in range and not 0, and that the
bounds on time exceed the timeouts. Nothing in `auth.c` refuses a user file with the address 0.0.0.0: its session would
be authenticated without an address, and its route would outlive it.

Its second half is about `Vpn` and proves `SidesAgreeAlways`, `CloseComesLast` and `OneFaultIsHarmless`. They
hold for every number of slots, tries, resets and users, every timeout and every number of faults of the
network (`NoHalfOpen` speaks of behaviours with at most one so far, the other two of those with none); there is one client, one thread on each side
(the workers of the server take no step here, whatever `Worker` is), and the reductions named under `vpn` above are part of the model. The argument first forgets the details of a step:

* a step of the server keeps the sessions (`Keeps`), opens one because of a HANDSHAKE (`Opens`),
  authenticates one because of an AUTH (`Auths`), or leaves none and says CLOSE (`Closes`). That a close leaves none
  needs `PoolInv`, by the lemmas of `SessionOpsProofs`, and that all sessions belong to the one client (`ServerSide`);
* a step of the client goes from stage to stage (`ClientMoves`): HANDSHAKE is sent in one stage only and never after AUTH,
  the stages after the authentication are entered by an AUTH_OK, the end by a CLOSE;
* a queue loses its head or grows at its end, with CLOSE last (`Enqueued`, `Dequeued`, `FaultyHas`).

The invariant `VpnInv` is then about queues and stages. None of the three properties is inductive: what
a client in its loop may rely on depends on what was under way when it was let in. So `Revoked` follows the promise from the
moment it is sent: every AUTH_OK on its way has a CLOSE behind it, and a client past its authentication has one before it or was
told to stop. Without faults there is an authenticated session or the promise is revoked (`Agreed`). `NotYet`, `InOrder` and
`Settled` show that once AUTH_OK was sent no HANDSHAKE can still open a session; they are what makes one fault harmless
(`AgreedOrGone`), and that they hold only without faults is why two are not. `Closed` says that behind the last CLOSE there is no HANDSHAKE, or
there is no session and no HANDSHAKE at all. `VpnAssumption` says that the client
sends from an address the server can see and that the bound on faults is a number.

`SessionRaceProofs` takes the same pool with the handlers cut at their locks. `RaceInvariant` proves `RaceInv`, of
two parts. The first holds in every interleaving, double closes included: the shape of the buckets and the stack, and
`CounterFollowsStack`, which is an equation modulo 2^16 (with 65535 slots taken and a close between its
unlock and its decrement the counter wraps). The second holds as long as `overlapped` is false:
`PoolInv`, clean free slots, sound routes, and for each thread what the slot it works on is like at its step. From
it follow `EmptyHeadsEndLists`, `CounterTrailsStack`, `PoolExactWithoutOverlap`, `FreeSlotsAreClean`, `RoutesAreSound`
and `CreatedSessionIsFound`: the properties of run `race`. `PoolExactWithoutOverlap` says in addition that
the `BUG_ON` comes true only after an overlap: the finding of `race_double_close` has this one cause.

`ServerLifecycleProofs` proves `AllStartTogether` and `NoDescriptorLeaks`. The first rests on `StartInv`: `n_on_threads`
is the number of threads that counted themselves in and not out, so that the number the main thread waits for
means all of them. The second rests on `FdInv`: an open descriptor is in the field the tear-down closes.
Its second half is about `Config`, for command lines, files and user files of every length: `DeviceConfigured`, `RunsAreClean` and `AuthExact`.
`ConfigInv` ties the configuration to the words read so far, phase by phase: while options are read no line was, a run that is still going has met no word that
is refused, the thread number and the fields of a user are what the last words that set them leave, and the two names of the
device differ only by an option that no line followed. An appended word is the last of its kind or changes none of this, so no
induction over the lists is needed.

`UdpClientProofs` proves `InterfaceDown` (from `IfaceInv`: while the interface is up, `need_remove_iff` is set and
the run has not ended), `EndAnnounced` (from `EventInv`: which event was the last, by where the
main thread is; a run without one has brought the interface up or ended in a silent failure), and the action property `SilenceAfterClose` (from `QuietInv`: the counter is exact, so that a main thread
that saw it reach zero leaves no worker in its loop, and the timer has ended before).

`IfaceProofs` proves `IfaceInv` of the interface, a conjunction of: the type, in which the address is none or the one
computed from the netmask; `TunnelInv`, which holds through every failure (routes into the tunnel need the
address, which a later `teavpn_iface_up()` does not find twice); `FoundInv`, `DownInv` and `CleanInv`, what
each command finds when no call failed. `ServerStaysReachable`, `DownIsInverse` and `CleanRunsDoRepeat` are read off it.
`OctetsAreExact` (the prefix length of netmasks that end on an octet) needs what the loop computes, for all 33 netmasks: `ShiftsCountDigits` finds the recursive function by
exhibiting one that satisfies its equation and then evaluates it range by range, and `CidrRoundsUp` puts the octets together.

`GuiProofs` proves `GuiInv` of the front end. `LabelInv` says that a button that shows a connection has a run
that will announce its end or a callback that waits; `ButtonInv` the same for a button that is off; `MutexInv` ties the event
last posted to the thread that holds the mutex. These three give `ButtonIsGivenBack`. `AloneInv` and `StateInv`
describe a run that was alone when it began (`RunsAreApart`, and the action property `StopIsForItsRun`): while it runs only
connections are announced, so no callback enables a second click, and while `g_state` names it no
other run is past its configuration. `MoveKeeps` is the one lemma for all steps in which a thread goes on
to another place.

The invariants of the client, the interface, the configuration, the front end and `Vpn` were model-checked on the instances of their runs
before they were proved. The constants are arbitrary: numbers of slots, clients, workers and runs, and the bounds themselves (`MaxFaults`, `MaxRuns`, `MaxQueue`,
...), so the theorems hold for unbounded failures and runs. The assumptions are those named in the modules.

`FreeListExact`, `PushFindsRoom` and `BucketsWellFormed` are consequences of `IInv` that are proved and, since run `pool` checks `IInv`, not
checked again.

Only model-checked: liveness (`StopClosesEverything`, `ZombieReapedOrEmergency`, `StartUpEnds`, `StopEndsServer`,
`ConnectEnds`, `StopEndsClient`, `SilenceEndsClient`), which is out of the prover's reach. The clock of `Vpn` is stated with
`ENABLED`; the proofs only use that a tick advances a clock or leaves it alone.

## Not modelled

* The contents of packets and their length checks: a packet is well formed or not.
* Strings: quoting for the shell, trimming, copying into buffers of fixed size.
* Allocation and locking as such: a lock makes its section one step, an allocation fails where the code handles
  it. Printing, help texts, dumps.
* Widgets, menus and the file dialog of the front end, which only chooses the file the next run reads.
* The io_uring event loop, which the code refuses; the old client, which is not built; `ext/`, third-party code,
  except the loop of inih over the lines of a file.

## Plan

1. `Vpn` with two clients in one bucket, and with a second worker on the server.
2. `Vpn` with the failures of the two processes themselves, which `UdpClient` and `UdpServer` have, in place of calls that succeed.
