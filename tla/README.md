# FrontierMP in TLA+

A verification development of FrontierMP 0.2.6, a multiplayer framework for
Red Dead Redemption 1: a UDP server that knows players, a client library
loaded into the game process, and the transport between them. Paths below are
relative to `FrontierMP-0.2.6-source/`.

Contents: 1 inventory, 2 what is hard, 3 modules and their correspondence to
the code, 4 runs, 5 proofs, 6 disagreements found, 7 what is not modelled,
8 plan.

## 1. Inventory

| Part | Code | State | Operations | Talks to |
|---|---|---|---|---|
| Acknowledgement window | `ReceiveHistory`, `shared/src/protocol.cpp:245` | highest sequence, 32 bits below it | `accept`, `highest`, `ack_bits` | read into every header sent |
| Reliability tracker | `ReliabilityTracker`, `protocol.cpp:267` | packets not acknowledged, with retries and time of the last sending | `remember_reliable`, `acknowledge`, `due_resends`, `next_sequence` | fed by the other end's headers |
| Session table | `server/src/server.cpp` | `connections_`, `resumes_` by endpoint, `nextPlayerId_`, tick | `handle_hello`, `handle_player_state`, Ping, Goodbye, `prune`, `broadcast_snapshots` | one socket, polled by `tick` every 50 ms |
| Network client | `client/src/network_client.cpp` | connection state, player id, token, three timers, window, tracker | `start`, `stop`, `update`, `submit_player_state`, `handle_packet` | the server; callbacks of the runtime |
| Client runtime | `client/src/client_runtime.cpp`, `frontier_client.cpp` | `g_network`, stop flag, two timers, `clientTick_` | `initialize`, `run_loop`, `update`, `shutdown`, the exported calls | a worker thread and the host's threads |
| Game session | `game/src/frontier_session.cpp` | one of six states, what the probes said | `update` every 250 ms, `reset` | the bridge |
| Bridge and native invoker | `game/src/rdr_bridge.cpp`, `native_invoker.cpp` | resolved addresses, `ready_` | `initialize`, `invoke_u32`, `read_local_player_state` | the running game's memory |
| Interpolator | `client/src/interpolation.cpp` | 12 samples per remote player | `push_snapshot`, `sample` | snapshots; nobody yet: the runtime only logs snapshots |
| Movement validation | `server.cpp:158-194` | last accepted state, `stateInitialized` | window of 0.25 s at the greatest speed | the session table |
| Replication | `server.cpp:216-232, 296` | none | a snapshot of who is within 400 m, per viewer and tick | the codec's size limits |
| Codec | `protocol.cpp:1-243` | none | encode and decode | |
| Fingerprint, pattern scanner | `game/src/build_fingerprint.cpp`, `pattern_scanner.cpp` | none | match an executable; find bytes | bridge, launcher |
| Launcher | `launcher/src/` | a process, a thread, a remote string | verify, start suspended, load, resume, wait | Windows |

What makes each part correct:

* window and tracker: a packet is forgotten only once it was handled, is
  handled once, is not refused the first time, is not resent too often;
* session table: a player is one entry, ids and tokens name one player, silence
  starts a grace period in which the player comes back as he was, and after
  which he does not, a Goodbye ends the stay;
* client and server together: both mean the same player, a client has one
  session whatever the network does to its Hellos, as long as it was told of
  that session;
* client in the game: the session follows the game both ways and is declared
  Active only on what the game says, replication depends on neither;
* interpolator: what is drawn goes through what was reported, does not leap,
  and is not rewritten;
* movement and replication: an honest player is not refused for what the
  network lost, and everybody ends up seeing who is near;
* codec: what one end writes the other reads, and nothing else is read;
* launcher: the game's code runs with the client in it or not at all, unless
  the loader is ended from outside with an exit code that passes for a module,
  and on no path is a process, a handle or remote memory left behind;
* runtime: the threads of the process use `g_network` only while it is there,
  and the server is told when a client that a Shutdown finds is stopped.

## 2. What is hard here

There is no lock and nothing is persisted. The server is one thread; the
client has a worker and whatever thread calls the exported functions, and the
two share `g_network`, a `unique_ptr`, with nothing to order them. The
difficulty elsewhere is in the ordering of datagrams against four clocks (the
server's patience, the client's patience, the grace of a resume, the resend
delay), in state kept on one side and dropped on the other, in a game that
fills, breaks and unloads what the client polls, in a movement window that does
not grow with the time since the last accepted report, in limits of the codec
that meet nowhere but on the wire, and in a launcher whose every call can fail
beside a process that can end between any two of them.
`PROJECT.json` lists the hazards,
each at its line with the properties that would catch it, or why none does.

## 3. Modules

```
ReceiveWindow <--- ReliableChannel ---> Delivery (abstract, INSTANCE)
      ^                  ^
      |                  ReliableChannelProofs
      |
    Session <- SessionProperties <- MCSession, SessionProofs

    Server <- ServerProperties <- MCServer, ServerProofs
    Codec <- Replication <- ReplicationProperties <- MCReplication, ReplicationProofs
    (CodecProperties is a part of ReplicationProperties, and CodecProofs,
    which proves it, of ReplicationProofs)
    Interpolation <- InterpolationProperties <- MCInterpolation, InterpolationProofs

    GameSession <- GameSessionProperties <- MCGameSession, GameSessionProofs
    Fingerprint <- Launcher <- GameProcess <- GameProcessProperties
                                  <- MCGameProcess, GameProcessProofs
```

The map in `PROJECT.json` names the lines of every definition. In short:

* **ReceiveWindow**: `accept` and the test of `acknowledge` over a window of
  width `W` (32), as operators shared by the next two. The bits are the set of
  distances whose bit is set.
* **ReliableChannel**: one direction. `SendReliable`/`SendUnreliable`,
  `Deliver`, `ReceiverSend` (a packet back, carrying the header), `AckArrives`,
  and the tick that resends, split into `BeginTick` and `EndTick` because
  `nowMs` is taken at its start and the clock goes on: `now_ms()` of a packet
  sent inside the tick may be later. `TimeMod` is the modulus of the unsigned
  difference of times. **Delivery** is what a user of the channel is promised
  (sent, delivered, confirmed; confirmed implies delivered) and
  `ImplementsDelivery` the refinement.
* **Server**: the session table, one action per handler, datagrams from anyone
  (`ReceiveOther`, `HelloAgain`, `HelloResume`, `HelloNew`,
  `ReceivePlayerState`, `RejectPlayerState`, `ReceiveGoodbye`,
  `DiscardPacket`) and `EndTick` = `prune` and the passing of time. The wrap of
  `nextPlayerId_` is `Wrap` in an id space of `IdSpace`.
* **Session**: one `NetworkClient` and the server's entry for it, both with
  their real window and tracker, over a network that may lose, repeat and
  reorder a datagram until it is `MaxDelay` old. Ticks are split where the code
  polls its socket. `handled` and `heard` are ghosts: what each end's switch
  has seen.
* **GameSession**: the runtime, the bridge, the invoker and FrontierSession
  beside the game. The game's steps (`GameSteps`) are external: it registers
  natives, faults, loads and unloads as it likes. Times are ages up to the
  period they are compared with, so that the state space is finite without a
  bound on time.
* **Fingerprint**: `inspect_file`, `inspect_loaded_module` and `match` as
  operators on an executable. The FNV hash of a range of bytes is the range.
* **Launcher**: `wmain` and `Launcher::run`, one action per Windows call, each
  of which may fail; `step` is the next call. Beside it the loading thread
  (`ReadPath`, `AttachClient`), which may be ended alone (`LoaderKilled`), and
  a game that may end at any time (`GameExits`). The `loader` is `"Killed"`
  when its exit code, not 0, comes from whoever ended it.
* **GameProcess**: the launcher and the two threads of the client, the worker
  and a host thread that calls the exported functions when it likes. A call is
  split where it reads or writes `g_network` and at the end of each method of
  the object: between the two the thread is `inside` it. Using a null pointer
  or a destroyed client is undefined; `faulted` notes it and the behaviour goes
  on either way. `raced` notes that a call which writes `g_network` has
  overlapped another, `openedSince` the clients opened since the last Shutdown
  was called. With the process its open clients are lost to the server
  (`ClientsEnd`): nothing says Goodbye on detach. GameSession has the same calls in one step each, with
  more of what they do.
* **Codec**: `Writer`, `Reader`, every encode and decode function with the
  limits it refuses to write or read beyond, over bytes of `Base` values.
* **Replication**: honest players who move by at most `Speed` an instant, their
  reports in flight, `handle_player_state` (`ReceiveReport`), `relevant` and
  `broadcast_snapshots` (`Broadcast`) and which snapshots a client can read
  (`Readable`, from the sizes of Codec). Times are ages.
* **Interpolation**: `push_snapshot` as `Push` of any snapshot broadcast so
  far, `sample` as the function `Rendered`; a position is an exact fraction.

## 4. Runs

| Run | Question | Properties |
|---|---|---|
| `channel` | does one direction of the transport keep its promises under loss, duplication and reordering of packets and headers? | `TypeOK`, `AckSound`, `ReplayOnlyAtEdge`, `NoFalseDuplicate`, `ResendSpaced`, `ImplementsDelivery` |
| `server` | does the session table keep identities straight for any senders? | `TypeOK`, `OneHolder`, `IdsDistinct`, `NoTeleport`, `SessionSurvives`, `NoLateResume`, `GoodbyePrompt` |
| `session` | do a client and the server agree through silence, reconnect and resume? | `TypeOK`, `IdentityAgreement`, `HelloAckSound`, `OneSessionPerClient` |
| `game_session` | does the client in the game follow the game? | `TypeOK`, `Recovers`, `FollowsGame`, `Replicates`, `ActiveIsTrue` |
| `interpolation` | is what is rendered faithful to what was reported? | `TypeOK`, `Ordered`, `ThroughSamples`, `NoLeap`, `PastStable` |
| `process` | what do the launcher, the loading thread and the client's two threads leave behind, whatever fails? | `TypeOK`, `CleanReturn`, `RunsWithClient`, `GatesAgree`, `SafeWhenAlone`, `GoodbyeBeforeReset`, `Returns`, `WorkerEnds` |
| `replication` | do honest players see each other, and does each end read what the other writes? | `RoundTrip`, `TypeOK`, `HonestAccepted`, `InterestFollowsTruth`, `Converges` |
| `channel_replay`, `server_bootstrap`, `session_ack`, `session_state`, `game_sentinel` | section 6 | one each, violated |

Every property of a passing run has a mutant: a definition of the model with a
plausible bug, next to the right one in the module (its comment says
`mutant`), under which TLC finds the property violated.

Bounds, and why they are enough:

* `channel`: `W = 2`, four packets, three instants. A window of two has an
  inside and an edge, four packets jump by less than, exactly and more than it;
  three instants and a delay of two cover resends in time and early ones.
  `TimeMod = 16` stands for 2^64.
* `server`: two endpoints, three sessions, ids modulo 3 so that the counter
  wraps and skips 0, timeout and grace of 1 with gaps of up to 2 between ticks,
  so that both can be overrun by one tick. Places 1 and 3 with steps of 1: one
  place within the window of the origin, none within the window of the other.
* `session`: window 2, the server's patience 4, the client's 3, datagrams that
  live for up to one instant after they were sent, three packets per end and
  six instants. Within these the client connects, is forgotten, gives the
  server up itself, and resumes (the mutant of `OneSessionPerClient` needs all
  of it), or leaves. It says Hello again after two instants, so that a client
  all of whose Welcomes were lost gets its second session, the case
  `OneSessionPerClient` names. Beyond its number of packets an end goes on as if what it
  sends were lost. The room between `MaxDelay` and `ServerPatience` is an
  assumption with content: with a patience of 3 instead of 4 TLC shows a copy
  of the very first Hello, which has no token, arrive after the server has
  forgotten the client and open a second identity. In the code the room is 10 s
  against twice the 1.2 to 1.5 s of a Hello's resends and twice the delay of
  the network; section 5 has the bound for all values, and 4 is exactly it.
  Both ends tick in every instant (`Punctual`): their ticks are 10 and 50 ms,
  an instant is some hundred. CHECK_DEADLOCK is off: the model ends at its last
  instant.
* `game_session`: two addresses of which the first match is outside the image,
  one probe beside the two named ones, session period 2 and send period 1 in
  ticks of the clock, client tick modulo 2.
* `interpolation`: one player (the buffers of two do not interact: `Pushed`
  reads one of them), five ticks, a buffer of three, delay and extrapolation
  limit of two; every order of pushes, among them those that overflow.
* `process`: three clients ever made, the worker's and two of the host, so that
  an Initialize can replace one that itself replaced another, and the worker
  can open its client after a Shutdown. Five executables:
  the known build, one changed in memory, one cut short, one changed on disk,
  one without `.text`; the section before `.text` keeps the search honest.
  CHECK_DEADLOCK is off: the program ends.
* `replication`: two players who move on the places 0, 1, 2, a bystander at 2,
  and speed, window and radius of 1, so that a player is out of the window
  after two instants unheard and a place is out of interest. Reports live for
  one instant and are told apart up to an age of 3. A datagram of 114 bytes has
  room for two players, so that place 2 with both of them on it is a crowd one
  too large. `Base = 16` keeps the lengths 64 and 128 of the texts on both
  sides of a byte. One viewer: viewers do not interact.

Fairness is assumed in three places.

* `GameSession`: weak fairness of `WorkerStart`, of `WorkerUpdate` and of the
  clock. The worker is a thread in a loop with a sleep of 10 ms
  (`client_runtime.cpp:115`), so it keeps calling `update` while it is not told
  to stop. The game owes nothing, and neither does the host of the exported
  calls; the liveness properties say what they assume of the game in their
  left-hand sides, which are about what holds from some time on.
* `GameProcess`: weak fairness of the launcher's calls, once it has its
  arguments, and of the worker's steps, which are threads that nobody suspends.
  Before that `wmain` may wait at the console (`main.cpp:73-80`) for somebody
  who never answers, and `Returns` says so. The loader, the game and the
  host owe nothing: a DllMain may hang, the game may run for ever.
* `Replication`: weak fairness of the clock, of each client's report and of
  the broadcast reaching a viewer, which are timers; strong fairness of a
  report's arrival: a network that lets infinitely many of a player's reports
  be in flight does not lose them all. `Converges` needs no more, and says what
  it assumes of the players.

Elsewhere the properties are about safety: a lossy network owes nothing,
and a client that loses everything need not connect.

## 5. Proofs

TLAPS proves, for every value of the constants under the named assumptions:

| Theorem | Says | Inductive invariant |
|---|---|---|
| `ReliableChannelProofs!TypeCorrect` | `TypeOK` | itself |
| `AcknowledgementSound` | `AckSound` | what a header in flight acknowledges was delivered, and the history's bits are delivered packets |
| `ReplayBounded`, `FirstArrivalAccepted` | `ReplayOnlyAtEdge`, `NoFalseDuplicate` | within the window, the bits are exactly the delivered packets, but at the edge |
| `ResendsSpaced` | `ResendSpaced` | `TrackerInv`: one item per packet, and none resent later than the running tick |
| `ChannelImplementsDelivery` | the channel implements `Delivery` | `IInv`, step by step |
| `ServerProofs!ServerTypeCorrect` | `TypeOK` | itself |
| `SessionHasOneHolder` | `OneHolder` | with: tokens held are below the number issued |
| `PlayerIdsDistinct` | `IdsDistinct` | the id of a session is its token, until the counter wraps |
| `NobodyTeleports` | `NoTeleport` | every session after a step is the heir of one before it or has the new token (`Descent`); a token names one record; a place not checked is synthetic |
| `ResumesInTime`, `SessionsSurvive` | `NoLateResume`, `SessionSurvives` | `OneHolder` |
| `GoodbyesArePrompt` | `GoodbyePrompt` | `Backdating`: a client that left stays backdated |
| `SessionProofs!SessionTypeCorrect` | `TypeOK` | `TypeInv`: the types of all datagrams and tracker items, of both ends |
| `HellosAcknowledged` | `HelloAckSound` | `AckInv`: the server's window, the packets in flight and those it may resend acknowledge only what it heard |
| `IdentitiesAgree`, `OneSession` | if `Patient`, `IdentityAgreement` and `OneSessionPerClient` | `WhoInv`: every datagram and tracker item is on time, Welcomes name the player of the connection, and old Hellos are outlived by the connection (below) |
| `GameSessionProofs!GameTypeCorrect` | `TypeOK` | itself |
| `DeclaredActiveIsTrue` | `ActiveIsTrue` | with: a ready invoker polls the game's own table, and an initialized bridge is of a known build |
| `GameProcessProofs!ProcessTypeCorrect` | `TypeOK` | itself |
| `LauncherReturnsClean`, `GameRunsWithClient` | `CleanReturn`, `RunsWithClient` | `Ledger`, what the launcher holds at each call, and `Learnt`, what it knows by then |
| `UnorderedCallsOnly`, `ShutdownSaysGoodbye` | `SafeWhenAlone`, `GoodbyeBeforeReset` | without an overlap, each thread's label says what `g_network` is and whether its client lives, and an open client is the one in `g_network`, opened since the last Shutdown or still before its Goodbye (`Accounted`) |
| `GatesDifferByText` | `GatesAgree` | the launcher let the executable pass before the worker inspects it |
| `LauncherNeverGoesBack`, `StoppedWorkerNeverGoesBack` | the safety of `Returns`, `WorkerEnds` (below) | `CallsLeft` and `LabelsLeft`, what the launcher and a stopped worker have before them |
| `ReplicationProofs!ReplicationTypeCorrect` | `TypeOK` | itself |
| `HonestReportsAccepted`, `InterestIsTrue` | `HonestAccepted`, `InterestFollowsTruth` | `Honest`: any two sightings of a player (where he is, in a report, held) are no further apart than `Speed` times the difference of their ages |
| `RestIsKept` | the safety of `Converges` (below) | `Settled`, what is true of every packet in flight once reports are up to date |
| `CodecProofs!MessagesRoundTrip`, `NoPrefixIsRead` | any message of any layout of numbers of up to 64 bits and texts of any limit is read as it was written, and of two byte strings that are read neither is a proper prefix of the other | none: pure operators, by induction over the fields (below) |
| `SnapshotsRoundTrip`, `PacketsRoundTrip` | any snapshot up to its limit and any datagram up to its size is read as it was; cut short, at any byte, or with anything behind it, it is refused | none |
| `ReplicationProofs!FormatsAgree` | `RoundTrip` | `TypeOK`, with the theorems of CodecProofs |
| `InterpolationProofs!BuffersTypeCorrect`, `BuffersOrdered` | `TypeOK`, `Ordered` | each other |
| `RenderedThroughSamples`, `NobodyLeaps`, `PastIsStable` | `ThroughSamples`, `NoLeap`, `PastStable` | the same, and which two samples the search finds |

Each follows `Init => IInv`, `IInv /\ [Next]_vars => IInv'`, `IInv => Inv`,
with one step per action; an action property follows from `IInv` and the step.
The assumptions are the named ones of the modules: the kinds and signs of the
constants, that a value for "nothing" is no value of its kind, that a report
does not outlive the ages that are told apart (`MaxDelay < MaxAge`), and that
the last instant of Session is not before its first.

For Codec they say that a byte has at least 16 values (the code's have 256),
that the greatest datagram and the greatest snapshot can be told in 16 bits,
the magic number in 32 and the version in 8, that a datagram is no larger than
the largest message, and that `Refused` is no message. `Base = 16` is the
least they allow, and what the run has.

**Who is who.** `IdentitiesAgree` and `OneSession` have a hypothesis about the
constants:

    Patient == ServerPatience >= 2 * (Resending + MaxDelay)

where `Resending` is `MaxRetries * ResendDelay`. The server's patience starts
when it last heard the client. A copy of its Welcome is sent for `Resending`
from then and can be `MaxDelay` under way, so the client may learn its token
as late as that; the Hellos it had sent until then, with no token or an old
one, are resent for another `Resending` and are under way for another
`MaxDelay`. While one of them can still come the connection must still exist,
or it opens a second one. `WhoInv` has the times of all this (`OnTime`: how
old each datagram and each tracker item of a given number of retries can be;
`HelloInv`: no outdated Hello is sent later than the last Welcome can come).
The bound cannot be improved: the run `session` has `ServerPatience = 4`, which
is exactly `2 * (1 + 1)`, and with 3 TLC shows both properties fail. In the
code patience is 10 s (`server.hpp:21`) and ten resends at 120 ms take 1.2 s, or
1.5 s in ticks of 50 ms, so the theorems speak of every network that delivers
or loses a datagram within about 3.5 s. Beyond that a copy of the first Hello
can open a second session for a client that knows the token of its first. A
client that does not, since every Welcome was lost, gets a second session under
any bound; `OneSessionPerClient` names that case.

**The formats.** The library's induction theorems take an operator, which the
provers here cannot instantiate. `Induction` states for a set what they state
for a predicate, and is proved from the well-foundedness of the naturals;
`Recursion` and `Stepwise` derive from it that the recursive functions of Codec
(`WrittenUpTo`, `ReadUpTo`, `ValueUpTo`, `SizeUpTo`, `Weight`) exist and obey
their equations. From there: a number is read from its digits (`Digits`,
`ReadWritten`), what is read does not depend on what follows it (`ReadMore`,
`ReadAllMore`), so that a message is read back field by field (`ReadBack`) and
none is a proper prefix of another. The theorems are about all messages, not
the samples of `RoundTrip`, which is a corollary.

Only model-checked: the liveness properties (`Recovers`, `FollowsGame`,
`Replicates`, `Returns`, `WorkerEnds`, `Converges`), which, with ENABLED, this
prover does not do. Every invariant and every action property of the passing
runs, and the refinement of `Delivery`, is a theorem.

Of three of them the part that is not about time is proved, as action
properties no run checks by themselves; what stays with TLC is that the steps
can be taken and are.

* `Converges`: `RestIsKept` says that nothing that arrives late undoes a
  settled server, and that the first snapshot to reach a viewer after that
  makes him right for good. It supposes `Room <= SnapshotLimit`, which the
  constants of the code satisfy (`Crowded`: a datagram of 1200 bytes has room
  for 30 players, a snapshot may name 64).
* `Returns`: by `LauncherNeverGoesBack` the launcher makes at most ten steps.
* `WorkerEnds`: by `StoppedWorkerNeverGoesBack` the worker makes at most
  thirteen after a Shutdown; no Initialize of the host takes the request back.

## 6. Where the code and its documents disagree

* `channel_replay`: `accept` clears its bits at a jump of exactly 32
  (`protocol.cpp:254`), so that a packet at distance 32 is accepted twice,
  where the tests and `docs/networking.md` promise that a packet in the window
  is refused.
* `server_bootstrap`: a session resumed before its first state counts as
  initialized (`server.cpp:131`), against the comment at `server.cpp:170`.
* `session_ack`: after a reconnect the client acknowledges, unheard, the
  Welcome of the new connection (`network_client.cpp:121`). It recovers when
  the new connection's numbers pass the old ones.
* `session_state`: a late state replaces a newer one (`server.cpp:191`).
* `game_sentinel`: the sentinel native is looked up and not required
  (`native_invoker.cpp:321`), against `CHANGELOG.md:4`.

## 7. Not modelled

* Sequence numbers do not wrap (2^32 packets on one connection). Tokens and
  connection ids are fresh numbers, not 128 or 64 random bits; no one guesses
  one. Positions are a coordinate; NaN and rounding of floats are left out.
* The server never restarts. To a client a restart is a connection that was
  forgotten and a token nobody knows, which Session has; a restart amid copies
  of Hellos in flight multiplies its states beyond a useful time bound. There
  is one client per endpoint, for the same reason.
* What memory the bridge reads is reduced to whether the read succeeds: the
  pointers of the game can change between the check and the read
  (`rdr_bridge.cpp:229`), and no property of the game's memory can be stated
  from this repository. Only log lines depend on the fields read, but for the
  readiness that GameSession has.
* The pattern scanner is a pure search; its outcome, with more than one match,
  is an input of GameSession. The socket wrappers are the operating system's
  behaviour, which Session, ReliableChannel and Replication have as the
  network, and GameProcess as a start that may fail. `main` and the tools are
  straight-line programs around the classes modelled here; the tests are their
  users. `server.cfg` is read by no code and `resources/` is loaded by none.
* The environment block, the command line and all log lines.

`PROJECT.json` gives the reason for each component.

## 8. Plan

Done: the transport and its abstraction, the session table, client and server
together, the client in the game, its two threads and the launcher, the codec,
movement validation and replication, interpolation; and all of their safety
properties as theorems.

Left, in order of worth:

1. The composition of the id space with the interpolator: a new player under
   a used id glides from the old one's last place (`interpolation.cpp:17`).
2. A restart of the server in Session, on an instance without the client's
   submissions.
