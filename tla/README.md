# TLA+ models of OpenPulseHF

OpenPulseHF is an HF modem stack: a daemon and two TNCs (ARDOP, KISS) that key a
transmitter, adapt their rate to a fading channel and carry messages, files, mail
and frequency negotiations over it, and a PKI service that distributes trust.
These modules model the parts whose correctness
depends on control: threads that share a transmitter, two stations that must
agree over a channel that loses their frames, timers, retries and restarts.
Signal processing, encodings and user interfaces are outside them.

## The system's parts

| Part | State | Operations | Hard behaviour |
|---|---|---|---|
| Shared PTT (`openpulse-radio/shared_ptt.rs`) | deadline, generation, holder, stuck report; RAII guards | key, keyed, guard release, extend, unkey, force release, watchdog | threads between two lock sections; hardware that fails; a holder that hangs |
| ARDOP TNC, PTT (`openpulse-ardop`) | `manual_keyed`, command connections | `PTT TRUE/FALSE`, disconnect, worker bursts | an atomic flag beside the lock; a host that vanishes |
| ARDOP TNC, session (`openpulse-ardop`) | connection state, queue, `tx_pending`, ID request, idle time | data port frames, host commands, the worker's pass | a count kept by several threads; an idle clock older than the connection |
| Daemon PTT (`openpulse-daemon` server, lib, ptt) | pending event | operator assert/release, `GetPttState`, emissions | operator against automatic traffic; watchdog against events |
| OTA rate (`openpulse-core/ota_rate.rs`) | anchor, recommendation, sending level, streaks, bounds, lock | decoded, failed, adopt, bounds, lock, unlock | hysteresis, gaps in the ladder, saturating counters |
| OTA link (daemon server, engine) | retry and silence counters, NACK budget | send, listen, answer | lost data, lost answers, bounded retries |
| File transfer (`openpulse-filexfer`, daemon `filexfer.rs`) | one send and one receive session, `.partial` blocks | offer, accept, reject, block, ack, complete, cancel, timeout | loss, repetition, restart and resume, failing writes |
| SAR (`openpulse-core/sar.rs`) | candidate slots and their total | ingest, expire | messages under one key; eviction and refusal at the caps |
| Station ID (`openpulse-core/station_id.rs`, daemon server) | time since ID and since traffic, deferral | note, tick, identify | an ID that falls due while the key is taken |
| Repeater (`openpulse-repeater`, daemon lib) | session key, sense faults, ID timer; the thread and the daemon's view of it | relay, sense, identify, enable, disable, reap | a session key that expires on silence; a thread that ends by itself |
| HPX reactor (`openpulse-core/hpx.rs`) | session state, recovery and ARQ counters | dispatch, retry | counters that outlive what they count |
| Handshake (daemon lib) | pending handshake, ACK key, verified peers, open QSO | connect, CONREQ, CONACK, expiry, disconnect | two stations dial each other; lost answers |
| QSY (`openpulse-qsy`, daemon lib) | initiator and responder session, dial | request, scan, list, vote, ack, reject, expiry | a lost last frame splits the frequency |
| Discovery (`openpulse-discovery`, daemon server) | dwell state, home frequency, rendezvous | tick, retune, slot, preempt, propose, answer, switch | a dial that several parties turn; two stations that must leave together |
| Mesh (`openpulse-mesh`, core relay, query propagation, route discovery) | duplicate tables, peers, routes | queries, answers, updates, relayed data, broadcasts | floods; paths put together hop by hop |
| B2F (`openpulse-b2f`, `-b2f-driver`, `-gateway`) | both sessions, frames under way | banner, proposals, answers, messages, deadline, close | answers and messages matched by position over a link that loses and repeats |
| PKI service (`pki-tooling`) | tables, request tracking, the handlers in flight | submit, moderate, revoke, publish, promote, audit | concurrent transactions, row locks, an exhausted pool, retries |
| Modem engine, KISS, FreeDV authentication | | | see `PROJECT.json` |

They meet at the PTT (every emission of every front end takes the one key), at
the daemon's event loop (which runs the OTA sends, the file transfer and the
operator's commands one at a time) and on the air. `PROJECT.json` lists every
component with what is and is not modelled, every hazard with its line, and the
source lines behind each definition.

## Modules

**SharedPtt** is the PTT core. One action is one acquisition of the mutex, so
`keyed` is `Keyed` then `ReadGeneration`, and a guard's release is
`UnkeyOwnedCheck` then `UnkeyOwnedAct`. `asserted_at` is the age of the key in
ticks, saturated at `MaxDuration`; `rig` is whether the transmitter really is
keyed; `owner` is a history variable that says who took the live key, and `shown`
one that records every edge the observers are told (`Tell`), a repeated one
included. The
hardware does what it is asked, refuses, or does it and loses the reply; which
failures happen is the constant `Faults`. `Next` is the most general client.

**ArdopPtt** and **DaemonPtt** extend SharedPtt and restrict it to a front end.
ArdopPtt adds the `manual_keyed` flag and a program counter per connection, since
a connection's lock sections and its accesses to the flag interleave with the
worker's. `ArdopSpec` implies SharedPtt's `Spec`, which a theorem
states for every instance. The histories `refused` and `unmarked` say why a
vanished host's key may still be up: the rig refused the release, or another
connection that was ending cleared the flag after the host had keyed again.
DaemonPtt has one event-loop thread, whose commands and emissions do not overlap, and `pc` for the `PttChanged` event that is sent after the lock is
released.

**TncSession** is the rest of that TNC: the tasks of the data port, one command
connection and the worker. A data port task counts a frame and then waits for
room in the queue; the worker goes round through station ID, ARQTIMEOUT, drain
and receive, and its subtraction from `tx_pending` is a load and a `fetch_sub`.
Frames are their lengths, and an emission may fail, since its PTT is ArdopPtt's.
`connected_for` is a history variable.

**OtaRate** has the methods of `OtaRateController` as operators on a record,
over any ladder of mapped levels and any SNR thresholds. **OtaController** is one
controller under every order of calls. **OtaLink** is a sender in its retry loop
and a receiver that answers, with data and answers lost at will, or so late that
it is the next window that hears them: an ACK carries no sequence, so that window
may be one of the next message. The history `by_late` marks a send that such an
answer ended. A demodulation is a choice between decoded, failed and unheard.

**FileTransfer** is two daemons with both session machines, the glue around them
and the blocks on disk. Handlers are atomic, as they are in the event loop. A
block is one frame. A block that is repeated is written again, and a write that
fails may leave the disk without it (`fs::write` truncates first). The offer policy, the outcome of a write and whether the
sender is a verified peer are choices; a valid station callsign is assumed, as
`route_inbound_fragment` requires. All files have one geometry, so the size
checks, which reject only other geometries, do not appear.

**Sar** is one reassembler; a fragment is the message it was cut from and its
index, and two messages may share a session key and a count. The history
`stream` records a message that was delivered in full and undisturbed.

**StationIdTimer** has the timer of `station_id.rs` as operators; **StationId**
is the daemon's tick with its deferral: an ID that finds the key taken leaves the
timer as it is, and one that went out, or whose key or modulator failed, starts it
over. The history `owed` says that a frame still waits for its ID. **Repeater**
uses the same timer.
Repeater extends SharedPtt: the thread goes through drain, sense, key, send,
identify, stamp or release, and the daemon's event loop enables, disables, joins
and reaps it; `told` is what clients were last told.

**Qsy** is two daemons with one session each, and the frames between them. A
handler is one action, so states that are left in the handler that enters them
do not appear. **QsyAgreement** says what a negotiation promises: the opener
decides on one frequency, the other may follow to the same one, once, and after
it. `Agreement == INSTANCE QsyAgreement` maps `tuned` to `moved`, and
`ImplementsAgreement` is the refinement.

**Discovery** is one daemon's dwell with its dial: state machine, saved
frequency, retunes that may fail, slots, beacons, an operator who tunes, sessions
that begin. **Rendezvous** is the exchange of two stations in a shared slot
clock, with messages of several frames that are lost or missed frame by frame.

**Hpx** has the reactor as operators, **HpxSession** is one session under every
order of events. **Handshake** is the CONREQ/CONACK exchange among three
daemons, each with an HPX session (it composes Hpx), a logbook QSO and an ACK key
named by the dials that made it.

**Mesh** is nodes with a queue of decoded envelopes each. One action is one
dispatch with everything it calls: duplicate suppression, hop limit, relay
policy, caches, route table, reply and rebroadcast. `Plans` are sets of library
calls, so that one run explores several situations.

**B2f** is a sending and a receiving session with the loops that drive them.
Over the TNC both ends are the repository's driver, the link may lose a frame or
deliver it again, and the closing DISCONNECT may fail or not be heard, which fails
the end that sends or awaits it; over TCP the sending end is a CMS, which is external.
A message is its identity, its compression type and its size.

**Pki** is concurrent requests to the handlers that write, one action per
database statement. The database is external: READ COMMITTED, row locks held to
the end of a transaction (`BlockedBy`), the unique index on the current bundle,
deadlock detection, and a pool of connections. A client may go away, and a
statement may fail, at any point.

**Option** and **Pair** hold constants that several modules share (`None`; the
two stations). **MC\*** modules give constants their values. MCStation and
MCExchanges extend several components: the variable `part`, chosen at the start,
says which of them moves, and the others rest. Properties of one component hold
trivially in the behaviours of the others.

The theorems are in eight modules, each of which extends the modules it is about:
**PttProofs** (the shared core, the TNC, daemon and repeater, and MCStation's
composition of them), **LinkProofs** (HPX session, rate controller and OTA link),
**DataPathProofs** (the TNC's data queue and SAR), **FileTransferProofs** (blocks on
disk, the order of frames), **FileContentProofs** (contents and receipts,
on top of it), **QsyProofs**, **MeshProofs** and **PeerProofs** (discovery,
handshake, PKI service).

## Runs

| Run | Distinct states | Parts |
|---|---|---|
| `station` | 444,965 | the PTT under general clients, the TNC's PTT and its session, the daemon, the repeater, the station ID, the rate controller, the OTA link, SAR |
| `exchanges` | 253,053 | QSY, discovery, rendezvous, handshake, HPX session, mesh, file transfer, mail, PKI requests |

What they show, by part:

| Part | Properties | Meaning |
|---|---|---|
| PTT | `KeyedIsArmed`, `HolderIffArmed`, `DeadlineMovedByHolder`, `EdgesAreTransitions`, `WatchdogBoundsKey` | a keyed rig has an armed deadline; the holder label follows the key; only a live holder postpones the deadline; observers are told a key, or its end, when it happens and never twice; the rig comes down again and again |
| TNC, PTT | `GoneHostHoldsNoKey` | with two connections, a vanished host leaves no key unless the rig refused or another connection unmarked it |
| TNC, session | `BufferIsExact`, `QueueDrains` | BUFFER is what the host handed over and the worker has not finished; it comes back to zero, with or without MYID, and a requested ID is served there |
| Daemon | `KeyEndsByRight` | a guard's drop ends no key but its own, and the operator's carrier is ended by the operator or the deadline |
| Repeater | `RelayIsCurrent`, `RepeaterComesBackUnkeyed`, `ToldMeansRunning` | relays nothing from before a restart and never transmits on a key it has lost; comes back unkeyed; clients know whether it runs |
| Station ID | `FramesAreIdentified` | every frame is followed by an ID, or by an attempt at one that failed, however often the key is taken when it falls due |
| Rate | `LevelsUsable`, `HysteresisCounts` | levels usable under any bounds; streaks and NACKs are counted at the level they are spent at |
| OTA link, event loop | `SenderHasEvidence`, `EventLoopReturns` | the sender never outruns what was decoded, and only an answer that missed its window stands for another message; every send, and every disabling of the repeater, returns |
| SAR | `TotalIsExact`, `UndisturbedIsReturned` | the count of candidates follows every insertion and removal; an undisturbed message is returned whatever lies beside it |
| QSY | `ImplementsAgreement`, `ApartMeansUnfollowed` | implements the agreement; two stations are apart only where one has not (yet) followed |
| Discovery | `DialReturns` | the dial comes back to what was last chosen |
| Rendezvous | `InitiatorNeverAlone` | the proposer leaves only where the partner leaves too |
| Handshake | `DiallersKeyIsShared` | a key the dialler arms, the station dialled armed for that exchange |
| HPX | `RecoveriesBounded` | a session begins no more than its bound of recoveries in a row, relay detours included |
| Mesh | `RoutesLeadThere`, `SentIsDelivered`, `FloodsEnd` | routes lead to their destination; data sent along one to a node within its length arrives unless a frame was lost; every flood ends |
| File transfer | `AssembledIsOffered`, `ReceiptIsEarned`, `PartialsSurvive` | contents are not mixed; receipts are earned; resumable blocks survive, but for one whose rewrite fails |
| Mail | `SessionDelivers` | a receiving end returns exactly what it accepted, and between two of our stations a session on a faultless link succeeds at both ends and delivers the batch up to its cap |
| PKI | `ExactlyOneCurrent`, `RepliedIsStored` | from the first promotion on one bundle is current; a success, replayed or not, names what is committed |
| All exchanges | `ExchangesEnd` | QSY session, dwell, proposal, pending handshake, transfer slots, mail session and PKI request each come to an end |

The `*TypeOK` invariants also bound every counter and queue by the constant the
code gives it.

Ten runs end in a counterexample. Each shows the code doing other than a
comment or a document of the repository says.

| Run | What happens |
|---|---|
| `ardop_monitor_cuts_burst` | `manual_keyed` is still set while a worker holds the key, and a monitor's disconnect unkeys the burst |
| `daemon_lost_reply` | the rig keys, the reply is lost, and no deadline is armed |
| `ota_stale_ack` | an ACK comes after its window; the send of the next message, whose burst nobody heard, takes it for its own and ends as delivered |
| `ota_recovery` | the NACK with the step down is lost, the NACK budget is spent, and the two ends never meet again |
| `file_loss` | one lost block fails the transfer at the first deadline, with no retry |
| `qsy_default_policy` | with the default policy the daemon's responder has no operating mode, answers no LIST, and nobody moves |
| `discovery_disable` | discovery is disabled during a dwell, the return home is dropped, and the rig stays on the calling frequency |
| `handshake_keys` | two stations dial each other and arm the keys of different exchanges |
| `tnc_timeout` | the TNC's idle time is not reset by CONNECT, and a connection made after a quiet period is dropped at once |
| `mesh_discovery` | the answer to a route query is not forwarded, and a route two hops away is never learned |

### Bounds

- `MaxDuration` 2 in the passing PTT parts gives a key that is fresh, old and
  expired; the ARDOP counterexample needs only 1.
- `MaxGen` 3 to 5 allows a key, its successor and another after it, which every
  confusion of identities needs.
- Two guard-holding threads meet each other; the operator, the host and the
  watchdog come on top.
- The repeater's burst queue holds one, its fault limit is 2, and both duplex
  modes are explored. The ID interval of 2 can pass while the key is taken.
- The ladder {1, 2, 4} has a gap, and the readings lie on either side of every
  threshold. The counters saturate at 5, above both thresholds of 3.
- The daemon's NACK budget (3), its retries (3) and its silent windows (2) have
  their real values, as do the file transfer's block retries (4) and the HPX
  limits (4 recoveries, 6 retries).
- SAR: three messages share a key, two of them also their count; both caps are 2.
- QSY: two negotiations, so that frames of the first meet the second; a list with
  a common frequency and one outside the band plan.
- Discovery: a dwell of 4 slots holds two beacon overs. Rendezvous: messages of 2
  frames, two proposals, a dwell that ends at any point.
- Handshake: three dials among three stations, in both directions or two at one.
- Mesh: a line of three nodes with different hop limits and policies, and one
  lost copy or expired entry. The query tracker holds one key, so a node that has
  heard one query and then asks its own forgets the first. The duplicate table of
  relayed data holds two and is not filled. On a line of three a route that came
  from a cache is at most one hop short, which the hop limit makes up for, so the
  reach condition of `SentIsDelivered` always holds; on a longer line a route that
  has passed through two caches can be two short, and what it carries is dropped.
- TNC session: two data clients with one frame each and a queue of one, so that
  a client waits while the worker counts; frames of different lengths; two
  commands of one connection; both ARQ modes.
- Mail: batches of up to four messages against a cap of two proposals, four
  lines and a total of two, so that every limit is met and passed, mixed
  compression types from a CMS, and two faults of the link.
- PKI: three requests and two connections. The five loads are three promotions,
  repeated request ids on one and on different endpoints, a promotion of a
  bundle that is being published, and decisions on one submission.
- The contents of files are interchangeable, so the first transfer offers a given one.
- Two transfers of two blocks allow a resume after an interruption, of the same
  file or of the other. One fault at any point is a loss, a repetition or a
  restart.
- Deadlock is not checked: with bounded numbers of commands every part may come
  to rest.

### Fairness

- PTT: time passes, and the watchdog thread, which lives as long as the
  `SharedPtt`, at last succeeds with a release it keeps retrying. Nothing is
  assumed of the holders. For the TNC a disconnect handler runs on.
- Repeater: the thread keeps running and the event loop's join returns once the
  thread has ended.
- Station ID: the receive loop ticks, and a key that is free again and again is
  met free by a tick (strong fairness): the watchdog bounds every hold.
- OTA link: bursts end and windows close. Nothing is assumed of the channel.
- `ota_recovery`: in addition the operator keeps sending and the channel lets
  frames through again and again (strong fairness). The counterexample holds even
  then.
- QSY, discovery, rendezvous, handshake: the daemon's receive tick runs and time
  passes. Frames may be lost for ever.
- Mesh: every node takes up the frames it has heard.
- File transfer: time passes and the receive tick polls the deadlines.
- TNC session: the worker and the data port's tasks go on. Nothing is assumed of
  the host.
- Mail: both ends read what has come, and their deadlines pass when nothing will.
- PKI: handlers go on; the pool's acquire timeout and PostgreSQL's deadlock
  detection end the waits that cannot end otherwise. A statement need not fail
  and a client need not go away.

## Proofs

The runs check small instances; the theorems below hold for every value of the
constants: any number of threads, stations, messages, requests and frames, any
ladder, cap, timeout and bound. Each is proved from an inductive invariant, which
the right column names, with a case per action.

| Theorem | States | Rests on |
|---|---|---|
| `TypeCorrect` | `Spec => []TypeOK` | `InnerOK` (the fields behind the lock) and `GuardOK` (the guards) apart, since most lock sections touch one of them |
| `HolderTracksKey` | `HolderIffArmed` | each lock section sets deadline, holder and stuck report together |
| `KeyedRigIsArmed` | `KeyedIsArmed`, when no reply is lost | the same; `daemon_lost_reply` is the counterexample without the hypothesis |
| `OnlyHolderExtends`, `EdgesFollowKey` | `DeadlineMovedByHolder`, `EdgeIsTransition` | one lemma per lock section |
| `TncImplementsSharedPtt`, `RepeaterImplementsSharedPtt` | `ArdopSpec => Spec`, `RepSpec => Spec` | every step is a step of the general client or leaves the PTT alone |
| `VanishedHostHoldsNoKey` | `GoneHostHoldsNoKey`, with any number of command connections | `HostKeyInv`: the host's key is marked in `manual_keyed`, or about to be, as long as the connection stands and no other has unmarked it |
| `ClientsToldTheTruth`, `CarriedOverIsCurrent` | `ToldMeansRunning`, `RelayIsCurrent` | `ToldInv`, `BurstInv`: what each place of the relay thread and of the event loop says of the other |
| `EveryProgramKeepsCore`, `StationEdges`, `KeysEndByRight`, `HandedBackHoldsNoKey` | the PTT properties of the `station` run, for whichever program runs | `CoreInv`, `LoopKeyInv` (a daemon emission's key is its own or nobody's) and `RelayKeyInv` (a live key of the relay's has a guard that answers for it) |
| `LevelsStayUsable`, `HysteresisHolds` | `LevelsUsable`, `HysteresisCounts` | `Sound` (anchor and sending level are mapped and in range, and no mapped level lies between the anchor and a higher recommendation), `CountInv` (streaks against a history of what was decoded) |
| `SenderClaimsNoMore` | `SenderHasEvidence` | `EvidenceInv`: also what is on the air is at most one mapped step above what was decoded, acknowledges only what got through, and is late outside its own window |
| `BufferNeverDrifts` | `BufferIsExact` | `BufferInv`: the count is the queue, the frames in the clients' hands and the worker's, and the value the worker loaded before its `fetch_sub` is at least its frame, so the minimum it takes is the frame |
| `TotalNeverDrifts`, `UndisturbedComesWhole` | `SarTypeOK`, `TotalIsExact`, `UndisturbedIsReturned` | `SarInv`: no candidate held is complete, the total is their sum, and an undisturbed message has one candidate, which holds exactly what arrived |
| `BlocksSurvive` | `PartialsSurvive` | `Shape`: one lemma per handler on the session and the disk it leaves |
| `ContentsNeverMix` | `AssembledIsOffered` | `Story`: which file every identifier stands for, at both ends, on the air and on disk |
| `ReceiptsAreEarned` | `ReceiptIsEarned` | `AllOrdered` (the frames of one transfer are under way in the order in which they were sent), `Cover` and `Heard` (what a sender believes of a receiver, the receiver did), `Vouching` (who vouched for which transfer) |
| `QsyImplementsAgreement` | `QsySpec => ImplementsAgreement` | `QInv`: where a token is on its way from request to acknowledgement excludes every other place, so nobody decides or follows twice |
| `OnlyDecisionsPart` | `ApartMeansUnfollowed` | `Together`: at most one station may still follow, and then to where the other is |
| `RoutesAreSound`, `AmpleRoutesAreSound` | `RoutesLeadThere`, while no tracker is full, and always when a tracker has room for every query | `MeshSound`: the path of every copy of a route request is a walk over links that names each forwarder once per hop and ends at a neighbour of whoever hears it, every forwarder remembers the request's key, and answers and stored routes end at the destination |
| `RecoveriesAreBounded` | `RecoveriesBounded` | `Counted`: a recovery is counted when it begins |
| `DialComesBack` | `DialReturns` | `HomeKnown`: an undisturbed dwell knows the way home |
| `DiallersShareKeys` | `DiallersKeyIsShared` | `LettersOk`: a CONACK under way comes from a station that armed the key and recorded the dialler |
| `OneBundleIsCurrent`, `SuccessIsStored`, `PoolIsNeverExceeded` | `ExactlyOneCurrent`, `RepliedIsStored`, `PkiTypeOK` | `PromotionInv` (a promotion about to commit is the only one and has no rival), `ReplyInv` (also the replies still to be sent or replayed are true) |

**Hypotheses.** The named `ASSUME`s of the modules say that counts, timeouts and
lengths are natural numbers, that sets of stations, messages and requests are
finite, that the two-station protocols have two stations (`PairAssumption`), that
the mesh has a hop limit per node and a tracker of some size, that `None` is none of
the values it stands beside, and that a ladder's bounds are levels. The code gives
all of them by its types and its constructors (`.max(1)`, `Option`, vectors).
Two theorems assume more, and one property says less than it seems to:

- `KeyedRigIsArmed`: no CAT command is carried out with its reply lost. Serial, GPIO and CM108 keying await no reply; rigctld does.
- `RoutesAreSound`: no duplicate tracker is full (`TrackersHaveRoom`). The code's
  holds 1024 keys (`openpulse-mesh/src/lib.rs`). A node that had to forget a query
  would forward it again without a second hop on the path.
  `AmpleRoutesAreSound` draws the hypothesis from the size of the tracker.
- `LevelsUsable` itself speaks only of bounds that leave a mapped level between
  them: `set_level_bounds` accepts others, and then there is no level to be at.

**Induction.** `BufferIsExact`, `TotalIsExact` and the ladder's `next_mapped` need
facts about sums and searches of any length. These are proved by induction over a
set: the numbers for which the fact holds contain 0 and are closed under
successor, so they are all (`Induction`, from the well-foundedness of `<` on
`Nat`). The lemmas on `SumOver` (adding, removing and changing a summand) serve
both the queue and the slots. `SelectSeq` has no definition the prover can unfold;
`Retain` in Sar is the same filter, written as a recursive function over the
places that are kept.

**Choices.** Where the code picks one of several (the first common frequency of a
QSY vote, the next block that is not held), the model has the set of candidates
that qualify, of which there is at most one, and an action takes a member. That
there is one where the code needs one then follows from the action being enabled,
and the proofs need no search of any length.

**Only model-checked.** Everything with fairness (`WatchdogBoundsKey`,
`QueueDrains`, `FramesAreIdentified`, `EventLoopReturns`, `FloodsEnd`,
`ExchangesEnd`): the prover has no liveness and no `ENABLED`. The safety
properties `SentIsDelivered` (mesh), `SessionDelivers` (mail) and
`InitiatorNeverAlone` (rendezvous), whose proofs
need an account of every frame under way that is not written yet, and the type
invariants of the parts not named above.

## Not modelled

- Floating-point signal processing, plugins, forward error correction, channel
  simulation, audio and serial I/O, GPU code: out of a model checker's reach.
- User interfaces, the command-line tools, the programs under `apps`, test
  benches, configuration, logging and encodings: no control worth a model.
- Cryptography is a verdict where a model needs one. Quotas, file names, band
  plans and scores are data or choices.
- Airtime takes no time of its own. SAR fragments are not modelled inside file
  transfer; the data port reads frames whole.
- The KISS TNC keys through SharedPtt's guard and has no other shared state than
  its frame queue. The PKI service's read handlers change nothing.

These take up most of the repository, so the mapped lines are a small part of it;
within the crates named in the table above the control is covered.

Behaviour seen while modelling and not stated as a property:

- Daemon: `PttChanged` for an operator's key can follow the one for its forced
  release. A QSY move does not update the frequency discovery comes home to. A
  QSY REJECT is acted on whatever its token. An expired handshake leaves the HPX
  session open, and Failed is final.
- TNC: with two command connections a vanished host's key can outlive it until the
  deadline. A guard can read the generation of a key the host took in between. ABORT
  and ARQTIMEOUT leave the HPX session open, and DISCONNECTED is sent even if the
  state could not be written. LISTEN FALSE checks and sets in two steps. CONNECTED
  is only ever a reply, so a listening host never hears of a call. A frame that is
  taken while MYID is being written is refused. A `select!` can drop a read that
  has begun, and lose the framing of the data port or part of a command.
- Rate: `lock_level` and `set_level_bounds` keep streaks earned at another level.
- HPX: the recovery counter is not reset by a recovery that succeeds, so a session
  may fail before it has met its limit in a row.
- File transfer: two stations that offer a file at the same time run two
  transfers on one link; the stall deadline also runs while a block is on the air.
- Discovery: a busy channel drops a rendezvous frame that was due; a beacon
  interval of one slot never arms the dwell's deadline.
- Mesh: a route answered from a cache leaves out the node that answered, so a
  route that has passed through two caches is too short for its destination.
- SAR: a leftover of an earlier message with the same key and count can absorb
  fragments of the next. Station ID: one that could not be keyed counts as sent.
- B2F: the receiver counts every proposal when it matches messages, so after a
  rejected one an accepted message fails the session. A frame that the link
  delivers twice is not recognised.
- PKI: two requests with one id can both write, as can a retry of one whose reply
  was not tracked, for one because the handler stopped at the timestamp it reads
  back as a string. An expired tracking row is never replaced, and
  promotions of different bundles share one tracking key.

Next in line for proofs: `SessionDelivers`, `SentIsDelivered` and
`InitiatorNeverAlone`.
