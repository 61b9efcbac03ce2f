# omdrop-awdl: models and proofs

TLA+ models of omdrop-awdl, the Broadcom radio backend of Omdrop: a patched
`brcmfmac` driver that exposes the firmware's AWDL as `awdl0`, and the userspace
that opens bounded discoverability windows on it, keeps the firmware's peer table
and sends files. TLC checks the models on small instances; TLAPS proves the main
safety properties for every value of the constants.

Paths below are relative to the repository. `brcmfmac/` stands for
`src/kernel/drivers/net/wireless/broadcom/brcm80211/brcmfmac/`, `000N` for the
patch `src/patches/000N-…`.

    tlc -workers 2 -config MCWindow.cfg MCWindow      model-check one configuration
    tlapm Userspace_proofs.tla                        check one module's proofs

`PROJECT.json` lists the runs, the source lines each definition translates
(`map`), a broken variant of the code for every checked property (`mutants`),
the hazards the properties are aimed at, the findings and the theorems.

## 1. The system

| Part | State it keeps | Operations | Module |
|---|---|---|---|
| AWDL virtual interface: 0001, 0005, 0008, `brcmfmac/cfg80211.c`, `fweh.c`, `core.c` | vifs, interfaces, `iflist`, the armed vif event, `awdl_vif`/`awdl_pending`/`awdl_attaching`, two wiphy works, the event queue | vendor CREATE and DESTROY, IF_ADD, IF_DEL, timeout, cleanup, another `add_virtual_intf`, detach | `AwdlVif`, `AwdlLink` |
| Discoverability window: `src/userspace/omdrop-discoverable` | `until`, `reason`, `supervisor`, token, `pids`, `start.lock` under `/run` | `start`, `stop`, the detached `__supervise`, its helper children | `Window` |
| Radio backend: `omdrop-broadcom.sh`, `awdl-up` | `election.state`, `election.pending`; in the firmware: AWDL on/off, the PSF template | `radio_up` (rebuild, gate, identity), `radio_tick` (election tracking), `awdl-up` create/reconfigure/reload | `Radio` |
| Peer table: `awdl-peer-watch.py` | the firmware's eight peer entries, permanent neighbours of `awdl0`, the LRU of the watcher | resync, register, evict, forget, release, `--prime` | `Peers` |
| Identity: `awdl_identity.py` | window file, keyring cache, disk pair, self-signed pair and its lock | `select_identity`, `resolve_identity`, `_create_self_signed` | `Identity` |
| Sender's lookup and wake: `send-to-peer`, `ble-airdrop-adv.py` | the port table, one advertiser child per wake, one thread per peer | `peers`, `peer_names`, `wake`, the wait, the run of the sender | `SendToPeer` |
| Transfer: `airdrop-send.py` | the chosen receiver, its connections | Discover, Ask, Upload | planned |
| Flow rings and transmit path: `flowring.c`, `msgbuf.c`, `commonring.c`, 0006, 0007 | rings, their queues and hash, packet ids, outstanding counts, back-pressure | create, enqueue, post, complete, delete, block and wake | `FlowRing` |
| Firmware commands and the device's sleep over PCIe: `msgbuf.c`, `fwil.c`, `commonring.c`, `pcie.c` | the one command slot, posted buffers, the control ring, D3 and deep sleep | command, answer, timeout, posting, suspend, resume | `Command` |
| SDIO bus and bcdc: `sdio.c`, `bcdc.c` | data queue, control slot, sequence window, interrupt bits, clock | transmit, command, the dpc, the watchdog | `Sdio` |
| Firmware signalling: `fwsignal.c` | destination queues, the hanger, credits, suppressed packets | enqueue, dequeue worker, rollback, status, signals | `FwSignal` |
| Everything else | see section 7 | | not modelled |

How they interact:

- `start` runs under `flock` on `start.lock`, does the radio work of `Radio`, writes
  the window's files, spawns a detached supervisor and polls for it. The supervisor
  re-reads the files every interval, runs `radio_tick`, and keeps the helpers
  (mDNS responder, peer watcher, BLE advertiser) alive. `stop` signals supervisors
  and starts. Nothing but the files, pids and signals connects them.
- `radio_up` calls `awdl-up`, which calls the driver's CREATE; the driver asks the
  firmware and the firmware's IF_ADD comes back on the event worker. The wiphy mutex
  is held by the vendor command and by the wiphy works, not by the worker; RTNL
  and the wiphy mutex are taken by `register_netdev` inside the worker.
- the peer watcher writes the firmware's table, and the neighbour table to remember
  what it wrote; `send-to-peer` reads that table through `pkexec` and may `--prime`
  one peer from another process.
- the sender, the responder and the advertiser each resolve an identity by themselves,
  beside windows that Omdrop opens and closes.
- a frame for `awdl0` on the BCM4387 goes through `FlowRing`, a firmware command (an IF_ADD
  asked for, an iovar of `Radio` or `Peers`) through the slot of `Command`; both share the
  control ring and the interrupt thread. On SDIO chips frames go through the queues of
  `FwSignal` and, with the commands, through the dpc of `Sdio`. What sits above takes a
  command as a step that succeeds, fails or is never answered, which is what `Command`
  and `Sdio` show of it.

What is hard: a creation's timeout racing its own late answer; detach beside
everything; the shared, unaddressed vif event; signals between any two commands of a
shell supervisor; state files that outlive what they describe; a firmware that forgets,
parks or hangs; locks that some participants do not take; processes killed between two
steps that belong together; reads made outside the lock that decides; in the data path, a
worker and an interrupt thread that share flags without a lock, counts that outlive what
they count, answers that come after their caller gave up, and packets that come back.

## 2. Modules and plan

Built, in this order:

1. `AwdlLink` (what CREATE and DESTROY promise userspace), `AwdlVif` (the driver, shown
   to implement `AwdlLink`), `AwdlVif_proofs`.
2. `Window`; its theorems are in `Userspace_proofs`.
3. `Radio`, `Radio_proofs`. It takes from `Window` that a start's radio work and a
   supervisor's ticks exclude one another (`OneSupervisor` and the flock).
4. `Peers`, whose theorem is the last section of `Radio_proofs`: the two modules can be extended
   together, so the names every specification has are `PeersInit`, `PeersNext`, … here.
5. `Identity`; its theorems are in `Userspace_proofs` too, which extends it together with
   `Window`: the names every specification has are `IdentityInit`, `IdentityNext`, … here.
6. `SendToPeer`, `SendToPeer_proofs`.

7. `FlowRing`, `FlowRing_proofs`.
8. `Command`, `Command_proofs`.
9. `Sdio`, `Sdio_proofs`.
10. `FwSignal`; the proofs of its types, slots and credits are the last sections of
    `Sdio_proofs`, for the two modules can be extended together: the names every specification
    has are `FwsInit`, `FwsNext`, … here. `FwSignalOrder_proofs` extends it with the order.

Each has an `MC` module, with the definitions a `.cfg` cannot hold, and one `.cfg` per
question.

Still to do, most important first:

1. **`Transfer`**: an abstract `Offer` (receiver chosen once, asked once, uploaded only
   when accepted, exit code tells which) and `airdrop-send.py` as its implementation:
   Bonjour and action-frame discovery racing for one lock, the Ask on a connection of its
   own because the receiver tears the Discover one down, exceptions outside the `try`.
2. **A composition of `Window` and `Radio`**, in which what `Radio` takes from `Window`
   is the window itself.

## 3. What each module models

### AwdlVif

A step is one critical section: what runs between two acquisitions of
`vif_event_lock`, or one call that sleeps. `op` is the thread that holds the wiphy mutex
(`brcmf_awdl_add_vif` in `CreateArm`, `CreatePublish`, `CreateAsk`; another
`add_virtual_intf` in `OtherArm`, `OtherWait`, `OtherFinish`), `wk` the firmware event
worker (`WkAddIf` … `WkRemove`), `tmo` and `cln` the queued wiphy works (`Timeout`,
`Cleanup`), `det` the progress of `brcmf_detach`. Vifs and interfaces are objects that are
never allocated twice, so that a freed one that is still pointed to can be told.
`FwAnswer` is the firmware's IF_ADD or IF_DEL reaching the queue, `FwIgnore` an answer
that never comes; events name a bss index, never who asked, as in the firmware.

Switches, each with its reason:

- `OtherOps`: another virtual interface is added beside `awdl0`. TRUE in the safety
  run, FALSE in the live run. That an IF_DEL removes its interface in the end is claimed
  nowhere: at `fweh.c:187` one handled while any vif event is armed is left to whoever
  armed it.
- `Overlap`: a creation may be requested while an IF_ADD is still owed. FALSE in the two
  passing runs; TRUE is the finding `awdl_vif_overlap`.
- `IrqQuiesced`: the bus has stopped its interrupt before `brcmf_detach`, as
  `brcmf_pcie_remove` does. On the reset and failed-attach paths nothing does, and
  `ProducersStopped` fails there; the theorem names the assumption.

Fairness: strong for the worker, the wiphy works and detach, because they wait for
mutexes the kernel hands over in order; weak for a thread that holds the mutex. None for
userspace or the firmware, so a creation must end by the timeout alone.

### Window

The three entry points of `omdrop-discoverable`, command by command. A supervisor is
named by the start that spawned it; a start or a stop is used once. The deadline file
holds the time that remains. TERM is delivered between any two commands: before the trap
is set it kills, afterwards it runs the teardown. `kill_children` is three steps (take the
file, signal, forget), because a trap between them loses the list: `cut` records such
supervisors, and those that `stop` KILLed after ten seconds. omdrop-core's supervisor is
an environment process that uses the same files.

A start polls ten times and gives up (`GiveUp`); the model lets it give up at any poll that
finds no recorded supervisor, however far the supervisor has come. Reading the token and
removing it are two steps (`ReadToken`, `RemoveToken`). Starts, stops, supervisors and
omdrop-core's window interleave without restriction. Three of the script's tests can then be
overtaken, and `raced` records which were: `"late"`, a start gave up on a supervisor that had
read its token; `"stop"`, a supervisor was spawned during a stop; `"core"`, omdrop-core's window
opened after a start had looked for it. `OneSupervisor`, `TeardownIsOwn` and `UpIsOwn` hold
until the first of them, and TLC breaks each of them without that clause: the
three are the complete list. `StopIsQuiet` needs none of it, because it speaks of the supervisors
that had begun when the stop's wait ended (`before`).

Fairness: a supervisor keeps running and time passes. Nothing is asked of a start or a stop,
which may hang or die anywhere.

### Radio

`start` walks through `radio_up` (`Ready`, `Gate`, `Guard`, `Off`, `On`, `Probe`, `Link`)
and `write_identity` (`Identity`), `TickQuiet`, `TickChanged` and `WriteTemplate` are
`radio_tick` with `track_election`, `AwdlUp`, `Create`, `Apply`, `AwdlUpEnds` and `Reload` are
`awdl-up`, whose GETs, interface and `awdl=0` are steps of their own. The firmware may elect,
park, stop answering and drop the link at any time; Wi-Fi off and on removes `awdl0`. A
template is the election state it advertises. It is lost only when the firmware starts over: a
Wi-Fi toggle may keep it, and so does a `modprobe -r` that fails. While the firmware does not
answer, any GET reads as nothing and any SET, the gate's among them, may or may not take effect.

`slips` records how a guard was passed by: `"create"`, the create path met a loaded template;
`"get"`, a GET failed on one; `"race"`, one was written between `awdl-up`'s GETs and its
`awdl=0`. `HungOnlyBySlip` says that a hang has one of these causes since the last reload, and
TLC finds hangs with each of them alone. `"rebuilt"` marks a window under which `awdl-up`
rebuilt `awdl0`: its `election.state` outlives the template it records and `track_election`
then sees no change, so `RecordedAdvertised` speaks of the other windows.

Assumptions: a template SET that fails changed nothing; the two GETs of `awdl-up` are one step;
one `awdl-up` at a time.

Fairness: the supervisor ticks and finishes a write it began.

### Peers

`hw` is the firmware's table, `neigh` the permanent neighbours of `awdl0`. The watcher
resyncs, then hears peers; a full table evicts the head of `registered`, an insertion-ordered
dict. Every `peer_op` and every `ip neigh` is a step of its own, with TERM and KILL
between any two; release goes over the list the watcher holds, so what an interrupted
call did is left to the next resync. `Prime` is the `--prime` process.

`LinkLoss`, `DelFails` and `PrimeAny` (all FALSE in the run and in the theorem's
assumptions) let `awdl0` go down with entries in the table, the firmware refuse a DEL, and
a peer be primed beside a watcher. Each breaks `Recoverable` or `Reachable`: the code relies
on their absence. One watcher runs at a time, which is what `Window` shows of supervisors.

Fairness: the loop runs, every peer keeps sending, and neither a pin nor an ADD is
refused for ever.

### Identity

`Select` is `select_identity`, row by row; `Begin`, `ReadCache`, `TestCert`, `Decide` are the
separate reads of `resolve_identity`, with the environment's windows, caches, revocations
and expiries between them; `Lock` to `Undo` is `_create_self_signed` with its two links and
their undo; `Die` kills a program anywhere, and its flock with it. `OtherPair` places a
complete pair without the lock. The contract of `src/docs/identity-contract.md` is written
a second time, as its tables, in `Contract`, and `AnswersByContract` compares the two.

Abstractions: secrets are the name of the fetch or of the program that made them;
warnings are left out; the time of a call is taken before its reads, as the code does; the
check under the lock is one step; what is on disk does not change during a run; a program
killed between the two links leaves half a pair for good (`crashed`), which the contract
reports and does not repair.

### SendToPeer

`pc` is the main thread, `wk` where it is inside `wake` (spawn, the gap before the `try`,
the reads, the gap before the assignment, stop, reap) and `active` the `with` blocks it is
in: the lookup's, the wait's and the transfer's advert. `kid` is the advertiser child
of each, with what it printed and whether it was TERMed. `th` is one thread per peer
(`Knock`, `Knocked`, `Dial`, `Answer`), which reads `PORTS` while the main thread replaces
it (`Peers`, `KeepPorts`). `Raise` is the TERM handler's SystemExit at any step, `Gone` the
default action of TERM outside the blocks, or KILL.

Time is the event `Deadline`, and an advert's `--seconds` the event `KidExpires`. What one
read of the table shows is any subset of the peers with any of their ports. Command-line
choices are made where they are read. Ctrl-C is left out: it reaches the children of
the process group as well. Gaps where TERM finds an advertiser no frame knows set `cut`;
the docstring of `wake` says the bound survives an interrupt "from the spawn
onwards", and it does but for these gaps.

Fairness: the steps of the main thread and of each thread end by themselves or by a timeout of
their own, the deadline comes and `--seconds` run out. Three calls have no timeout, `pkexec`
(`send-to-peer:233`), `ip` (`:290`) and the sender itself (`:765`): nothing is assumed of the
steps that wait for them (`Calling`), and `Ends` says that the command ends unless it stays in
one of them for ever, and that its adverts end in any case.

### FlowRing

Three kinds of thread meet at a ring: transmitters (`tx[i]`, from the lookup in `Xmit` to
`Enqueue`, `Block`, `Recheck`, `Scheduling`), the txflow worker (`TxwStart`, `Post`,
`PostEnd`, `Create`) and the interrupt thread (`TxStatus`, `RxTxEmpty`, `Trigger`, `Created`,
`Deleted`). `op` is a caller that deletes rings: a peer leaving, or a change of address mode.
Packets are counted: queued, posted, completed, and the driver's own `outstanding_tx`.
`flowMap` and `doneMap` are the two bitmaps the worker and the interrupt thread walk.
A ring's memory (`dma`) is freed by `Deleted`; a deletion that gives up after ten polls zeroes
the count and leaves its packets to complete into whatever has the ring then (0007).

The lookup of a ring and its use are two steps for every thread, since nothing in the code joins
them: a transmitter's (`Xmit`, then `Enqueue`, `Block`, `Recheck`; `msgbuf.c:849-859`) and a
deletion's (`OpLook`, then `OpTest` or `OpClose`; `flowring.c:458-459`). A use of what has gone,
or a second freeing, sets `oops` and ends the behaviour. `NoOops` names who can meet it, by
`Snatched`: a thread that was in that gap when the ring went (`tx[i].lost`). Creation fails for
want of memory or of room (`CreateFails`) or because the bus is found down when the message is
already in the control ring (`CreateUnsent`), and a deletion may not be submitted for the same
reasons (`OpUnsent`, `msgbuf.c:1482-1518`); the driver then frees a ring the firmware has, or
will be told of. `unsent` are those ring ids, for good: the properties say nothing of them.

Two more histories name what `NoStranded` excuses. `starved`: rings the worker left because no
packet id was free, or the mapping failed, while none of the ring's own packets was in flight;
no completion of theirs will schedule them. `late`: rings whose creation was answered before
their first packet was queued, which nobody schedules then (`msgbuf.c:851-855`).

One step each although the code takes more: 0007's test and log in the interrupt thread, the
scan of the sibling rings in `brcmf_flowring_block`, and the test and closing of a ring by the
one caller that deletes.

### Command

`cmdVars` are the caller, from `CmdCheck` (fwil, the bus state) to `CmdTake` or `CmdTimeout`
after `proto_block`; the firmware runs what is in the control ring (`FwRead`) and the
interrupt thread writes the shared answer slot (`RxAnswer`). `slip` is how many commands the
answer handed out is behind the command asked: `trans_id` is never compared, so it is not 0
for ever once a command was given up. Buffers are counted by kind on both sides and in the
rings, and `Post` stops at the first allocation refused or at a full ring. `hidden` is the
tail of the control ring the doorbell never announced: the write succeeded, the bus was
down. `EnterD3`, `D3Acked`, `D3Timeout` and `LeaveD3` are the suspension.

### Sdio

Callers queue and trigger (`TxData`, `CmdSend`), the worker runs the dpc step by step (`Status`,
`Rx…`, `DpcControl`, `TxControl`, `DpcData`, `TxFrames`, `TxUnflow`, `DpcEnd`), one step for each
claim of the host, and `WatchdogIdle` and `WatchdogSleep` take it in between. The window is
`seq`, `max` modulo `Wrap`; `stat` and `ctlerr` are the slot that the caller and the dpc both
empty. `line` are the device's status bits, `ints` those the driver keeps, `nak` a NAK the
firmware has not handled. An error of a round drops what the code drops. `lost` is a history
variable: a failed round forgot (`ints` cleared at `sdio.c:2727`) that frames wait in the device, and the
device has indicated nothing since. With one frame at a time the device always indicates again,
with two it need not, so the run has two.

### FwSignal

`ProcessSkb` gives a packet its slot of the hanger and its place in its destination's queue.
The worker's steps are the code between two releases of the fws lock: it takes a packet and
its credit (`WorkOwn`, or `WorkBorrow` with a loan), hands it over unlocked (`wk.at = "hand"`)
and the bus takes or refuses it (`WorkSent`, `WorkRefused` with the rollback). The firmware
takes a packet or suppresses it (`FwTakes`), and its signals come back in order.
`StatusSuppressed` puts a packet back by number, with the generation the firmware named;
`suppressed` and `supprTransit` hold newer packets back until all have come. `orphan` is a history
variable: the slots of packets that met a full queue, which the code never looks at again.

The firmware is taken at its word: one status for each packet, its credit in the same
header, the packets of an old generation suppressed. Left out: TIM bitmaps and `ac_bitmap`,
the BCMC fifo, MACDESC_ADD, interface states, a second credit map, implied credits.

## 4. Runs

| Run | Instance | What it shows |
|---|---|---|
| `awdl_vif` | 3 vifs, 3 interfaces, 2 bss, `OtherOps` | no dangling pointer, leak, or object freed under the worker; a clean detach |
| `awdl_vif_live` | 3 vifs, 2 interfaces, 2 bss | creations and detaches end; `AwdlLink` is implemented |
| `awdl_vif_overlap` (violation) | 2 vifs, 2 interfaces, `Overlap` | a linked vif is not always a claimed one |
| `window` | 2 starts, 1 stop, 2 helpers, deadline ≤ 1 | one supervisor, own teardowns, no stray child, quiet stop, windows end |
| `radio` | 3 election states, 2 enables | an `awdl=0` on a template has one of three causes; the record is what is on air; a settled election is advertised |
| `peers` | 3 peers, 2 slots | entries recoverable; every peer that keeps sending gets a slot |
| `identity` | 2 programs, 2 fetches, three initial disks | answers follow the contract; the pair is one maker's; no half pair stays |
| `send_to_peer` | 2 peers, 1 own port | one advert; none left; ports kept; adverts end, and the command unless a child without a timeout hangs |
| `flow_ring` | 2 rings, 2 addresses, 2 packets, 1 packet id, 1 deletion or failed creation, no packet after a message was not submitted (`MaxAfter`; the theorems cover any) | a ring that went is used only by who was at it, no packet forgotten but for want of an id or mapping or on a ring that opened first, every stop ends, ring memory outlives its use, counts never too high |
| `command` | 3 commands, 1 given up, 1 suspension given up, 1 allocation refused | how far an answer slips, buffers accounted for, the firmware fed, host and device agree who sleeps |
| `sdio` | 2 data frames, 2 commands, 2 frames in the device, window 3 of 8, 1 fault | a caller is told what happened, no work is lost, data leaves the control frame a credit |
| `fw_signal` | 2 destinations, 2 fifos of 1 credit, 3 packets, queues of 2, 1 sleep, 1 fault | no credit lost, no slot but of a packet that met a full queue, order kept over a sleep, nothing stranded |

Bounds. Three vifs let a timed-out creation, a live one and another interface's coexist;
two bss indices are one for each. Two starts and a stop are the least that can stack two
supervisors, or tear down the other's window; two helpers let a trap fall between two
children. Three election states give a flap to a third state before the second is
confirmed. Three peers on two slots force evictions, and a peer heard again while
waiting. Two programs and two fetches give a cache that is not the window's. Two
peers, one own port and three scopes let a port come, vanish and change meaning between a
knock and an ask, and every replacement of adverts. Two rings let one interface have a
blocked and an unblocked one, and one id lets each ring take it from the other. Three
commands are one given up, one that takes its late answer and one that takes the next's. Two
data frames, two commands and one fault let the slot be emptied from either side while data
drains the window, and let the sequence wrap. Three packets over two fifos let a destination
have one coming back, one waiting and one in the worker's hands, and one fifo lend to the
other. `awdl_vif`, `identity`, `flow_ring` and `fw_signal` use symmetry of interchangeable
objects; runs with liveness use none.

Deadlock is checked in `radio`, `peers` and `identity`, whose environments always move.
The others set `CHECK_DEADLOCK FALSE`: a detached driver, a used-up set of starts and
stops, and a command that has ended do stop; so do the four data-path models once their
bounded inputs are used up. `FlowRing`, `Command`, `Sdio` and `FwSignal` check safety only:
that work which could be done is always in somebody's hands (`NoStranded`, `NoLostWork`,
`NothingStranded`, `StopEnds`) is stated as invariants, which need no fairness.

Each `TypeOK` documents its module's variables. No run spends a property on it: the type
theorems of section 5 prove it for eight of the modules.

## 5. Proofs

| Module | Theorems | Argument |
|---|---|---|
| `AwdlVif_proofs` | `TypeCorrect`, `ClaimIsExclusive`, `LinkRefinement` (no other interfaces), `QuiescedProducers` (interrupt quiesced) | `ClaimInv`: `attaching` holds exactly from the worker's claim to the end of the attach or of the cleanup of `failedIfp`, with the creation pending all along, so the timeout defers and no other path frees the vif. `LinkInv`: a creation is pending beside a registered `awdl0` only between its registration and the clearing of `awdl_pending`, and a registered `awdl0` is listed, so every step is one of `AwdlLink` or a stutter. |
| the same, pointers and owners | `PointersAreLive`, `DeferralIsOwned` (`~Overlap`), `VifsAreOwned`, `DetachLeavesNothing` (`~Overlap \/ ~OtherOps`) | With one IF_ADD under way at a time (`OneAdd`), the armed event is the pending creation's or the other operation's (`Armed`), vifs and interfaces name each other and a linked pending vif is the worker's or the cleanup's (`Linked`), and every live interface but a failed one is in its slot (`Listed`). Overlapping requests break the first two; `Owners` keeps what is left of them, that a live vif is pending, about to be published or an `awdl0`'s, and `Slots` what detach needs. |
| `Userspace_proofs`, of `Window` | `TypeCorrect`, `OnlyOneSupervisor`, `NoStray`, `TeardownOwn`, `StopQuiet`, `UpOwn`, `CoreUntouched` | `IInv` ties the lock to the running start (`LockInv`), the token to the start that still polls (`TokenInv`), the recorded pid to the one booted supervisor (`RecordedInv`, `FileInv`), the end of a stop to the absence of supervisors (`StopInv`), and `opened` to who is up (`OwnInv`, `CoreInv`, `QuietInv`). All but the first of these (`CalmInv`) hold until a test is overtaken (`raced`); `BaseInv` is what survives that. `OneSupervisor` is not inductive: a supervisor at its token check must already be known to be the only one whose token is still there. `ChildInv` says which children a point of the teardown may still leave, and `BeforeInv` that those a stop waited for stay gone. |
| `Radio_proofs`, of `Radio` | `TypeCorrect`, `Hysteresis`, `GateSafe`, `RecordSafe` | `WriteInv`: one process at a time is between observing a state and writing it; what it will write is the last observation and, over a record, the one before as well; what is pending is the last one. `GateInv`: a template under the gate's toggles, or under an `awdl-up` about to write `awdl=0`, slipped past a guard. `RecordInv`: the record is the loaded template from the start's write on. |
| `Radio_proofs`, of `Peers` | `Resyncable` | `NeighbourInv`: the neighbours cover the table, and the peer in hand has its neighbour before the ADD and its table entry gone before the unpin. |
| `Userspace_proofs`, of `Identity` | `IdentityTypes`, `OneMaker`, `WholeOrNone`, `WholePairStays`, `AnswersFollow` | `PairInv`: the lock is held exactly in the creation's steps, a program between its links made the key that is there and no certificate is, and half a pair has such a program or a death behind it. `ReadInv` (in `TypeInv`) keeps what each program read; `SelectIsContract` compares the code's order of tests with the contract's rows on every value those reads can have. |
| `FlowRing_proofs` | `TypeCorrect`, `CountIsSafe`, `StopIsTemporary`, `RingsExist`, `NoPacketForgotten`, `MemoryOutlivesUse` | Whoever is at a ring is at one of `flow->rings` (`AtRing`). The effect of every step on queues and counts is a lemma of its own. `StopInv`: a stopped interface has a blocked ring or a transmitter about to look again at one, and a blocked ring's queue is long enough for its dequeueing to pass LOW; opening, removing and completing on *other* rings is what makes it hard. `LifeInv`: a ring whose messages were all submitted is at most once among the queued creations, the control ring and the answers, its state says which may name it, and a ring the firmware holds has its memory and an owner in `flow->rings`. `RingsExist` adds `UsedExist`: a transmitter that has not lost its ring has one. For `NoStranded` itself: a worker or an interrupt thread that lets go of a ring with a queue leaves a packet of its own in flight, because the driver's count is never too high (`NeverOvercounted`), or an id it could not have. |
| `Command_proofs` | `TypeCorrect`, `SlipIsBounded`, `NoBufferLost`, `ReceiverIsFed`, `HostAndDeviceAgree` | `InOrder`: commands still to be read are younger than the answers still to be taken, and these than the last one taken, so an answer only comes forward. `SlipInv`: the distance from the last answer to the last command is at most the commands given up, and one more while one waits. `LostInv`: that distance, the buffers never read and the one not read yet are together at most the commands given up and the one that waits, which is why packet ids cannot leak twice for one command. `Count` of a ring after each kind of step is a lemma. `SleepInv`: a D3 message, or its acknowledgement, is under way once and for the suspension at hand, and a wake-up is ahead of it. |
| `Sdio_proofs` | `OutcomeIsTrue`, `NoTriggerLost`, `NakIsRemembered`, `CreditIsKept` (`Glom = 1`, two credits reserved), `NothingLeftUndone` (two credits reserved) | `SlotInv` says at each point of the dpc who may still empty the slot. `SkipInv` follows a NAK from the firmware through the device's bits to the driver's. `WinInv` bounds the distance of `seq` and `max` below half the modulus, so that the code's 8-bit test of the sign is the true one (`AheadFacts`). `FrameInv` and `SendInv` say at each point of a round which status bit, flag or later step of it still has the frame that waits; the round's last step then triggers another or has nothing to do. |
| `Sdio_proofs`, of `FwSignal` | `FwsTypes`, `SlotsAlwaysHeld`, `CreditsAlwaysKept`, `NothingAlwaysStranded` | `Places`: the queues, the worker's hands, the bus, the air, the signals and `orphan` share no slot and hold none twice, so that a step that takes a packet from one place and puts it in another keeps the others. `Transit`: the counters of a destination are no more than its packets in flight. `Loans`: what is in flight of a fifo and of the fifos it borrowed from balances `borrowed`; the sums over fifos are cardinalities of sets of pairs, so that adding or returning one credit is adding or removing one element. `Rested` adds what the worker relies on when it goes to sleep: a fifo with credit is in the map, a fifo it has passed in this round has nothing it could send, or the work is queued again, and what it is handing over is counted. |
| `FwSignalOrder_proofs` | `OrderAlwaysKept` | `OrdInv`: the packets of a fifo that the firmware will still take are in five places: underway with the firmware's generation, suppressed and back in the queue, on their way back, underway with the generation before, delayed. Each place's numbers are older than the next place's, and each place is itself in order (`Order`), and all are younger than the last one taken (`Bounds`). `OneSleep` follows the generation from the firmware through the signals to the driver and the packets: the MAC_CLOSE is read before the first suppressed packet. `Awaited`: while a destination is suppressed, its counter is what is still to come back, which needs `transit` to be exact. `Latest`: a new packet of the second generation is handed over only when no older one waits to be sent again. The property asks for an exact counter only in the last state of a step; `CalmStep` says that a counter that is exact now always was, for it only ever drifts down. |
| `SendToPeer_proofs` | `TypeCorrect`, `OneAtATime`, `NoneLeft`, `WakeLasts`, `PortKept` | `ScopeInv`: at most one scope is entered, which one the program point allows, and where a wake can be under way. `KidInv`: before the end a live advertiser is known or just starting, so with one scope there is one; on the way out it is known or told, unless TERM came in a gap. `SendInv`: an advert that said a word is one nobody ended before the end. `ThreadInv`: a thread under way tries the port in the table unless a read moved it. |

Every theorem holds for all values of the constants under the named assumptions and the
switches in its statement: `~Overlap` and the like say what the
code relies on others for, and with each switched on TLC finds the property violated. `Reserve = 2`
is the two credits written into the code (`TXCTL_CREDITS`, `sdio.c:664`); nothing but those proofs needs them. The type theorems are used by the others. `UpOwn`, `CoreUntouched`,
`Hysteresis`, `WholePairStays`, `WakeLasts`, `QuiescedProducers`, `LinkRefinement`, `DeferralIsOwned`,
`NoTriggerLost` and `NakIsRemembered` prove properties no passing run repeats. What stays with TLC:

- liveness (`CreationEnds`, `DetachEnds`, `WindowEnds`, `TracksElection`, `Reachable`, `Ends`)
  and the fairness part of `ImplementsLink`, which TLAPS does not reach;
- the eviction order and the type invariant of `Peers`, whose `Remove` is recursive on a
  sequence: a proof needs induction over data, which TLAPS does not reach here.

The inductive invariants were checked by TLC on the runs' instances before they were proved.

## 6. Findings and known limits

- `awdl_vif_overlap`: `brcmf_awdl_timeout` takes a linked vif for a claimed one. A late IF_ADD
  of a creation that timed out, handled between arming the event and publishing
  `awdl_pending` of the next, leaves `awdl_pending` set for good: CREATE answers -EBUSY
  until the driver is unloaded.

Each of the following is behaviour of the code that a constant of a model, or the property
named, shows; the runs exclude it by that constant, to see what else could go wrong:

- Window: a second press during the last second of an expired window is answered "extended"
  (`omdrop-discoverable:401`) and then torn down. `stop` cancels starts after it waited for
  supervisors, so one spawned in between outlives it, and a start that gives up on a supervisor
  that has read its token leaves it running beside the next start's (both in `raced`).
  TERM between the fork of a child and the line that records it leaves the child
  (`:113`; `NoStrayChild` speaks of recorded children).
- Radio: `awdl-up`'s create path writes `awdl=0` without asking for a template, after a Wi-Fi
  toggle or a failed `modprobe -r`; both guards read a failed GET as permission
  (`omdrop-broadcom.sh:137`); `--reload` under an open window leaves an `election.state` for a
  lost template (all in `slips`).
- Peers: `awdl0` going down flushes the neighbours and not the firmware's entries (`LinkLoss`); a
  peer primed beside a watcher is in no LRU (`PrimeAny`).
- Identity: the pair is tested outside the lock, so a program that starts while another creates
  the pair may report `self-signed-half-pair` (`awdl_identity.py:547`); one killed between the
  two links leaves such a pair for good (`:500`).
- SendToPeer: TERM in the gaps of `wake` (`cut`).
- AwdlVif: an IF_DEL handled while another operation's event is armed removes nothing
  (`fweh.c:187`); if2bss keeps a mapping when an AWDL attach fails (`core.c:899`, not modelled).
- FlowRing: a ring that goes between lookup and use is used all the same (`msgbuf.c:849`,
  `flowring.c:459`, `oops` with `Snatched`); a ring whose deletion could not be submitted is freed
  under the firmware (`unsent`); a first packet queued after the answer to its ring's creation
  waits for the next one (`late`); `brcmf_flowring_create`'s -ENOMEM
  is taken for a ring id (`flowring.c:146`; the model drops the packet); when the worker finds
  no packet id or mapping at a ring with nothing in flight, nobody returns to the ring until its next
  packet (`starved`).
- Command: answers stay one behind after a command was given up (`slip`, bounded by
  `SlipBounded`); once every posting of event buffers was refused no event can come to post
  them again; after a suspension that was given up the device may sleep under a bus that is up
  (`PowerAgrees` holds until then).
- Sdio: glommed transmission checks the reserve per batch (`Glom = 2` breaks `KeepsCredit`); the
  watchdog may put the bus to sleep between two claims of a dpc, whose frames then fail; a round
  that fails forgets that frames wait in the device until it indicates another (`lost`).
- FwSignal: the stop flag is the interface's, so one short queue restarts the stack while
  another is full, and a packet for a full queue keeps its hanger slot for ever (`orphan`);
  a packet the bus refuses and whose queue has filled meanwhile is taken off the transit counter
  twice (`fwsignal.c:2070`, `:1470`), after which newer packets need not wait for older ones
  (`InOrder` excludes it; four packets to one destination show it);
  a rollback schedules nothing (`NothingStranded` excludes refusals);
  MACDESC_DEL flushes a queue without touching `fifo_enqpkt`, the delay map or the stop flag; a
  second sleep may turn the one-bit generation round (`InOrder` speaks of one).

## 7. Not modelled

- **Transfer**: planned above. **if2bss** and the receive path.
- **Upstream driver code** (scan, connect, AP, P2P, USB, probe and firmware loading, register
  access, DMA layout): vendored from the Asahi kernel; only what AWDL shares with it is kept.
- **Of the data path**: TIM and APSD, the BCMC fifo, receive reordering, glommed receive,
  save-restore sleep, bus removal, the mailbox in device memory, firmware crash and reset.
- **Action-frame logging and forwarding, vendor instrumentation** (0003, 0009–0014): no state
  of the link.
- **Formats and parsers** (`mkpsf.py`, `brcm_iovar.py`, `awdl-resolve`, `awdl-af-parse.py`,
  `awdl-election.py`, `awdl-peers.py`, `awdl-stats.py`, `awdl_debug.py`): pure functions and I/O.
- **mDNS responder and adverts' contents**: stateless.
- **omdrop-core**: another repository; `Window` and `Identity` take from it what this code and
  `src/tests/test_core_coexistence.py` expect.
- **Packaging, polkit, DKMS, `src/omarchy-pkgs`**: static.
