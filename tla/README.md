# A formal model of BitDust

TLA+ models of the state machines that carry BitDust, a peer-to-peer backup
program (Python 2, Twisted), with the TLC configurations that check them on small
instances and TLAPS proofs of theorems about them for instances of any size.

BitDust has hardly any unit tests. It is made of some forty state machines
(`src/automats`) that post events to each other through the reactor, so what goes
wrong in it is an order of events nobody thought of. That is what is modelled.

Contents: 1 the system, 2 the modules, 3 how model and code correspond, 4 the runs,
5 fairness, 6 the proofs, 7 what was found, 8 what is not modelled, 9 the plan.

## 1. The system

A node is a *customer*, who cuts backups into blocks, codes each block into data and
parity pieces with an erasure code and uploads one of each to every one of his
*suppliers*; and it is a supplier for others. Everything runs in one thread, the
Twisted reactor: a handler is atomic, and interleaving happens between handlers.

| component | state it keeps | operations and partners | hard behaviour | what makes it correct |
|---|---|---|---|---|
| services (`services/local_service.py`, `driver.py`) | state of each service, `NeedStart`, `NeedStop`, `result_deferred`; the batch in progress | start, stop, restart of one or all, config switches, shutdown; each service starts and stops components below | slow start and stop, requests that cross, dependents going down, one batch at a time | a service runs only on running services; every attempt has one outcome; every batch ends |
| outgoing packets (`transport/packet_out.py`, `gateway.py`) | state, items (one per transport), callbacks, queue of packets | outbox, join of a second caller, transports report registered, finished, cancelled; replies from `packet_in` | replies, timers, cancellations and transports racing; two transports at once | one final status, every callback at most once, the packet leaves the queue |
| throttle (`customer/io_throttle.py`) | for each supplier a queue to send and one to request, delayed calls, failed ids | queue a file, run the queue, answers, timeouts, delete a backup, delete a supplier | resends while the first copy lives, a loop that hands itself over, removal under iteration | the window holds, the loop never dies, every packet is answered or reported |
| data sender (`customer/data_sender.py`) | READY, SCAN_BLOCKS, SENDING; the two matrices of `backup_matrix` | scan and queue, mark what was stored, remove local files | answers of a supplier who was replaced | a local file is removed only when its supplier has confirmed the piece |
| maintenance cycle (`storage/backup_monitor.py`, `backup_rebuilder.py`, `customer/list_files_orator.py`) | state, remembered suppliers, `RestartAgain`; backups to rebuild | FIRE_HIRE, LIST_FILES, LIST_BACKUPS, REBUILDING | restarts and changes of suppliers in the middle of a cycle | each change of suppliers is noticed once and clears the right column |
| hire and fire (`customer/fire_hire.py`, `supplier_finder.py`, `supplier_connector.py`) | list to dismiss, connectors, list of suppliers | hire, substitute, dismiss; requests and acks with each supplier | answers that belong to an earlier request | as many suppliers as wanted, nobody twice, every dismissed one told |
| erasure coding (`raid/*`) | none (pure), a pool of workers | make, rebuild, read a block | what can be rebuilt from what | rebuild finds every piece that the maps allow |
| backups and restores (`storage/backup.py`, `restore_worker.py`, `restore_monitor.py`, `backup_control.py`) | current block, requested packets, jobs and tasks | run, abort, delete; restore block by block | abort while requests are out | every job ends in one result |
| catalogue (`storage/backup_fs.py`, `backup_matrix.py`, `index_synchronizer.py`) | tree of files, remote and local matrix, revision of the index | pull, push, merge | index newer on either side | the newer index wins |
| incoming packets (`transport/packet_in.py`, `callback.py`) | state of each transfer | register, unregister, decrypt, cache identity, dispatch | identity fetched while the file arrives | each packet is dispatched once |
| transports (`transport/network_transport.py`, `tcp/*`, `udp/*`, `proxy/*`, `http/*`) | sessions, streams, blocks in flight | send file, receive file, connect, cancel | windows, resends, half-open sessions | every file transfer is reported once |
| presence (`p2p/p2p_connector.py`, `network_connector.py`, `contact_status.py`, `propagate.py`, `ratings.py`) | connectivity, status of each contact | check the network, propagate identities | many timers | a contact that answers is shown as online |
| packet service and customers (`p2p/p2p_service.py`, `supplier/*`) | customers' files and space | dispatch by command, store, retrieve, list, reject | quota | a customer never gets more than agreed |
| queues of producers and consumers (`p2p/p2p_queue.py`) | queues, pending events, consumers | push, read, close | a consumer closed while an event is pending | each event reaches each consumer once |
| start and end (`main/initializer.py`, `shutdowner.py`) | state | boot and stop everything | shutdown during boot | the program always ends |
| identity, keys, chat, broadcasting, coins, DHT, interfaces, system | various | mostly I/O, or unfinished at this commit | | |

`PROJECT.json` lists every component with its sources, and the hazards of the code,
each at its line, with the properties that would catch it.

## 2. The modules

| module | what it is |
|---|---|
| `Driver` | `services/driver.py`: batches of starts and stops, restart, callbacks between services; the queue of events |
| `LocalService` | the state machine of every service, composed with `Driver` and with those who make requests |
| `Layers` | abstract: what services promise each other, without events and batches |
| `PacketOut` | the state machine of one outgoing packet with the gateway around it |
| `Delivery` | abstract: what `gateway.outbox` promises its callers |
| `SendQueue` | the sending half of `SupplierQueue`: operators from a queue to a queue |
| `DataSender` | the data sender on top of the queues, with the change of a supplier |
| `RaidCodes` | `raid/`: what `rebuild()`, `raidread()` and `Fixable()` find, and the closure it should be |
| `RaidWorker` | `raid_worker.py`: operators from a pool of processes to a pool of processes |
| `BackupRebuilder` | the rebuilder over the worker, with requests, uploads, the monitor's cycle and a job of the user |
| `ConnectorEvents` | what a `supplier_connector` does with each event, shared by the two below |
| `SupplierConnector` | the connectors of a set of customers to one supplier |
| `CustomerSpace` | `p2p_service` and `customers_rejector` of the supplier, and the two files he keeps |
| `Contract` | customers and supplier together, over packets that are lost or late |
| `SupplierLists` | operators on lists of suppliers |
| `Hiring` | abstract: what `fire_hire` promises `backup_monitor` |
| `FireHire` | `fire_hire`, `supplier_finder` and the connectors of all suppliers |
| `BackupMonitor` | the maintenance cycle over what `Hiring` promises |
| `RequestQueue` | the requesting half of `SupplierQueue`, as operators |
| `RestoreWorker` | a download, over the request queues, the incoming transfers and the decoder |
| `UdpStream` | both ends of one file over UDP, the datagrams between them, and the two gateways |
| `Lists` | one operator: the elements of a sequence that are in a set |
| `MC...` | instances: `MCServices` (`Pair`, `Fork`, `Tower`: the real dependencies of five services), `MCPacketOut`, `MCDataSender`, `MCBackupRebuilder`, `MCContract`, `MCFireHire`, `MCBackupMonitor`, `MCRestoreWorker`, `MCUdpStream` |
| `..._proofs` | theorems about `LocalService`, `PacketOut`, `DataSender`, `BackupRebuilder`, `Contract`, `FireHire`, `UdpStream`; `MonitorRestore_proofs` about `BackupMonitor` and `RestoreWorker` |

What EXTENDS what is what calls what: `LocalService` over `Driver`, `DataSender` over
`SendQueue`, `BackupRebuilder` over `RaidCodes` and `RaidWorker`, `Contract` over
`SupplierConnector` and `CustomerSpace`, `RestoreWorker` over `RaidCodes` and
`RequestQueue`. Where a composition would be too large, a component stands on an
abstract specification, and the detailed one is shown to implement it:

* `SendQueue` uses of an outgoing packet what `Delivery` promises (one of four
  endings, once), and `PacketOut` implements `Delivery`;
* `BackupMonitor` EXTENDS `Hiring`, and `FireHire` implements `Hiring`;
* `UdpStream` keeps toward its gateways what `PacketOut` assumes of transports: one
  registration, then one verdict;
* `LocalService` implements `Layers`, the reason why a component may take for granted
  that the services below it run.

## 3. Model and code

**Events.** `Automat.automat()` is `reactor.callLater(0, ...)`: an event goes to the end
of a queue (`queue`, in `PacketOut` `events`, in `RestoreWorker` `calls`) and is handled alone; an
action of the module is the handling of one event with every call the handler makes.
An event no state handles is consumed (`Ignore`), with the Deferred it carries.
Timers of seconds and minutes come when the queue is empty: they are long beside
the time in which the reactor empties it.

**Services.** `state`, `needStart`, `needStop` and `callback` are the attributes of
`LocalService`; `starts` and `stops` are the Deferreds that slow `start()` and `stop()`
have returned; `batch`, `waiting`, `restarts` and `timers` are `_StartingDeferred`,
`_StopingDeferred` and the chains of `driver.restart`. A service of `AsyncStart` answers
through a Deferred, one of `MayFail` may fail, one of `MayBeMissing` may not be
installed. A loop over the dict of services takes any order (`Orders`). Bounds:
`MaxQueue` (no new request from outside while the queue is that long), `MaxRestarts`
(restarts waiting), `MaxStops` (unfinished stops of one service).

**Packets.** `state`, `items`, `transfer`, `callers`, `reports` are those of a packet;
`sending` is what the transports have in hand, `replies` and `arrived` the replies that
came. Between `register_file_sending`, `unregister_file_sending` and
`cancelled_file_sending` a transport does as it likes, in any order that its own calls
allow; with `OtherHost` it cancels under another host name than the one it was given,
which `_pop` compares and `on_cancelled_file_sending` does not. Simplifications: all
callers want the same replies (`Wanted`), one contact per transport, the branch for
contacts in the local network, which is commented out, is absent, at most one `cancel`
is pending, and a packet has `MaxReplies` replies. The timers fire at any time, which
covers every length of `response_timeout`.

**Data.** A `SupplierQueue` is a record; `RunSend`, `SendingTask`, `DoSend`,
`SupplierSendFile`, `OnFileSendAckReceived`, `OutboxStatus` and `DeleteBackupSendings`
are operators from the queue before to the queue after, the failures they report
included. `files` is the disk, `stored` the column of the remote matrix at one position
of the list of suppliers, `confirmed` a history of true Acks, `stale` what a queue has
marked after it was removed from the throttle. `waiting` counts the live
outgoing packets of each piece: a piece that was given up is sent again while the first
copy may still be answered. When the supplier is replaced (`current`), `backup_monitor`
notices it later (`known`) and removes the queue from the throttle (`erased`); the queue
itself goes on, as in the code. Failures are reported in the order of the queue,
where the code takes that of a dict. Bounds: `MaxLoops` (more delayed calls of
`SendingTask` count as so many), `MaxCalls` (callbacks delayed while other events are
handled), `MaxFaults` (packets late, refused, failed or unanswered). The supplier is
taken for online, and no supplier comes back to a position he has lost. `DeleteBackup` is
that of a backup that is in the index and is not being made; of others nothing is deleted.

**Rebuilding.** A piece is a tuple of backup, block, D or P, and position; the matrices
and the disk are sets of pieces. The chain of `_start_one_block`, `_block_finished` and
`_finish_rebuilding` is one message that travels through the queue and the worker.
`index` counts `blockIndex` from 1. Simplifications: the limit of 16 requests for each
supplier is not reached; local copies are kept; the remote column, read again, is what
it was; `DeleteBackup` and the stop of `service_rebuilding` are absent. Bounds:
`MaxEvents` (stops, lists of files, jobs, failed requests, changes of presence),
`MaxWaiting` (the list of backups when a cycle begins).

**Erasure coding.** A list of 0 and 1 is the set of the positions of its 1s, a file is
there or not. The loops `while progress` are as many rounds as there are pieces: a
round that finds nothing changes nothing, and a round that finds something can be
followed by at most as many others as pieces still lack. That they suffice is proved.

**Contracts.** A customer's connector is its state and what it has sent; `saved` is the
supplier's file of customers, `quotas` and `free` are his space file; they are written one
after the other, with crashes between; the list of `customers_rejector` is shared with the file writer until
the next `update_customers`. The connector's own state file is never read back to any
effect, and is absent. At the start what was donated was free (`FreeBefore`). Bounds:
`MaxAsked` (requests of a customer), `MaxTrouble` (packets lost or late, crashes).

**Suppliers.** `FireHire` has one record for each connector, the state of the finder and
the list of suppliers; needed space is reduced to "the configuration differs", who is
online is decided when it is read, `connect_list` and `dismiss_results` are kept where
they are read. What a lookup finds and what an answer says is handled when it comes;
in the code it is posted first. `MaxWaiting` is the number of events that may wait when
such a thing comes from outside, and that it may so overtake: the run takes 1, the
theorems any number. Other bounds: `MaxAttempts` (2, in the
code 5), `MaxTrouble` (changes of settings, suppliers called bad, and such).

**The cycle.** `BackupMonitor` has one backup and one piece for each position; reading
the local files takes no time; the 10-minute check-up is taken to restart the cycle;
what comes from outside waits until the queue is empty, but a list of files comes in any
state of the orator. `MaxTrouble` bounds the changes.

**Restore.** One download; the answers come within the 100 rounds of
`AlreadyRequestedCounts`, the disk never fails, identities are known; `Correctable` is the
number of pieces that may lack. `KeepsCopies` is the setting, and stands for the rebuilder that
works on the same backup as well, for which `doRemoveTempFile` also keeps the files: it is
taken to do so all the time or never. `troubled` is what the faults so far do to the download.
The immediate `RunRequest` of `DoRequest` is the next
run of the queue. `Presence` are the sets of suppliers that may be online; faults
(`MaxFaults`) strike at block `FaultBlock`.

**Streams.** Rates, round trips and missed acks are a choice of how many blocks go
in one group (`PerAck`, at most `Buffer`); timeouts pass only when nothing can come;
of several resends in one ack one is made. When the limit of the rate is reached, the
first blocks of a group of new ones go out alone; a group with old blocks goes out whole.
A gateway may answer a registration with None, or the call fail: such a transfer has no
number, and the gateway is never told of it. Data blocks are repeated, acks are
not. While `MaxFlight` datagrams are under way no timer sends more. A session is connected or closed; the handshake is
absent. `MaxFaults` are datagrams lost or repeated, `MaxTroubles` pauses, cancellations,
registrations that get no number, and sessions that close.

## 4. The runs

All of them pass.

| run | instance | properties | distinct states |
|---|---|---|---|
| `ServicesPair` | 2 services, one on the other, slow, failing, missing, restarts | `TypeOK` `OneOutcome` `AnswerOnce` `Resolves` | 95 599 |
| `ServicesFork` | 3 services, one on two | `DependenciesUp` `NotLeftBehind` `KeepsPromise` | 162 913 |
| `ServicesRestart` | 5 services, real dependencies, boot, then restarts | `AllUpInTheEnd` | 1 194 |
| `PacketWide` | 2 transports, 2 callers, 2 replies, Ack wanted | `TypeOK` `OneStatus` `PoppedItem` `Delivers` `Finishes` | 237 310 |
| `DataUpload` | 3 pieces, window of 2, 1 supplier, 2 faults, deletion | `TypeOK` `LoopAlive` `Uploads` | 122 526 |
| `DataReplaced` | 2 pieces, window of 1, the supplier is replaced, 1 fault | `KeepsCopy` `Told` | 703 533 |
| `Rebuild` | 1 backup of 2 blocks, 2 suppliers, one perhaps missing, 1 process, 2 events | `TypeOK` `Books` `StopWorks` `Healed` | 194 394 |
| `Contract` | 2 customers, 2 requests, 2 troubles | `TypeOK` `SpaceConserved` `Agrees` `Reported` | 172 205 |
| `Suppliers` | 3 users, 2 suppliers wanted and 1 there, the setting may change to 1, 2 attempts, 1 trouble, 1 event overtaken | `Promise` `Replaced` `TypeOK` `Awaited` | 711 800 |
| `Monitor` | 2 users, a few lists of suppliers, 1 trouble of each kind | `TypeOK` `Awaits` `Relisted` | 184 585 |
| `Restore` | 2 blocks, 2 suppliers, 1 piece may lack, 1 fault | `RestoreTypeOK` `Settled` `Downloads` | 431 976 |
| `Stream` | 3 blocks, groups of 2, 1 fault and 1 trouble | `TypeOK` `Verdicts` `Ends` `FileArrives` | 91 574 |

`Rebuild` also evaluates, as an assumption, `SameAnswersOfFour`: for all 256 rows of a
block of four suppliers, `rebuild()` and `raidread()` find exactly what the closure says.

Why the bounds are enough. Services: two are needed for a request to cross with an
answer of another service, three for the two dependencies of one service to come up in
either order, five for the longest chain of the boot; two events in the queue let each
request meet the answer to the one before. Packets: a second transport makes
`isMoreItems` matter, a second caller `on_outbox_packet`'s merge, a second reply the
duplicates. Data: three pieces and a window of two make a piece wait; two faults let a
piece fail, be sent again, and the late answer of the first copy meet the second. The
window of `DataReplaced` is one, so that one of two pieces is refused at first.
Rebuilding: two blocks make the chain go on, and let one block be rebuilt while
the other cannot be; one process makes the job of the user stand in the way; two events
let a stop meet a list of files. Contracts: two customers compete for the space, a second
request overtakes the first, two troubles let a crash follow a loss. Suppliers: with
three users one can be hired, dismissed and hired again while another keeps his place;
two positions let the finder fill one while the other is dismissed; one trouble for a
run without, one for a run with a change in the middle; one event is what the answer of one
user must overtake to be taken for that of the next. Of the users who are no suppliers yet
none differs from another (symmetry; the run has no liveness). Restore: two blocks let a late
piece of one meet the other; the fault is at the first of them, so that the other is restored after it. That local copies are kept was checked once (531 790 states). Stream: three blocks in groups of two leave a last group that is not
full, one datagram in flight can be overtaken by its own repetition; four blocks, and a
`MaxFlight` of two, were checked once for the safety properties.

Every property was seen to fail on a plausible bug: each has a mutant, an operator of the
same module that drops a guard, forgets a reset or swaps an order ("Mutant ..." in
the comments), listed in `PROJECT.json`.

Deadlock is not checked where the program really may stop: when it has shut down or a
request is in nobody's hands (services), when the packet is gone, when the worker was
killed (`Rebuild`), when customer, supplier or `fire_hire` wait for a user who does
nothing, when the download or the stream has ended. The data sender and the monitor never
stop, and their runs check deadlock.

## 5. Fairness

* Services: the reactor handles every posted event; a Deferred that a slow `start()` or
  `stop()` has returned fires some time; restart's timer fires. No request is ever due.
* Packets: the reactor handles every event, the fetching of an identity ends, and
  `packets_timeout_loop` and the timers of the machine, which re-arm themselves, go on.
  Nothing is asked of the transports, which may keep a file for ever.
* Data: the delayed calls are made, the timers of the data sender scan again in READY
  and when the queues are empty, `sendTimeout` passes, and the supplier answers in the
  end all but `MaxFaults` packets. Without the last `Uploads` could not hold: the code
  sends again for ever to one who never answers.
* Rebuilding: events are handled, processes end, requests are answered, pieces are
  sent, timers fire, the monitor goes on with its cycle. `Healed` supposes that all suppliers
  are there and answer, and that the worker was not killed.
* Contracts: only the timer of each connector, which ends every wait.
* The cycle: events are handled and the machines answer. Timers, reconnection and
  hiring have strong fairness, since a restart in between disables them for a while and
  they come again. Rebuilding may last for ever, suppliers may never send their lists.
* Restore: events are handled, reading and decoding end, pings are made and their Acks
  come or end in a timeout. The request queue and what arrives are strongly fair:
  they are disabled while something else holds the queue, again and again. `Downloads`
  supposes that no piece comes a block late and that no transfer breaks off, and that a request
  is refused, not sent or not answered with what is valid only when all suppliers are online
  and the other pieces suffice. Of the other cases the code may wait for ever (section 7).
* Stream: timers, the loop over the streams, and datagrams, of which `MaxFaults` get lost.

`FireHire` has safety properties only: with its liveness the state graph is too large. The
monitor's run takes from `Hiring` that a search ends, which is an assumption there.

## 6. The proofs

`tlapm` checks them for every value of the constants, under the named assumptions
of the modules: finite sets of services, of packets, of users and of customers, bounds
that are numbers, an erasure code whose parity pieces cover something, at least two blocks in a
file, a buffer that takes one group of blocks.

| theorem | states |
|---|---|
| `LocalService_proofs!TypeCorrect` | `Spec => []TypeOK` |
| `LocalService_proofs!OutcomeCorrect` | `Spec => []OneOutcome` |
| `LocalService_proofs!LayerCorrect` | `Spec => []DependenciesUp` |
| `LocalService_proofs!Implementation` | `Spec => KeepsPromise`, refinement of `Layers` |
| `LocalService_proofs!AnswerCorrect` | `Spec => []AnswerOnce` |
| `LocalService_proofs!NobodyLeftBehind` | `Spec => []NotLeftBehind` |
| `PacketOut_proofs!PacketTypes` | `Spec => []TypeOK` |
| `PacketOut_proofs!PacketStatus` | `Spec => []OneStatus` |
| `PacketOut_proofs!PacketDelivers` | `Spec => Delivers`, refinement of `Delivery` |
| `PacketOut_proofs!PacketItems` | `Spec => []PoppedItem` |
| `DataSender_proofs!DataTypes` | `Spec => []TypeOK` |
| `DataSender_proofs!DataLoop` | `Spec => []LoopAlive` |
| `DataSender_proofs!DataCopies` | `Spec => KeepsCopy`, an action property |
| `DataSender_proofs!DataTold` | `Spec => Told`, an action property |
| `Contract_proofs!ContractTypes` | `Spec => []TypeOK` |
| `Contract_proofs!ContractSpace` | `Spec => []SpaceConserved` |
| `Contract_proofs!ContractAgrees` | `Spec => []Agrees` |
| `FireHire_proofs!FireHireTypes` | `Spec => []TypeOK` |
| `FireHire_proofs!FireHirePromise` | `Spec => Promise`, refinement of `Hiring` |
| `FireHire_proofs!FireHireReplaced` | `Spec => Replaced`, an action property |
| `FireHire_proofs!FireHireAwaited` | `Spec => Awaited`, an action property |
| `MonitorRestore_proofs!CycleTypes` | `Spec => []TypeOK` |
| `MonitorRestore_proofs!CycleAwaits` | `Spec => []Awaits` |
| `MonitorRestore_proofs!RestoreTypes` | `RestoreSpec => []RestoreTypeOK` |
| `MonitorRestore_proofs!RestoreSettled` | `RestoreSpec => []Settled` |
| `UdpStream_proofs!StreamTypes` | `Spec => []TypeOK` |
| `UdpStream_proofs!StreamVerdicts` | `Spec => []Verdicts` |
| `BackupRebuilder_proofs!CodesAgree` | `SameAnswers`, for every erasure code |
| `BackupRebuilder_proofs!RebuilderTypes` | `Spec => []TypeOK` |
| `BackupRebuilder_proofs!RebuilderBooks` | `Spec => []Books` |

*Services.* The inductive invariant is `TypeOK /\ OneOutcome`. `OneOutcome` says that a
service in STARTING has exactly one outcome under way, in the queue or in a Deferred.
It is needed because an outcome is an event like any other: were two of them under way,
the second would be taken for that of a later attempt, made when other services are up.
`DependenciesUp` is then inductive relative to it: a service is counted as booting from the
moment its dependencies were seen ON in the same step, and one of them goes down only
after `isAllDependsStopped`. The refinement takes for `up` the services in ON and
INFLUENCE, for `booting` those in STARTING whose start was called and has not failed; each
action is one step of `Layers` or a stutter. `AnswerOnce` is inductive itself: what is owed
to a batch for a service (`Owed`) is in one place, an event, a Deferred or the callback
that the service keeps. `NotLeftBehind` needs `Followed`: behind each
`service-depend-off` of an enabled service whose dependencies are all ON there follows a
`start` in the queue, so that the service does not go to DEPENDS_OFF for good.

*Packets.* The inductive invariant is `TypeOK /\ OneStatus /\ Before`, where `Before`
says that no item has a transfer before the packet is pushed, and that only a packet
that wants an answer waits in RESPONSE?. `OneStatus` ties
`reports` to the state NOT_EXIST and the callbacks that ran to the report; each action
either leaves both or is one `Finish`. `PoppedItem` needs `OneSpeaker`: each item is still
given, or being sent, or spoken of by one pending event, and only one of the three.

*Data.* Each queue is `Sound`: its record has its types, it holds no packet twice, at most
`MaxActive` are at work, what was sent, acked or is late was queued, and who is
called back with a success was confirmed. Each operator from a queue to a queue keeps it
sound and tells whoever leaves it, which is `Told`. `LoopAlive` needs that a queue whose
`SendingTask` lives has a call scheduled (`Looping`). `KeepsCopy` needs, besides, that
what the matrix takes for stored is confirmed by a supplier in the throttle, or was marked
by a queue that is not (`MatrixOK`, `StoredOK`): one that is removed takes its marks with it.

*Contracts.* What is given and what is free add up, since each write of the space file
takes from one what it adds to the other: `Consumed` is a fold over a function, and
its sums are taken apart by induction over subsets. The events of `customers_rejector` that
are in the queue belong to the invariant (`SpaceOK`), because the list it works on was read
before. `Agrees` follows from `InStep`: as long as nothing was lost, the packets
between a customer and the supplier and their two states are one of a few stages.

*Suppliers.* `Typed` says of the finder, the cycle, the connectors and of who was asked what
each state of `fire_hire` allows, and `CycleChanges` that suppliers have changed only in
the states from which a change is reported; the refinement to `Hiring` follows.
`Replaced` is a counting argument: if the list of suppliers after dismissal still
has the desired length, at most one position is empty or held by somebody who is dismissed. `Awaited`
needs `SearchOK`: while `fire_hire` hires, just one has the search in hand, the finder or one
event that starts or ends it, otherwise nobody. Its argument says whether the search was lost
before, by an event that names a supplier: then nobody has it, and `fire_hire` hires for good.
Each step keeps `SearchOK`, or is the one that loses the search.

*The cycle.* The invariant is `Awaits` with the types of the events and reports in
the queues: each state of the monitor waits for a machine that is at work, or whose
report is queued.

*Restore.* `RestoreInv` has the types, with those of each call that waits (`Call`), and four
parts. `QueuesSound`: each queue of requests has its types and holds no piece twice, each
with its record. It is kept since a block is asked for only where the dictionary has no
record of the piece, and what leaves the dictionary leaves the queue in the same step; a queue
that is empty is filled by nothing but a worker that asks (`Lessens`), which gives `Emptied`,
the second half of `Settled`. `Written`: the blocks before the current one were written, in
order, and those alone, whatever was asked for again. `Counting` is a sum over the reactor's
queue: the counter of the data receiver is the streams that are open, without those whose
opening waits to be handled, with those whose closing does, and with the transfers that failed,
which are never taken off. A closing is posted only after the opening of its stream was handled,
and no two openings that wait are of one stream (`OpeningsOf`): otherwise the counter could
be 0 when a closing is handled, the code would leave it there, and it would be too low for good.
So the counter never falls behind, and is too high by at most `MaxFaults`, which the theorem
has for any number of them. That `Fixable()` adds pieces of the block and no others
(`RoundsType`) is a part of it.

*Streams.* What the receiver has acknowledged is written or waits behind a missing
block (`Kept`, `Acked`); what was told to each gateway (`Tales`) is told in order, once as long
as its session is connected, and after an answer to the registration only; that a sender who has seen all his blocks acknowledged says 'finished' of a whole file follows.

*Erasure codes.* Each pass of `rebuild()`, and each round of `raidread()` and `Fixable()`,
adds pieces or finds none to add; what it adds is in every set of pieces that is closed
(no parity piece lacks exactly one of its data pieces), and a set to which a pass adds nothing is
closed. So after as many passes as there are pieces all of them have found the least closed
set that holds the pieces there were, and so the same.

*Rebuilder.* `IInv` is `TypeOK /\ Stages /\ Owned /\ Orders`. `Stages` says in which states
there is a backup and a list of blocks, `Owned` that every request is for the
backup that is worked on, and it is the last conjunct of `Books`. `Orders` is needed for the
rest, and is the heart of it: of each kind, the chain of calls that rebuilds a backup and the
job of the user, there is one message in the queue or one task with the worker, never two
(`OneTask`), none when `_start_one_block` has run out of blocks, and none outside of
REBUILDING unless the worker is told to end. Were there two, `blockIndex` would be counted
down twice, and would leave its range; a task could be given to the worker that it
has already, and its books would not agree. After a shutdown this is no longer true of all messages: those
that reach the dead worker, and the failures it told, may be many. So a
message counts only while it can be acted upon (`Counts`). `Booked` says that who waits for
the processes to start, or has been answered by one, is spoken of by a message to come.
A step is a step of the queue (a message less, some more) and one of the worker; the lemmas
from `RebuildQuiet` to `TimerStep` say what of the orders each kind of them
keeps, and the lemmas that end in `Keeps` take one action each.

Recursion and induction. `SelectSeq` and folds cannot be opened by the prover, so the
models use recursive functions in their place (`Among` in `Lists`). Induction is
done over sets, with no operator as a parameter: `AllNumbers` (a set of numbers that has 0
and with n also n + 1 is Nat, from the least element of a set), `AllSubsets`, `Kept` and
`Iteration` (a function that is defined step by step exists and has what each step keeps).

Every invariant and every action property that a run checks is proved, and so are the three
refinements. Only model-checked is liveness: `Resolves`, `AllUpInTheEnd`,
`Finishes`, `Uploads`, `StopWorks`, `Healed`, `Reported`, `Relisted`, `Downloads`,
`Ends`, `FileArrives`. Liveness under fairness and ENABLED are outside the prover's reach.

## 7. What was found

No run is left that shows a violation: the list below is what modelling and
earlier, smaller runs showed of the code, and the properties above are what the code does keep.
Where a property would fail, the model follows the code, and the property says what
remains true.

Services
* A service that is stopped while a dependent is being started, or is DEPENDS_OFF, stays in
  INFLUENCE for ever. Only `depend-service-stopped` takes it out, and a dependent that
  answers `depends_off` or `failed` does not send it.
* `stop` in STOPPING, and some others, are dropped with the Deferred they carry. The
  batch never ends, and every later `start()` and `stop()` is refused.
* `restart()` during a stopping batch appends `_StartingDeferred`, which is None, and raises.
* A service switched off and on again while it stops stays off: `NeedStart` is not read in
  STOPPING. `service_p2p_notifications.cancel` returns False.

Packets
* A reply that is handled before the transport has unregistered the file is dropped,
  since SENDING does not handle `inbox-packet`; the packet ends unanswered.
* A packet that expects Data ignores both timers of RESPONSE?, and the gateway's timeout
  loop does not look at that state.
* A transport that cancels under another host name breaks the assertion of `doReportItem`
  after the state was changed. `response_timeout` writes to a dict shared by all packets.

Data and catalogue
* An Ack of the supplier who was just replaced, or the delayed callback of his queue, marks the
  position as stored after it was cleared; the local file is then removed, and the new supplier
  never gets the piece. The guard for it (24 hours after the last replacement) is off by
  default, and `_LastFireTime`, on which it relies, is never set. It is the exception in `KeepsCopy`.
* A supplier who replaced another is taken to store what only the other did: his list
  of files does not correct the column (`backup_matrix.py:292` and `1031`), while the comment
  at `backup_monitor.py:296` says that the remote info is erased.
* The guard of the data sender's clean-up ignores a task that runs once the stop flag is set.

The cycle and the rebuilder
* A changed number of suppliers is remembered without `doDeleteAllBackups`; a search that
  failed is not told to the monitor, who waits in FIRE_HIRE for a scheduled restart; `need-files`
  is ignored in REMOTE_FILES; the second `restart` branch in LIST_BACKUPS is dead.
* A rebuilder that can make no progress goes round, or hangs (`backup_monitor.py:42`). When
  a stop has killed the worker, what is left of the chain of the abandoned backup can end the
  rebuilding of the next one.
* A worker that is killed leaves a truncated file, taken for a good piece (`read.py:178`);
  `raidread` loops if `RebuildOne` fails, and returns a count even when pieces lack.

Suppliers and contracts
* In FIRE_MANY the late report of a supplier who is kept is counted as that of a dismissed one;
  `fire_hire` then goes READY and shuts down the connector of the one who is kept (`fire_hire.py:349`).
* `supplier-connected` of the finder's previous target, if an answer from outside overtakes it,
  names a supplier already hired, and `fire_hire` waits in HIRE_ONE for ever (`fire_hire.py:274`):
  it is the exception in `Awaited`.
* The report of suppliers that changed after a failed search may come as `fire-hire-finished`.
  `doCloseConnectors` skips every second connector; `doRemoveSuppliers` drops redundant
  suppliers by truncation, without telling them; a user who was dismissed may be hired again.
* `settings.SupplierServiceFilename` has a wrong parameter name, so the state of a connector is
  always read as DISCONNECTED. A late 'accepted' in NO_SERVICE makes it CONNECTED
  without a contract.
* A request handled between `doTestMyCapacity` and `space-overflow` is overwritten; `restart` in
  CAPACITY? is not handled, and a change of donated space then lost; a customer who is
  rejected is never told.

Restore
* `isBlockFixable` is evaluated before `doSavePacket`, so the last piece is not noticed; only
  the end of a later stream wakes the worker. So a piece of an earlier block that comes while the
  next one is awaited, a transfer that breaks off, or a request that fails while a supplier
  is offline, may leave it waiting for ever: `Downloads` excludes them. `doSavePacket` marks `OnHand` by the number of
  the supplier, whatever the block.
* `restore_monitor.Abort` calls `r.abort()`, which does not exist. Failed writes and tar's exit
  code are ignored, and `extract_failed` never clears `_WorkingBackupIDs`.
* A failed incoming transfer never decrements `StreamsCounter`; an invalid Data leaves its entry
  in `fileRequestDict` for ever; `RequestFails` adds up over attempts; `eccmap.Fixable` changes its
  arguments; overlapping Acks keep the data receiver RECEIVING.

Streams
* A file of one block is acknowledged and never reported as done (DOWNTIME handles
  `block-received` without `isEOF`), an empty one leaves its stream in DOWNTIME for ever:
  hence `Size` is at least 2.
* When the last Ack is lost, the next one is a zero Ack, and the sender reports 'failed' of a file
  that arrived. When the receiver restarts, the remaining blocks are taken for a new
  file, and the sender says 'finished' of one that nobody has (`renewed`).
* A session that closes reports 'failed' of files that were 'finished'; one that closes
  while the file registers leaves it registered; a pause of more than 18 seconds ends in a
  timeout. `result_defer` does not fire when the verdict comes before the registration.
* `send_file_single` passes `self` twice; `cancel_file_receiving` does nothing;
  `calculate_real_output_limit` takes the minimum with a remote limit of 0.

## 8. What is not modelled

Of the modelled parts: the search for service modules and the boot order; starting and
stopping of transports; the inbox beyond replies; the shutdown of the throttle, its
refusals `offline` and `not exist` (the scan only takes online suppliers and files on the
disk); an exception in `SendData`, which would leave `_runSend` set; more than
one position of the list of suppliers in `DataSender`; `GoDisconnect`; the handshake of UDP
sessions; and what section 3 names.

Of the rest: the exchange of the catalogue, incoming packets, backup jobs, the other
transports, presence, queues of producers and consumers, start and end: see the plan.
Cryptography, files and sockets are I/O or pure calculation; chat, broadcasting, coins and
shared access were unfinished; the libraries in the tree (CodernityDB, Entangled,
fastjsonrpc, pp, txrestapi, pybc) are third-party.

## 9. The plan

What is left, the most important first:

1. `PacketIn` with `callback` and the cache of identities, composed with `PacketOut` at the
   other side.
2. `IndexSynchronizer`: the newer index wins; `P2PQueue`: each event reaches each consumer once.
3. `Backup` with `backup_control`: every job ends in one result.
4. `Initializer` with `Shutdowner`, `NetworkTransport`, and the handshake of a UDP session.
