# Verification of fast-daq-core

fast-daq-core reads waveform digitizers (SIS 3302/3316/3350, CAEN 1742/1785/
6742, DRS4), bundles one event of each into an event of the experiment and hands
the bundles to writers or to a MIDAS frontend.  It is a program of threads that
share queues, a few mutexes and many flags.  This directory holds TLA+ models of
its core, the TLC runs that check them and the proofs TLAPS checks.

Everything is read off the C++ under `src/`; paths below are relative to
`src/src` for `.cxx` and `src/include` for `.hh`.

## Inventory

| Part | State | Operations | Modelled in |
|---|---|---|---|
| WorkerBase and seven workers (`worker_base.hh`, `worker_*.cxx`) | `data_queue_`, `has_event_`, `go_time_`, `thread_live_`, the thread, a static bundle per class; the device's memory | WorkLoop (EventAvailable, GetEvent, push), StartThread, StopThread, StartWorker, StopWorker, PopEvent, FlushEvents | `Workers` |
| WorkerList (`worker_list.cxx`) | the workers; no lock of its own | Start/Stop Threads and Workers, Any/AllWorkersHaveEvent, AnyWorkersHaveMultiEvent, GetEventData, FlushEventData | `WorkerList` |
| EventBuilder (`event_builder.cxx`) | `pull_data_que_`, `push_data_vec_`, four flags | BuilderLoop, ControlLoop, StartBuilder, StopBuilder, FinishedRun, destructor | `EventBuilder` |
| EventManagerBase, EventManagerBasic (`event_manager_base.hh`, `event_manager_basic.cxx`) | `data_queue_`, `has_event_`, `go_time_`, `thread_live_` | BeginOfRun, EndOfRun, PauseRun, ResumeRun, RunLoop, HasEvent, GetCurrentEvent, PopCurrentEvent | `EventManagerBasic` |
| EventManagerTrgSeq (`event_manager_trg_seq.cxx`) | the same, `run_queue_`, the sequence's flags, the multiplexers | the same, TriggerLoop, BuilderLoop, StarterLoop, IssueTrigger | `EventManagerTrgSeq` |
| SyncTrigger, SyncClient (`sync_trigger.cxx`, `sync_client.cxx`) | client map, ready count, `num_clients_`; a client's `ready_`, `sent_ready_`, `got_trigger_`, `connected_`; four sockets each | TriggerLoop, ClientLoop, StartTriggers, StopTriggers, FixNumClients; InitSockets, StatusLoop, HeartbeatLoop, RestartLoop, SetReady, UnsetReady, HasTrigger | `SyncTrigger`, `SyncClient`, over `SyncNetwork`; composed in `SyncSystem` |
| WriterOnline, WriterMidas, WriterRoot (`writer_*.cxx`) | a queue, `queue_has_data_`, `message_ready_`, `get_next_event_`; the tree's branches and their addresses | StartWriter, StopWriter, PushData, EndOfBatch, SendMessageLoop | `WriterOnline`, `WriterMidas`, `WriterRoot`; composed in `Writers` |
| WorkerVme, SIS3100 (`worker_vme.hh`, `vme/`) | a global bus mutex, static results | reads, writes, block transfers | `VmeBus`; `Sis3316` composes it with one digitizer's readout |
| WorkerFake | a simulated event, its clock thread | WorkLoop, GenerateEvent | not modelled |
| DIO boards, multiplexers, steppers, Acromag, Altera | port registers, step counts | set, fire, move | not modelled |
| CommonBase, configuration, `deps/` | log files, settings, vendor code | | not modelled |

How they interact.  Each worker's thread appends to its queue under that
worker's mutex.  A manager's loop, or the builder's, goes over the workers again
and again: has any an event? wait; have all one? has any two? pop one of each;
flush the rest.  None of this is atomic over the workers.  EventBuilder's
control thread flushes the same queues while the builder reads them, and
BeginOfRun flushes them beside RunLoop.  Trigger sequences add three loops
that talk through six atomic flags.  A frontend polls HasEvent and takes events.
The builder's control thread hands each batch to one writer after the other, two
of which pass it on to threads of their own through a queue and a flag.  The
frontends of several machines take their triggers together: each has a SyncClient
that registers with the one SyncTrigger, says READY, and waits for the trigger
that is published when all have said so.  Below it all, every digitizer on the
VME bus is read register by register under one mutex of the process.

What makes the parts correct, and hard to test:

* Workers: events leave in order and once; the flag says something of the
  queue, though FlushEvents lowers it after unlocking; the static bundle and
  the static status of a class are shared by its workers.
* WorkerList and its users: a bundle has an event of every worker, filled in, and
  all of one trigger.
* EventBuilder: the writers get an ordered stream of complete bundles; the queue is
  bounded; a stopped run ends all threads, and everything packed was sent.
* The managers: events reach the frontend in order and once; EndOfRun returns.
* Trigger sequences: an event is of one sequence and each probe of its round;
  every sequence ends; none begins that no trigger asked for.
* SyncTrigger and its clients: no trigger before all are ready, none ahead of a
  client; what a crash, a late heartbeat or a time-out breaks is mended.
* Writers: the file holds every event, each branch its own device's data; the
  monitor sees events in order and none twice; MIDAS gets the newest.
* The bus: a call returns its own answer and releases the mutex; a readout that
  failed is not passed off as an event without a word in the log.

`PROJECT.json` has each hazard at its line.

## Modules

`Workers` has one record of traits per device class (`DeviceClass`) in which the
work loops differ: whether the status is static, whether polling already takes
the event, whether the memory read is the one being sampled into, how deep the
device buffers, whether the queue is bounded, and so on.  `work[w]` is the
place of worker `w`'s thread: `dump` (SIS 3302 only), `poll` (EventAvailable),
`read` and `finish` (two halves of GetEvent), `push`, `none` (no thread).
An event is the set of `<<worker, trigger>>` its samples came from, so that an
event torn between two triggers or two workers has two parts.  A critical
section under `queue_mutex_` is one step; a flag stored outside it is another.

`WorkerList` is each operation of the list as a loop of thread `t` with a place
`pc[t]` and an iterator `idx[t]`: one worker per step, two steps for a flush
(queue, then flag).  The labels before and after are parameters, so that every
user of the list shares one text.

`EventBuilder`, `EventManagerBasic` and `EventManagerTrgSeq` extend it.  A
while-condition, an assignment to a flag, and a critical section are one step
each, named by a label of `pc`; what the code does between two of them without
touching shared state (logging, clocks, analysing the signals) goes with one of them.
The master frontend of EventBuilder, and the managers' frontend, are not in
the repository: the models let them make the calls the comments describe.

`BundleStream` is what EventBuilder promises: a stream of bundles, complete,
each worker's events in the order of their triggers, none twice, growing until it
is closed.  `EventBuilder!DeliversStream` states that the builder implements
it, with `sent` as the stream and `ended` as its end.

`SyncNetwork` is what the code uses of ZeroMQ: a REQ/REP pair to register (sets
of clients whose message is unread), one for READYs, which also counts those whose
sender has gone, and the PUB/SUB pair of the triggers, with the subscriptions in
effect and the number of triggers in each client's socket.  `SyncTrigger` has an
action for each branch of TriggerLoop and of ClientLoop; `client_time` is the
sequence of the clients from the one heard longest ago, as only the order of the
times counts.  ClientLoop keeps nothing between its three polls, so it does any of
them at any time.  `SyncClient` has the phases of InitSockets (`phase`) and the
places of StatusLoop (`status_loop`: `loop`, `reply`, `trigger`, `flag`, `lost`),
the RestartLoop, and the calls of a frontend.  `SyncSystem` composes one trigger
and the clients and adds the faults: a process that dies and comes back, a
frontend that gives up a wait, heartbeats held up, a time-out with the answer on its way.

`EventData` names events and the data of devices; a bundle has no data of the
fake devices, which a configuration may name.  `WriterOnline` and `WriterMidas`
have the calls of the builder's thread, each one critical section, and the places
of the sending thread's loops.  `WriterRoot` keeps for each `std::vector` of
`root_data_` its size, its capacity and the number of its reallocations, and for
each branch of the tree the vector, element and allocation its address was taken
from: with that, Fill tells what an address that another device shares, or that
dangles, puts in the file.  `Writers` feeds all three from one builder, writer by
writer as SendBatch and SendLastBatch do.  `LossyStream` is what a writer that
skips events promises; `Writers!ShowsStream` states that WriterOnline implements it.

`VmeBus` is a call of WorkerVme in its steps: `lock`, `open` (again, up to
`MaxCount` times), `transfer`, `close`, `done`; `statics` are the static variables
of the calls, one set for each class.  `own` is history: the answer of the
call's own transfer.  `Sis3316` is the work loop of one SIS 3316 whose every register
access is such a call (`at` says which), the board's two banks, its address register,
which shows a swapped bank some time later, and its transfer FSM; calls may fail at
every place, and another thread uses the bus.

`MC*` give TLC its constants.  Definitions marked "Mutant" in a comment
are plausible bugs, used to check that the properties can fail.

## Runs

Passing runs:

| Run | Bounds | Shows |
|---|---|---|
| EventBuilderStream | sis_3316 and caen_1785 (2 events on board), 3 triggers at any time to any of them, batches of 1, queue of 1 | the builder implements BundleStream; no uninitialised event is sent, though the run's end flushes the queues under the builder; the queue is bounded |
| EventBuilderSpaced | sis_3302 and sis_3350, 3 triggers far apart, batches of 2 | one trigger per bundle; a stopped run finishes and every thread ends |
| ManagerFree | sis_3316 and sis_3350, 2 runs, 2 triggers at any time, pauses, kMaxQueueSize 0 | bundles complete; one bundle more than kMaxQueueSize, never two; the sis_3316's events neither repeated nor reordered from device to frontend |
| ManagerSpaced | sis_3302 and sis_3350, 2 runs, 3 triggers far apart | one trigger per bundle; EndOfRun returns |
| TrgSeqProper | sis_3316 and sis_3350, each probed in one of 2 rounds, 2 start triggers, 1 run | each packed event is of its sequence, each probe of its round, until a sequence is spoilt at its beginning (EventsUnspoilt); no sequence unasked; the four loops never wait for each other for ever, nor EndOfRun for them (ComesToRest) |
| SyncSafe | 2 clients, sockets of 2 triggers, 1 fault, the number of clients free, or fixed at any time | a client never has more than the one trigger it waits for, until a READY is taken back or a running client left out of a recount (InStep); no trigger is sent before every client that is up was counted for it, unless a READY counted for it was taken back or the last recount left a running client out (AllWereReady) |
| SyncRecovers | the same, the number fixed before the first client comes | each client is triggered again and again if the run goes on, whatever the fault was |
| WritersFeed | 2 runs of up to 3 events, batches of 2, a queue of 2, two configurations of up to 9 devices of all kinds but SIS 3316 | the file holds the run's events in order and without a gap (FileComplete), each branch its device's data (BranchesHold); the monitor sees a stream without repetition (ShowsStream), of an older run one event at most (FewStale), with a number that covers it (NumberCovers); MIDAS gets the newest event and none from before it asked, except when the last batch was empty (FreshAnswer); no wake-up is lost (Drains) |
| Sis3316Readout | 2 channels, 2 events, 2 failing calls, kMaxPoll 1 (2 attempts), 2 attempts to open, one other thread with the same static variables | each call gets its own transfer's answer (OwnAnswer); an event that is not the one the board recorded was announced in the log, or the failed swap before it was (BadEventsLogged); every event is read out (ReadOut) |

Two workers are the least with which a bundle can be incomplete or mixed, and
three triggers the least with which one is read, one queued and one in the
device; ManagerFree has two, so that its two runs and its pauses fit.  Queues of 0
to 2 reach their bound.  Batches of 2 make CopyBatch loop.  Two rounds are needed
for one round to be taken for another, two sequences for static data to survive,
two runs for what BeginOfRun and EndOfRun leave behind; the trigger sequence has one
run, so that its two digitizers fit, and its theorems cover any number.

Two clients are the least of which one may be triggered without the other; a
socket of 2 lets a second trigger pile up; with one fault, each kind of fault
meets each place of the protocol.  In WritersFeed a run has a full batch and a
last one, which may be empty, a queue of 2 overflows when the sender is slow, and the two
configurations have two devices of each kind in one of them, except the CAEN
1742.  Two channels make the second one's readout start from the first one's
state, two events swap both banks, and two failures are as many as a loop has
attempts with kMaxPoll 1, so that every loop can fail for good.

Deadlock is checked in the Sync runs and in Sis3316Readout, where something may
always happen.  In the others it is not: all threads may be joined and the
triggers or the runs used up.

Each of the following runs finds what a comment in the code says violated; the
findings in `PROJECT.json` quote the comment.

| Run | What happens |
|---|---|
| EventBuilderFinished | SendLastBatch drops what is beyond one batch, and FinishedRun says all was sent |
| TrgSeqSpoilt | the builder reads `sequence_in_progress_` down; TriggerLoop raises it and lowers `builder_has_finished_`; the builder reads that (event_manager_trg_seq.cxx:616-617, 351-352) and packs what its static bundle has as the new sequence's event |
| RootBranches | with one SIS 3316, its branch is given a SIS 3302's address; with two CAEN 1742, the first one's branch dangles, as the memory is reserved in the vector of the CAEN 1785 |

### What else the models show

These are in the models, and a constant of a passing run brings them out:

* ManagerSpaced with two workers of class sis_3316 violates Synchronized: both
  read into the one static bundle of the class (worker_sis3316.cxx:615), and a
  worker pushes the other's event, or half of it.
* ManagerFree with one sis_3316 and `QuietStart = FALSE` violates CompleteBundles:
  BeginOfRun flushes the workers beside RunLoop, and PopEvent returns a struct
  nobody filled in.
* A SIS 3302's corrupted first event (worker_sis3302.cxx:251) is not dumped: the
  loop that should do it polls while `go_time_` is down, which answers no, and
  StartThreads runs before StartWorkers.  In ManagerSpaced, which has one, that
  first event is bundled like any other.
* ManagerSpaced with `Spaced = FALSE` violates Synchronized: triggers close
  together are mixed into one bundle, for RunLoop compares nothing of the events.
* EventBuilderSpaced with a SIS 3350, a CAEN 1785 and `BufferDepth = 2` violates
  Synchronized, though triggers are far apart: two come before StartWorkers, the
  CAEN buffers both, StopWorkers at the run's end comes between its two reads, and
  the last bundle has one of its events beside the SIS 3350's of the other trigger.
* TrgSeqProper with `Paced = FALSE` violates ComesToRest: RunLoop's flush after
  one round empties a worker's queue, the worker pushes the next round's event, and
  the flush then lowers the flag over it; or the builder, which wakes the trigger loop
  before it clears `mux_round_configured_` (event_manager_trg_seq.cxx:516), clears the flag of the
  round configured since.  TriggerLoop then waits for ever.  EventsUnspoilt still holds on
  that instance; only its proof needs `Paced`.
* TrgSeqProper with a sis_3302 in place of the sis_3350 violates ComesToRest even if
  paced: its corrupted first event may be pushed within a flush in the same way and stays
  queued with the flag down, so that the next readout makes two and RunLoop flushes both.
* TrgSeqProper with `Steady = FALSE` violates EventsUnspoilt: a run ended or paused
  in mid sequence packs an event of old and missing probes.
* TrgSeqProper with `Raised = {"start_trg"}`, a start flag that happens to be up before
  anything assigned it, has a sequence begin that nobody asked for, perhaps while BeginOfRun
  still starts the workers (`spoilt`): the one that SequencesAsked allows for that flag.

* Sis3316Readout without the `before` of BadEventsLogged fails: when every attempt to arm
  a bank fails, `bank2_armed_flag` is turned all the same (worker_sis3316.cxx:682-696) and the
  worker reads the bank that still samples.  Each failed call is logged by the call itself
  (worker_vme.hh:136-145), and so is, for bank 2 only, the failed swap (698-704); but
  the next readout, which arms the bank again that was armed, goes wrong in silence.

WritersFeed reaches a step the language leaves undefined.  EventBuilder may send an
empty last batch; PushData of WriterMidas then empties the queue and leaves
`queue_has_data_` up; and SendDataMessage, which has just waited under the comment
"Make sure there is an event", takes the front of an empty queue, sends what it copied,
and pops it (writer_midas.cxx:40, 118-128).  The model sends `Garbage`, no event of any
run.  FreshAnswer says that this is sent only when the last batch was empty.  What the
thread does with its queue afterwards has no meaning (`midas_loop = "undefined"`), and
the model's does nothing more.

Some more of the writers, seen while they were modelled: a message packed when a
run stops is sent in the next one (FewStale says: one at most); the `event_number` shown is the
number of events pushed so far, not the event's; FlushData, whose comment is "Send all data
currently in the queue", drops it; CAEN 1742 and DRS4 data is never sent to MIDAS;
each MIDAS part repeats the headers of the parts before; the
file is recreated for every run, and no batch is ever reported bad, so that
DropBaskets is not reached.

Of the sync protocol: a READY is counted for good, though its client may take it back by
UnsetReady, a restart or a crash, and the trigger it was counted for may go out early
(AllWereReady exempts that one, `stale`).  A client that is dropped while it runs, or was
registered and not yet heard when another is dropped, is left out of `num_clients_` until the
clients are counted anew or their number is fixed, and triggers go out without it
(`miscounted`).  Either may send a client a trigger too many, which nothing takes back: it then
answers its next READY, and the client is ahead from there on.  InStep therefore stops
at the first of them, for all clients (`disturbed`): with one fault, it says nothing of
what comes after it.  Recovers has no exception.

Three more need no constant, and no property is stated of them, as one step shows
them: the managers raise `has_event_` after they unlock, so that it may be up
over a queue emptied meanwhile (RunSetFlag); the trigger sequence's `has_event_`
outlives EndOfRun, which empties the queue (TakeEvent then makes up an event); and
a start trigger that comes during a sequence is cleared with the one that began
it (EndSequence).

### Assumptions on the environment

The code paces itself with sleeps; TLA+ has no clock.  Constants say where a
property needs the sleeps to be long enough:

* `Spaced` (builder, manager): a trigger comes when the one before has been read
  out and bundled, and `usleep(max_event_time_)` outlasts every readout.
  EventBuilderStream and ManagerFree do without it.
* `QuietStart` (manager): no trigger until BeginOfRun returns.  With it off, see above.
* `Paced` (sequences): the pulser fires when the workers have settled and their
  flags are down, `max_event_time_` outlasts a readout, and `mux_switch_time_` outlasts
  what RunLoop and the builder do after a round.  The builder's sleep is bound to nothing:
  it may wake up within the three stores that begin a sequence.  With it off, see above.
* `Steady` (sequences): start triggers come while a run goes on, and runs are ended or
  paused between sequences.
* `Raised` (sequences): which of the members no constructor initialises begin true
  (none in the runs, any in the theorems).

* Sync: the code waits 240 s for a trigger, gives a client up after 120 s of silence
  (sync_trigger.hh, sync_client.hh over trigger_base.hh:31-32) and beats every 0.1 s.  So a
  client whose wait times out was heard and is subscribed, and one is dropped only while it
  beats no more, unless a fault holds its heartbeats up.  StopWaiting leaves with no trigger in
  the socket, where the code may leave one there that came since its last poll
  (sync_client.cxx:244-248); `num_clients_`, read twice by TriggerLoop, is read once, and the
  three stores of UnsetReady are one step.  Not among the faults: a client that dies in mid
  registration, a server that restarts.  FixNumClients is called with the right number.
* Writers: the master frontend starts the writers before a run and stops them when
  the builder has finished it; the MIDAS frontend asks again when it has its answer.
* Bus: a write that fails has no effect, and a block transfer that returns 0 is complete.  There
  is one SIS 3316, and `Class` says which threads share its static variables.

`MaxTriggers`, `MaxRuns`, `MaxStarts`, `Runs`, `MaxEvents` and, in the Sync runs,
`MaxFaults` only bound the behaviours; `BufferDepth` stands for the depth of a
CAEN board's buffer.

### Fairness

Each thread the code starts is a weakly fair action of its own: the operating
system schedules it, its loops never block but to join, and no lock is held
across a sleep.  The frontend is fair only inside a call it has begun (`FairSpec`
leaves out `idle` and `running`, and StopBuilder): a run need not be ended, nor
an event be taken.  Triggers are never fair.  EndsRun and RunFinishes start from
the call that ends a run.  ComesToRest asks again and again for as many packed events as
sequences, and gives up while `go_time_` is down, but not in a call of EndOfRun.

`SyncRecovers` has the two loops of the trigger that make progress, a client's
InitSockets, StatusLoop and RestartLoop, and a frontend that calls SetReady and HasTrigger
again and again; its heartbeats count only until it is first heard.  Faults, launches,
StartTriggers and StopTriggers are not fair: Recovers speaks of runs that go on.
A subscription may take effect after the client's READY, which loses it a trigger, but not each
time (the one strongly fair action): a client that is always late restarts for ever.
TimeOutAtLast is fair, as a wait that nothing ends does end by its clock.

`WritersFeed` needs the sending threads' loops only; the builder may stop anywhere.
In `Sis3316Readout` the work loop, its calls and the board's bank register are
weakly fair, and so is another thread inside a call, never its decision to make one.
Taking the mutex is strongly fair: it is free again and again, and a
`std::mutex` that always went to the other thread would starve the readout.

## Proofs

The theorems hold for any number and kinds of workers, clients, devices or threads, any
sizes, limits and numbers of triggers, runs and faults.  What they assume beyond that is
the named assumptions on the constants (there is a worker, its kind is known, sizes
that the code divides or indexes by are not 0) and the hypotheses given below, which
appear as ASSUME in the theorem.

| Theorem | Property | Hypotheses |
|---|---|---|
| EventBuilderProofs!TypeCorrect | TypeOK | |
| EventBuilderProofs!SentBundlesComplete | CompleteBundles | |
| EventBuilderProofs!PullQueueBounded | QueueBounded | |
| EventBuilderProofs!BuilderDeliversStream | DeliversStream | every worker is `Alone` |
| EventBuilderProofs!BuilderSynchronized | Synchronized | `Spaced`, `Apart`, `Unbuffered`, `SomeDoNotDump` |
| EventManagerBasicProofs!BasicTypeCorrect | TypeOK | |
| EventManagerBasicProofs!BasicQueueBounded | QueueBounded | |
| EventManagerBasicProofs!BasicBundlesComplete | CompleteBundles | `QuietStart`, `NoneDumps` |
| EventManagerBasicProofs!BasicInOrder | InOrder | the same; workers that do not share memory are `Alone` |
| EventManagerBasicProofs!BasicSynchronized | Synchronized | `QuietStart`, `NoneDumps`, `Spaced`, `Apart` |
| EventManagerTrgSeqProofs!TrgSeqTypeCorrect | TypeOK | |
| EventManagerTrgSeqProofs!SequencesAreAsked | SequencesAsked | |
| EventManagerTrgSeqProofs!SequencesProper | EventsUnspoilt | `Paced`, `Steady`, `Apart`, `SomeDoNotDump` |
| SyncSystemProofs!SyncTypeCorrect | TypeOK | |
| SyncSystemProofs!ClientsInStep | InStep | |
| SyncSystemProofs!TriggersAwaitAll | AllWereReady | |
| WritersProofs!WritersTypeCorrect | TypeOK | |
| WritersProofs!MidasAnswersFresh | FreshAnswer | |
| WritersProofs!MonitorNumberCovers | NumberCovers | |
| WritersProofs!MonitorSeesOneStale | FewStale | |
| WritersProofs!MonitorShowsStream | ShowsStream | |
| WritersProofs!FileHasTheRun | FileComplete | |
| Sis3316Proofs!AnswersOwn | OwnAnswer | |
| Sis3316Proofs!ReadoutTypeCorrect | TypeOK | |
| Sis3316Proofs!BadReadoutsLogged | BadEventsLogged | |

**Workers and their list.**  `WorkerListProofs` has what the builder and the managers have in
common: the types of the workers and of a loop over them (`ListTypeOK`), and what a loop
has learned of the queues.  `Informed(t)` says of the thread `t` that bundles:

* `FlagsTell`: a flag that is up belongs to a queue with an event in it, unless a
  flush of `t` has emptied the queue and is about to lower the flag;
* `SeesEvents`: at each label the loop over the workers has seen the flags of those
  before `idx`, so that the ones still to pop have an event, and the ones popped
  have given `bundle` one each.

The workers' threads only add events (`KeepsEvents`), and each operation of the
list keeps `Informed`; both are lemmas with the label names of that one text.

`WorkerOrderProofs` follows the events of one worker that is `Alone`: no other has its
static variables, and its memory is not sampled into while it is read.  Its argument is
one of bounds.  Each place an event passes (the board, the static bundle, the queue, the
bundle being filled, the queue of bundles) holds only events of triggers after some `n`, and
what is further on only events up to `n` (`DevicePast`, `WorkerPast`, `BundlePast`,
`QueuedPast`).  A step that moves an event on moves the bound between the two places
past it; a flush only takes from a place and needs no new bound.  `Run` says the same of
the events within a place, and runs are joined at a bound.

For Synchronized the same module says what `Spaced` buys.  No number is compared
anywhere in the code: that the events of a bundle belong together is an argument about time.
`Together(t)` spells it out for the thread `t` that bundles: each device holds, and each
worker reads, nothing but the last trigger (`AllFresh`); a flag that is up means that the last
event of that queue is of the last trigger (`FlagsNew`); once `usleep(max_event_time_)` is over
and until the bundle is queued, no worker is in a readout (`WorkersWait`), so that the test
for further events and the pops see the same queues; and what was popped is of the
last trigger (`GathersNew`).  A queue may hold events of older triggers, which a flush lost the flag
of; AnyWorkersHaveMultiEvent is then what keeps them out of a bundle.
The workers must be of one class each (`Apart`), for two of a class share their
static bundle.

**EventBuilder.**  TypeOK and QueueBounded are inductive (the second given the first).
CompleteBundles is not; `IInv` adds `BuilderInformed` (`Informed("builder")` until the run
is being ended), `BundlesComplete` and `EndsOnce`: the control thread's flush, which
does break what the builder knows, comes after the last copy from the pull queue, as the
flags of the run's end are never reset.  From then on (`Ending`) nothing is claimed
of the builder, for nothing it queues is copied any more.  This is the argument that the
unsynchronised flush at the run's end is harmless, and what no test would show.

The refinement of BundleStream adds `OrderInv`: for each worker, what was sent, the
batch (while it is still to be sent, `BatchLive`), the pull queue, the bundle and the
worker's own queue lie between rising bounds; `Copying` ties the number of
bundles copied to the queue's length while ControlLoop holds it.  Each step is
then a step of BundleStream, or leaves `sent` and `ended` alone.

Synchronized: `SyncInv` has `Together("builder")` until the run is being ended, bundles of one
trigger in every place they pass, and `Waiting`: the builder gathers nothing until the master
has started it, so that StartWorkers disturbs nothing.  The hypotheses besides `Spaced` and
`Apart` are each needed: with a device that buffers several events (not `Unbuffered`) the
property is false, as said above, and if every worker began with a corrupted event (not
`SomeDoNotDump`) the first bundle would be of no trigger at all.  The theorem covers the
instance of EventBuilderSpaced.

**EventManagerBasic.**  BeginOfRun flushes "stale events" beside RunLoop, which is only harmless
when there are none: `QuietBeginning` in its `IInv` says that, from the construction of the
workers until BeginOfRun returns, nothing is triggered.  That needs `QuietStart`, and that no
worker is a SIS 3302 (`NoneDumps`), a hypothesis found by an attempt to do without it.  With a
SIS 3302 and `QuietStart`, its corrupted first event can be pushed during BeginOfRun, seen by
RunLoop's AllWorkersHaveEvent, and dropped by BeginOfRun's flush before GetEventData: TLC finds
an unfilled struct in a bundle (ManagerFree with `TwoSampling` and one run).  InOrder adds the
bounds above, up to the event the frontend holds; `TakesFirst` says that what it copied is what
it pops, though it does the first without the lock. Synchronized is `Together("run")` again;
here a device may buffer several events, as triggers come only while a run goes on and `Quiet`
waits for what was triggered.  ManagerSpaced has a SIS 3302, which `NoneDumps` excludes: TLC
alone covers it.

**EventManagerTrgSeq.**  Types need `CountsEvents`, since BuilderLoop reads a probe out of a
bundle: a bundle has as many events as the loop has passed workers.  SequencesAsked is an
argument about one token: a start trigger, `got_software_trg_` or `got_start_trg_`,
and `sequence_in_progress_` hand it on, and no two of them hold it at once.  A flag nobody
initialised may bring one more (`Early`); that is all it can do, whatever it begins with.

EventsUnspoilt says that, until a sequence is spoilt, the i-th event packed is that of the i-th
sequence, and that each of its probes is what the round with that probe's multiplexer setting
made the workers record.  Four loops and every worker have a part in it, and its invariant has
one conjunct for each thing they rely on:

* `Driven`: from a start trigger to the end of its sequence a run goes on.  This is where
  `Steady` is used; a flag that is up too early spoils what it begins (`spoilt`).
* `Started`: when BeginOfRun has returned, every digitizer acquires and every worker polls, so
  a trigger reaches all of them.
* `TakesTurns`: `sequence_in_progress_`, `mux_round_configured_`, `got_round_data_` and
  `builder_has_finished_` are one token that TriggerLoop and BuilderLoop pass to and fro.
  It says for each place of TriggerLoop where BuilderLoop can be, and how many
  rounds that has taken (`Taken`).  The code tests two flags without a lock, which `spoilt` records
  when it goes wrong, and clears one after it has raised another; `Paced` is what makes the
  trigger loop wait meanwhile.
* `RoundsApart`: what passes from the boards to RunLoop's queue is of one round.  Before the
  first trigger (`Untouched`) RunLoop cannot get past a worker that shows no event.  There is
  one if not every worker is a SIS 3302 (`SomeDoNotDump`), which given `Apart` excludes only a
  lone SIS 3302. After it (`Touched`) all is `Together("run")`, as above; it is `Drained` before
  the next round, and a bundle queued is the only one, of the last trigger, and its round still
  waits (`Bundled`).
* `PackInv`: as many sequences have begun as events are packed, but for the one under way
  (`Counted`), and the rounds taken of that one have left their probes (`Probed`).  A
  history of which sequence and round each trigger was fired for (`Aimed`) ties the two together.

Only the last needs the property itself; each of the others is inductive given those before it.

**Sync.**  TriggerLoop compares two numbers, `clients_ready` and `num_clients_`, and
the theorems are about what these count.  At any time `clients_ready` is the
number of members of a set of clients that are waiting, and of the READYs that were taken
back (`CountsWhole`); each of those clients is in one of the stages of the exchange
(`Stages`); and `num_clients_` is no less than the number of clients registered, heard or up
(`EnoughClients`), but for a recount that left one out (`miscounted`), or the number fixed,
which is all of them (`FixedIsAll`).  A trigger with no READY taken back then means that the two
sets are one, which is AllWereReady.  InStep needs more, that every READY out is of a client that
is ready for what it asked for, with nothing in its socket before it was counted (`AllWilling`),
and that is what a READY taken back breaks for good.

**Writers.**  FreshAnswer: `QueueFresh`, WriterMidas queues nothing but the newest event, only
after a request was answered, and one newer than that answer; and the flag is up over an empty
queue only after an empty batch.  NumberCovers: `NumberFollows`, `number_of_events_` keeps step
with the builder although it is set to 0 when a run starts, since the last batch flushed the
queue.  FewStale and the refinement of LossyStream: `StreamInv`, what is shown, the packed
message and the queue are one rising sequence, in which only the packed message can be of an
earlier run.  FileComplete: `TreeFollows`, the file with the baskets and the part of the batch
still to be filled are the events of this run so far. In all of them `FeedInOrder` says that a
batch on its way follows on what was handed over.

**SIS 3316.**  OwnAnswer holds for one reason, which `BusInv` spells out: who has the device
open holds the mutex (`Guarded`), so between a transfer and its return nobody
writes the static variable the result goes through (`Kept`).  BadEventsLogged: `ReadoutInv` says
which bank is armed if the last swap succeeded (`FlagTells`), that one which did not was logged
(`SwapLogged`), that the board takes no event meanwhile (`BoardWaits`), and that at each
place of the readout something was announced or the bank being read keeps its event and the
channels read so far hold it (`EventKept`, `ReadSoFar`).  It needs no bound on the failures.

TLC checked each strengthened invariant on an instance of a run before it was proved.

Only model-checked: liveness (RunFinishes, EndsRun, ComesToRest, Recovers,
Drains, ReadOut), which is beyond TLAPS, and BranchesHold, which is about what a fold over
the configuration computes, and so needs induction over data.  All other invariants and
action properties of the runs are stated by a theorem above.

## Not modelled, and the plan

Abstracted: the samples, clocks and gains of an event, the registers written by
LoadConfig, the JSON settings, logging (but for whether a bad readout is logged), the
analysis of the signals.  Bus errors are modelled for the SIS 3316 only; the other VME workers
read without failing.  BeginOfRun, Init and IssueTrigger of EventManagerTrgSeq,
which return nothing though they are declared to are taken to return normally.

Left out of a part that is modelled:

* BuilderLoop's return when the name of a digitizer does not match
  (event_manager_trg_seq.cxx:504-508);
* the devices' names and the parts of the messages of WriterOnline and WriterMidas (a SIS 3316
  goes out under a SIS 3302's name, and not at all with cut traces, writer_online.cxx:214);
* the messages that mark the end of a batch in WriterOnline: of the 50 sent only the
  first has a content, and they use the socket of the sending thread from the
  builder's;
* the writers' destructors, and a configuration without a writer's section;
* ReadTraceMblt64SameBlock (worker_vme.hh:398-461), with which the CAEN 1742 reads an event
  (`Workers` takes the whole event at once);
* the helpers that set up the SIS 3316's clock and ADCs over I2C and SPI.

Not modelled at all: WorkerFake, the DIO boards, multiplexers, steppers, Acromag and
Altera boards and their sis3100 device, CommonBase, and what is under `deps/`.

In order:

1. The other VME workers over `VmeBus`: a SIS 3302 and a SIS 3350 whose
   readout is retried, and two classes on one bus.
2. Writers composed with EventBuilder itself, whose stream feeds them.
3. WorkerFake with its clock thread.
4. Pure algorithms: channel order and clock decoding of the CAEN readouts, stepper
   counts, port masks, against reference definitions.
