# Telemetry server: TLA+ models and proofs

The program under `src/` is a TCP ingest server for fixed-size telemetry
frames.  A *server* process accepts connections, cuts their bytes into frames
and publishes valid frames to a ring in shared memory; a *reader* process,
forked from it, pops the frames, validates them again and appends them to
segment files.  The two processes never lock: they share two counters, a close
flag and two eventfds.

This directory holds the TLA+ modules that model it, the TLC configurations that
check them, and TLAPS proofs.  `PROJECT.json` lists components, runs, mutants,
the source lines each definition models, findings, hazards and theorems.

## 1. Inventory

| Component | State | Operations | Why it is hard |
| --- | --- | --- | --- |
| `SharedRingBuffer` (`Ipc/src/SharedRingBuffer.cpp`) | `head`, `tail` (wrapping `uint64`), close flag, slots | push and pop, single or batched; `pendingFrames`, `empty`; `closeProducer` | lock-free, across processes; batches wrap around; each side sees an old index of the other |
| `EventFd` (`Ipc/src/EventFd.cpp`) | two counters: `dataReady`, `spaceReady` | notify, consume (blocking) | lost wake-ups; a blocking read in an event loop |
| `Server` (`Server/src/Server.cpp`) | client map, input buffers, epoll registrations, `Running`/`Draining`, `ingressPaused` | accept, receive, publish, pause, resume, drain | batches of events that are old when handled; descriptor reuse; backpressure; signals |
| `Buffer` (`Server/include/Buffer.hpp`) | bytes, offset of the consumed prefix | `pendingBytes`, `compact` | framing across `recv()` calls; growth |
| `Reader` (`Reader/src/Reader.cpp`) | popped batch, staged batch | pop, decode, stage, flush, report space, sleep, end | flush before sleeping; end of stream; failure between ring and file |
| `main` (`src/main.cpp`) | the two processes, the exit code | fork, close ring, wake or kill the reader, `waitpid` | shutdown racing failures; SIGCHLD merging |
| `FileStore` (`Storage/src/FileStore.cpp`) | active file, size, unsynced bytes, archives | open and recover, append with rotation and sync cadence, sync | crashes between steps; unaligned thresholds |
| `TelemetryCodec` (`Protocol/src/TelemetryCodec.cpp`) | none | `encode`, `decode` | byte order, validation order |
| `ConfigParser` (`Config/src/ConfigParser.cpp`) | settings | parse, validate | integer limits; options as values of options; agreement with `FileStore` |
| load generator (`bench/telemetry_load.cpp`) | batch, bytes sent, frames sent | connect, encode, send, shut down | partial sends; a last short batch |
| CPU profiler and benchmark (`bench/profile_cpu.cpp`, `bench/run_benchmark.py`) | child processes, temporary copies, result files | spawn under a deadline, kill, verify | deadlines racing ends; nested process groups; results of earlier runs |

Interactions.  The server is the ring's only producer, the reader its only
consumer.  Server to reader: frames through the ring, then one `dataReady` write
per `recv()` that published something.  Reader to server: `tail`, then one
`spaceReady` write each time it has emptied the ring and flushed its batch; that
event is what resumes paused ingress and what ends a drain.  Kernel to server:
epoll events of the listener, of clients, of `spaceReady` and of a signalfd
carrying SIGINT, SIGTERM and SIGCHLD.  `main` closes the ring after the server
returned, wakes the reader, waits for it and combines both results.  The bench
tools use the server from outside: the profiler runs `perf`, which runs the
benchmark script, which starts a server and the load generator.

What makes the parts correct:

* ring: no slot is written while it is read; every frame arrives once and in
  order; the end of the stream is not concluded early; the server's estimate of
  the occupancy errs on the safe side;
* server: frames are cut where the peer cut them; the valid prefix of a stream is
  published and nothing else; the ring never overflows; epoll and the client map
  agree; no event reaches the wrong client; a pause always ends;
* reader: what it appended, staged and popped is what was published; nothing
  stays staged while it sleeps;
* store: the files together are a log of whole frames; a crash takes at most an
  unsynced tail; segment limit and sync interval are kept;
* program: a shutdown request and the loss of the reader end it; success is
  reported only when everything published is in the file and synced;
* codec and parser: what is encoded is decoded, a damaged header is refused; what
  the command line accepts, the part that receives it accepts;
* bench: every record arrives with its number; the profiler ends, cleans up and
  never reports an earlier result.

The hazards behind these properties are listed with their source lines in
`PROJECT.json`.

## 2. Modules

| Module | Models |
| --- | --- |
| `FrameChannel` | what the ring promises: a bounded, ordered, reliable stream with an end |
| `SharedRing` | `SharedRingBuffer`, at the grain of its atomic accesses and `memcpy`s |
| `SharedRingProofs` | TLAPS proofs about `SharedRing` |
| `Ipc` | ring (at the grain of its calls) and eventfds, as the two processes use them |
| `Frames` | what connections send and what `decode()` accepts |
| `Server` | `Server::run` with all its handlers; sockets, epoll and signalfd as it uses them |
| `Reader` | `Reader::run`; the store through its calls |
| `System` | `main`: both processes, peers, signals; the properties of the whole |
| `ServerProofs`, `ReaderProofs`, `ServiceProofs` | TLAPS proofs about `System`, each extending the one before: the server's control state, its buffers and the ring; the reader and the exit; frames and the abstract service |
| `DurableLog` | what the store promises: a log of whole frames that loses at most its unsynced tail |
| `FileStore` | `FileStore` and the file system it works on, one step per system call |
| `FileStoreProofs` | TLAPS proofs about `FileStore` |
| `TelemetryService` | what the whole program promises: the frames of each connection in order, stored as a prefix, success only when all is durable |
| `StoreConfig` | the settings of a store and `validateConfig()`, shared by the store and the command line |
| `CommandLine` | the parsers of the server, the load generator and the profiler |
| `CommandLineProofs` | TLAPS proofs about `CommandLine` |
| `Codec` | `encode()` and `decode()`, byte by byte |
| `Load` | the load generator, and a receiver that decodes what it sends |
| `LoadProofs` | TLAPS proofs about `Codec` and `Load` |
| `Profiler` | the CPU profiler, and the benchmark it runs |
| `ProfilerProofs` | TLAPS proofs about `Profiler` |
| `MCSystem`, `MCCommandLine` | constants for the runs |

### SharedRing

`head` and `tail` are the mathematical counts; the code's `uint64` values are
`Wrap(head)` and `Wrap(tail)`, and every decision is computed from the wrapped
values, with `Modulus = Laps * Capacity` in the place of 2^64 (in the code
`Laps` is 2^47).  A frame's value is its position in the producer's stream: slot
contents are only copied.  A batch is split into the load of the other side's
index, one `memcpy` or two, and the release store.  An acquire load of the other
side's index may return any value not older than one seen before
(`tailSeen..tail`, `headSeen..head`); reading the close flag as set makes the
final head visible, because its store is a release and its load an acquire.
`MaxFrames` bounds the number of frames for TLC; no theorem depends on its value.

### Ipc

Since `SharedRing` implements `FrameChannel`, the processes use the ring as the
sequence `stream` of published frames and the number `tail` of released ones;
the old values a load may return are kept (`tailSeen`, `headSeen`).  An eventfd
is the index its writer had reached at its last unconsumed write, or `NotSet`:
the count itself is never used by the code, but the synchronisation is.

### Server

`spc` is the place in `run()`: `start`, `loop` (top of the loop), `wait`
(`epoll_wait`), `dispatch` (the batch), `accept`, `space` (after `consumeEvent`),
`recv`, `check` (pause threshold), `notify` (rest of a `readClient` iteration),
`full`, `stopped`.  `events` is the snapshot `epoll_wait()` returned; its events
are taken in any order and may be old when they are.  Steps are split where the
reader can observe or change something in between: each load of the tail, each
eventfd access and each system call that peers can influence is a step of its
own.  `handleSignalEvent` is one step: a signal that arrives while the signalfd
is being emptied is the same as one arriving just before or just after.
An input buffer is a sequence of units and an offset; a frame is `FrameUnits`
units.  Descriptors are the lowest free ones, as POSIX requires, so they are
reused.  `Stop(r)` is everything after the loop.

Kernel facts used: `accept4()` reserves its descriptor before it looks for a
connection, hence fails without one even if nobody waits (`AcceptFails`, which is
enabled whenever no descriptor is free);
closing the listener drops the connections of its backlog; `EPOLL_CTL_ADD` of a
registered and `EPOLL_CTL_DEL` of an unregistered descriptor fail, which the
code turns into a failure exit; data before a FIN is read before the FIN.

### Reader, System

`rpc` is the place in `Reader::run`.  `StoreAppend` and `AppendFails` are
`FileStore::appendFrames`: all frames, or a prefix and a failure; whether an
append also syncs is left open.  `System` adds `main` (`mpc`), the peers (each
connection is opened at most once), and signals.  `childPending` is the state
carried by the one pending SIGCHLD; a second one is dropped while it is pending,
as the kernel does for standard signals.

`main` starts at `parse`: `ParseArguments` has the three outcomes of the parser
(which `CommandLine` models) and ends with the signals blocked; `Fork` stands for
the ring, the eventfds and `fork()`, which no other process can observe.
`KillMain` kills the main process, also by a SIGTERM that comes before it is
blocked; the kernel closes its sockets and the reader goes on alone.  `faulted`
remembers whether anything failed; no step depends on it.

A connection in `Endless` never hangs up and may send for ever.  `Rebase` keeps
its states finite: when everything published is stored and both sides know it,
all positions are counted from zero again.  The code uses only differences of
positions, so this is invisible to it; `MaxUnits` is then how far the peer may be
ahead of the file.  The refinements are checked in runs without endless
connections.

The refinement to `TelemetryService` takes `stream` as what was accepted, `file`
as what is stored, `synced` as durable and the exit code as the outcome.

The fault groups in `Faults` enable failing calls: `store`, `eventfd` (also the
signalfd), `start`, `epoll`, `accept` (also `EPOLLERR` or `EPOLLHUP` on the
listening socket), `reset` (connections reset by the peer) and `waitpid`.

`Next` has one disjunct `Idle` for the states in which nothing is left to do: the
program has ended, or both processes sleep with ingress open and everything
stored.  Every other state without a successor is reported by TLC as a deadlock;
that is how a lost wake-up would show in the runs without fairness.

### FileStore

A unit (a byte) is its position in everything ever offered, so a file's contents
say exactly which bytes are where.  `fpc` is the place in the code: `open`,
`created`, `recover`, `recoverSync` (`openActiveFile`, `recoverPartialFrame`),
`loop`, `write`, `sync` (`appendFrames`), `rotate`, `rename`, `renamed`
(`rotate`), `idle` and `synced` (between calls), `down` (no process).  A file is
an inode with its data and the part of it on the disk; `dir` maps names to
inodes, `durableDir` is the directory on the disk.

`Die` is the end of the process between any two system calls, with the page
cache intact; a failing call is the same, since the reader exits on it.  After
`PowerLoss` each file has its synced part and any further prefix of what was
written, and the directory is the synced or the current one; data survives only
if `fdatasync()` covered it, names only if `fsync()` of the directory did.
Each process may have a sync interval of its own.  Frames that were in memory when a process ends are not offered again, as in the
program.  The real-time clock is assumed to be later in a later process: archive
names are unique under that assumption only.  `inherited` and `entryAtRisk`
observe what a process finds unsynced when it opens the file; no step depends on
them.

The refinement to `DurableLog` takes the frames of all files as the log, and those
reachable through the directory on the disk as its durable part.  Frames are
numbered in the order they are offered in, so the log is a set of numbers and its
order the order of the numbers; a frame that is not whole would be the number -1,
which the log never contains.  That the order of the files is the same order is
`FilesInOrder`, one half of `AppendExact`: read archive by archive, by time and sequence number, and then the
active file, the units only rise.

### CommandLine

An argument is its text, `Number` says what `std::from_chars` reads in it.  The
three parsers are one loop over a syntax (options for help, flags, options with
a number in a range, options with a text): an option takes the next argument as
its value, whatever it looks like, and the first help or error ends the loop.
The server and the load generator then validate all settings together; the
profiler has checked each range at once.  `ParsesAsDocumented` compares the
result with a definition that does not walk through the arguments: there is a
set of positions, the options, of which exactly those behind an option that
takes a value are left out, and every setting is what its last position says.
`LimitsAgree` compares the limits of two programs that check the same numbers
independently: the server's parser and `FileStore::validateConfig()` on segment
size and sync interval, in both directions, and the profiler and the load
generator it starts on theirs.  The path of the data file is not part of it: the
parser only refuses an empty one, and a path without a file name
(`FileStore.cpp:186`) or in a missing directory is found by the reader when it
opens its store, after `fork()` (`tests/graceful_shutdown.sh:128` tests that the
program then fails); that case is the fault group `store` of `System`.

### Codec, Load

A byte is a digit of base `Radix`, 6 in the run, and `Magic` has four digits in
that base, as `kMagic` has four bytes.  A shift by a byte is a division (`Shr`) or
a multiplication (`Shl`), a mask the remainder; `Fits` says that a number has no
more bytes than its type.  A `double` is its bit pattern, and `One` that of 1.0.  `Load` sends numbered records through
`sendAll()`, whose sends may take any part of a batch.  `Alter` stands for another
sender: it changes up to `MaxAltered` bytes before they are sent.

### Profiler

`step` is the place in `runProfile()`, and `Advance` the order of its commands and
checks.  A command is spawned in its own process group (`Spawn`), polled (`Poll`,
`Collect`), and killed at its deadline (`Deadline`, `Reap`).  `bpc` is the place
in the benchmark's `run_once()`; its server and reader are in a session of their
own, so `KillGroup` leaves them alone and `KillSession`, in the script's
`finally`, does not.  `perf` is external: it may fail at any time and write
anything, but reports success only after its workload has ended.  `WaitFails` is
a `waitpid()` that fails: for a child that was not collected it does so only when
the child has ended and SIGCHLD was ignored from the start, so that the kernel
discarded its status (the same holds for `WaitReaderFails` in `System`).
A results file is the number of its good rows, or `Stale`: complete, but of an
earlier profile.

## 3. Runs

| Run | Bounds | What it shows |
| --- | --- | --- |
| `SharedRing` | capacity 3, counters wrap at 6, batches up to 3, 8 frames | slots wrap twice, counters once; all interleavings inside batches, all old index values. `NoSlotRace`, `InOrder`, `ProducerEstimate`, `EofComplete`, and the refinement `ImplementsChannel` |
| `Backpressure` | 1 connection of 3 frames, ring 2, pause at 1, resume at 0; the reader stopped and continued, a shutdown at any time | `NeverFull`, `Conserved`, `NoSpuriousFailure` |
| `Progress` | an endless connection 2 frames ahead and one that connects and hangs up; ring 2, pause at 2, resume at 0 | `EventuallyStored`, `HangupsServed`, and no deadlock |
| `Failures` | 1 connection of 2 frames, `recv()` of 2, ring 1 with pause at 1; every fault group, either process killed, a shutdown at any time | `SuccessMeansStored`, `PauseEnds`, `ReaderLossEnds`, `ShutdownEnds`, `AnnouncedStored`, `FullRingIsFatal` (the branch the comment at `Server.cpp:418` calls unexpected), and the refinements `ImplementsChannel` and `ImplementsService` |
| `Framing` | 2 connections of 6 and 2 units in frames of 2, `recv()` of up to 3, the third frame invalid; 3 descriptors, batches of 2 events, pause at 1 | `StreamsIntact`, `InputBounded`, `EpollInSync`, `EventsFresh`, `NoFramesDropped` (also for a peer that closes while ingress is paused), and no deadlock |
| `MergedSigchld` | stop, continue and kill of the reader | **violation** of `ReaderLossEnds`, see below |
| `Storage` | frames of 2 units, segments of 3 frames, sync every 3 units or never, 8 frames, batches up to 4, a file of 0, 3 or 9 units found, two restarts | `ImplementsLog`, `AppendExact`, `SegmentLimit`, `SyncCadence`, `SyncCovers`, `CallsEnd` |
| `UnsyncedEntry` | one frame, one restart | **violation** of `SyncSurvives`, see below |
| `CommandLine` | up to 4 arguments of 13 to 16 texts per program: values below, at and above each limit, texts that are no numbers | `ParsesAsDocumented`, `LimitsAgree` |
| `Load` | up to 3 frames, batches up to 2, sends of 20, 33 or all bytes, 2 altered bytes | `RecordsArrive`, `EveryByteCounts` |
| `Profiling` | every mode, 2 runs of the benchmark, with and without old results | `CleanExit`, `SuccessMeansMeasured`, `ProfilerEnds` |
| `OrphanedServer` | every mode, 1 run of the benchmark | **violation** of `NoOrphans`, see below |

The bounds are chosen so that each interesting case occurs: the ring wraps, is
exactly full and exactly empty, ingress pauses and resumes several times, a batch
of events contains an old one, a frame is cut by `recv()`, a descriptor is
reused; in the store the interval is not a multiple of a frame, a batch spans two
segments, and the file found ends in a partial frame, within the limit or above it.  Each
needs at most two connections, and a handful of frames.  Four arguments are two
options with their values: enough for every pair of settings, for a repeated
option and for an option taken as a value.  A send of 20 bytes ends inside a
frame, one of 33 inside the next.
Ratios are kept from the code: a batch of one `recv()` fits between the pause
threshold and the capacity (4 KiB against 1 MiB), the resume threshold lies
below the pause threshold.  `Failures` deliberately gives up the first, so that
a batch that does not fit is among its failures.

Fairness (`FairSpec`): weak fairness of the server, of the reader and of `main`.
Each is a process the operating system schedules; none waits for a particular
peer.  Nothing is assumed of peers, signals or faults: peers may stay silent and
faults may never occur.  A stopped reader is not scheduled.  The server reads one
client until `recv()` finds nothing, so an endless client that is never caught up
with keeps it there (`StaysWithClient`); `HangupsServed` excepts exactly these
behaviours and those with pauses without end, see the notes below.
For `Profiler` it is weak fairness of the controller and of time; `perf`, the
benchmark and the server may hang.

For `FileStore`, `FairSpec` is weak fairness of the steps inside a call: a process
that runs goes on, and each `write()` makes some progress.  Starts, calls, ends
and losses of power may never happen.  Deadlock is not checked there: with
`MaxStarts` used up the store is simply down.

Every property of a passing run has a mutant in `PROJECT.json`: a faulty variant
of one definition, placed before it in its module, which makes TLC report that
property violated.

### Findings

`tests/graceful_shutdown.sh:122` demands: "Losing an idle reader must fail
without another client write or shutdown signal."  The server looks only at the
state delivered with SIGCHLD (`Server.cpp:558`).  If the reader is stopped and
then killed before the server reads the signal, the delivered state is
"stopped", the death is never seen, and an idle server waits for ever.  The
repository's README acknowledges this ("Child-state notifications can merge");
the run `MergedSigchld` exhibits it, and `Failures` shows that without stop
signals the loss of the reader always ends the program.

`README.md:453` says: "The parent directory is synced with `fsync()` after
creating an active file and after renaming a segment."  Only the process that
creates the file does so (`FileStore.cpp:233`).  If it ends between `openat()` and
`fsync()`, or `fsync()` fails, the next process finds the file and never syncs
the directory.  Its `sync()` succeeds, the reader reports success, and a loss of
power may still take the whole file.  `UnsyncedEntry` exhibits this; `Storage`
shows (`SyncCovers`) that in all other cases a successful `sync()`
covers everything in the files.  Syncing the directory on every open would close
the gap.

`profile_cpu.cpp:285` says of `kill(-pid, SIGKILL)` at a command's deadline: "also
stop benchmark and its Server/Reader children" (and line 293, after a failure,
"clean up descendants left by a failing benchmark").  `run_benchmark.py:132`
starts the server with `start_new_session=True`: server and reader are not in
the group that is killed, and the script's own `os.killpg()` never runs, since
the script is killed too.  `OrphanedServer` exhibits the server and the reader
left running, with the port in use; `Profiling` shows (`CleanExit`) that they are
gone whenever the benchmark ends by itself.

### Noted while modelling

* The 64 KiB limit on a client's pending input cannot be reached: all complete
  frames leave the buffer after each `recv()`, so fewer than one frame plus one
  `recv()` is ever pending (`InputBounded`).
* When `accept4()` takes the last free descriptor, the next iteration fails and
  stops the server, even if no further peer is waiting (`AcceptFails`).
* A client that keeps its socket full is read until the ring reaches the pause
  threshold; until then the server sees no other event, SIGTERM included.  And a
  pause drops the rest of the batch of events: if the same client comes first
  after every resume and fills the ring again, another one is never read.
  Nothing in the repository promises fairness between clients; `HangupsServed`
  states what does hold.
* The main process can be killed by SIGTERM without cleaning up until
  `blockManagedSignals()`; there is nothing to clean up by then.
* `m_unsyncedBytes` starts at 0 when an existing file is opened: what an earlier
  process left unsynced is not counted until the first sync (`SyncCadence` says so).
* The check `m_unsyncedBytes >= syncEveryBytes` at the top of the append loop
  (`FileStore.cpp:88`) never holds: every chunk that reaches the interval is synced
  at once (a conjunct of `Cadence` in `FileStoreProofs`).

## 4. Proofs

### The ring

`SharedRingProofs` proves, for every capacity, every batch size and every counter
width that is a multiple (at least 2) of the capacity:

* `TypeCorrect`, `NoRace`, `StreamInOrder`, `EstimateSafe`, `EofIsComplete`:
  `Spec => []P` for the five invariants the run checks;
* `RingImplementsChannel`: `Spec => Channel!Spec`, the refinement.

Assumption: `RingAssumption` only (2^64 is a multiple of the capacity 2^17).

The argument.  `NoSlotRace` and `InOrder` are not inductive: while a batch is
copied, nothing in them says what is in the slots.  `IInv` adds

* `Knowledge`: `tailSeen <= tail <= headSeen <= head <= tailSeen + Capacity`:
  what a side knows of the other's counter is old, never wrong;
* `PushFits`, `PopFits`: the batch being copied lies inside the free slots above
  `head`, or the published frames above `tail`;
* `Stored`: slot `n % Capacity` holds frame `n` for every published, unreleased `n`;
* `PushCopied`, `PopCopied`: the part of a batch already copied is in place;
* `EndKnown`: once the close flag was seen, the consumer knows the final head.

Two lemmas carry the arithmetic.  `PendingExact`: the wrapped difference of two
wrapped counters that are at most `Capacity` apart is their true difference.
`SlotsDiffer`: two different positions less than `Capacity` apart have different
slots.  From these, each action preserves `IInv` (one lemma per action, `StepInv`
combines them).  `NoRace` follows from `PushFits` and `PopFits`: the positions
written and read lie in one window of `Capacity` positions.  For the refinement,
`Publish` is `Accept(pCount)`, `Release` is `Deliver(cCount)`, `CloseProducer` is
`Close`, a successful `LoadEmpty` is `End`, and all other steps stutter.

### The two processes and main

Three modules prove about `System`, for every set of connections and what each
sends, every number of descriptors, every frame, read and buffer size, threshold,
batch size and capacity, with every fault, signal and crash of the model.
Assumptions: the named ones of `Frames`, `Ipc`, `Server`, `Reader` and `System`,
which only say that these constants are numbers, positive where zero makes no
sense; what a theorem needs beyond them is in its statement.

`ServerProofs`: `ControlInvariant`, that `ControlInv` holds always.  `EpollInSync`
alone is not inductive: only the place in `run()` says that a client removed by
`readClient()` was watched and that none is left when draining begins.  Added are
`Phases` (what goes with each place: open or paused ingress, the client whose event
is handled), `Snapshot` (an event still to be handled belongs to the connection
that has its descriptor now, at most one per descriptor) and `ClientsOpen` (clients
are distinct open connections).

The second half of `ServerProofs`: `InputInvariant`, and from it

* `EpollStaysInSync`, `EventsStayFresh`, `InputStaysBounded`: the invariants
  `EpollInSync`, `EventsFresh` and `InputBounded`;
* `NeverFullHolds`, under `Headroom`: `ResumeFrames < PauseFrames`, and the most
  frames one `recv()` can complete fit above the pause threshold.  In the code
  98303 + 128 frames are below 131072.  (`Failures` violates `Headroom` on purpose.)

`InputInv` says that a client's buffer holds exactly the last units read from its
connection (`Buffers`), what each side knows of the ring (`Ring`), that peers have
sent at least what was read (`Traffic`) and that a reported space event is still
pending when it is handled (`SpaceFresh`; the read of the eventfd would block).
`NeverFull` needs `Pressure` besides: while ingress is open the ring is known to be
below the pause threshold, except between a read and the check that follows it.

`ReaderProofs`: `ReaderInvariant`, and from it

* `TypesHold`, `ConservedHolds`, `SuccessMeansStoredHolds`: the invariants `TypeOK`,
  `Conserved` and `SuccessMeansStored`;
* `ChannelImplemented`: `Spec => ImplementsChannel`, the refinement of `FrameChannel`
  by the two processes.

`Staged` is the heart of it: file, staged batch and popped batch lie in the
published stream one behind the other and end at the tail.  `Endings` orders the
end: the ring is closed only behind a stopped server, and a reader that exits
with 0 has seen it closed and empty with nothing staged, and has synced.

`ServiceProofs`:

* `HonestInvariant` and `NoSpuriousFailureHolds`: unless something has failed, the
  reader is neither killed nor fails, the state SIGCHLD reports is true, and the
  server stops only with success; this needs `Decodable`, that everything in the
  ring passes `decode()`, since the reader ends in failure when it meets a frame
  that does not;
* `FramingInvariant` and `StreamsStayIntact`: the units read from a connection are
  its published frames followed by what is pending (`Aligned`), its published
  frames are its first ones, in order (`InPlace`), up to the first invalid one
  (`BeforeBad`, `AtBad`);
* `NoFramesAreDropped`, under `Roomy` (`FrameUnits + RecvUnits <= MaxInput + 1`; in the
  code 31 + 4096 bytes are within 65536): otherwise the limit on pending
  input would cut a connection;
* `ServiceImplemented`: `Spec => ImplementsService`, step by step: publishing is the
  service's acceptance, appending its storing, and so on to the exit code.

`ChannelImplemented` and the last three say `Endless = {}`: `Rebase`, which renumbers
the units of an endless connection so that TLC's state space is finite, is a
device of the run `Progress` and no step of the program.  Without endless
connections `MaxUnits` is an arbitrary number per connection.

### The store

`FileStoreProofs` proves, for every frame size, segment limit, set of sync intervals
(multiples of a frame or not), files found at the start, and any number of
processes, batches and losses of power:

* `StoreInvariant`, and from it `StoreTypesHold`, `SegmentLimitHolds` and
  `SyncCadenceHolds` for the invariants `TypeOK`, `SegmentLimit` and `SyncCadence`;
* `LogInvariant`, and from it `FilesInOrderHolds`, `AppendExactHolds` and
  `SyncCoversHolds` for `FilesInOrder`, `AppendExact` (which contains it) and
  `SyncCovers`;
* `StoreImplementsLog`: `Spec => ImplementsLog`, the refinement.

Assumption: `FileStoreAssumption`, that the constants are numbers and a frame has
at least one unit; that the segment limit is a multiple of a frame comes from
`validateConfig()`, which `OpenFile` models.

`StoreInv` consists of types, of `Segments` (archives, in the directory in memory and in the
one on the disk, are full, synced and never the active file; no file exceeds the
limit unless it was found so), `Progress` (`m_currentSize` is the size of the file,
and a chunk has room in its segment) and `Cadence` (`m_unsyncedBytes` covers what is
not on the disk, and stays below the interval plus a frame).  `SegmentLimit` alone
says nothing of the directory a loss of power brings back, nor of the room the
next chunk is computed from.  The arithmetic is in `Floor` and `RoundUp`: cutting
to whole frames, and rounding the distance to the next sync up to a frame, which
never exceeds what is left of a batch and a segment because both are whole.

`LogInv` adds what the files hold.  None of its parts is inductive alone:

* `Entries` relates the two directories: what only the one in memory leads to is
  newer than everything the one on the disk leads to; names are ordered by age, and
  every archive is named before the next name `rotate()` will take.  Without it a
  loss of power could bring back any directory, and a rename could overwrite;
* `Contents`: every file that can be reached holds whole frames but for an
  unfinished one at its end, with rising units, its durable part a prefix, and
  an older file holds earlier units than a newer one;
* `InCall`: what is known at each place in a call (a file just created is empty, so
  that opening it inside `appendFrames()` cuts nothing off; the part of a chunk
  written so far is behind `m_currentSize`);
* `Present`: every unit of the batch that counts as written is in some file.

`FilesInOrder` follows from `Entries` and `Contents`, `AppendExact` from `Contents`
and `Present`, `SyncCovers` from `Entries` and the place `synced`.  For the
refinement, a `write()` that completes frames is the log's `Extend`, a step that
brings data or a name to the disk is its `Sync`, a loss of power its `PowerLoss`,
and all else stutters: cutting off a partial frame, renaming, opening, and every
end of a process leave the set of whole frames as it is.  The lemmas about
`FramesOf` say that a partial frame at the end, and a prefix cut within one, do
not count.

Stating `SegmentLimit` for all files found at the start corrected it: a file above
the limit that ends in a partial frame becomes smaller than it was found.

### The profiler

`ProfilerProofs` proves `ProfilerInvariant` and from it `ProfilerTypesHold`,
`CleanExitHolds` and `SuccessMeansMeasuredHolds`, for every number of runs.
Assumption: `ProfilerAssumption`, at least one run (`parseOptions()` refuses 0).
`ProfilerInv` says that a child exists only while `runCommand()` waits for it and a
benchmark never outlives its command unless it was killed, which ends the
controller (`Command`); and what is known of each result file at each step
(`Results`): old ones are gone once their command has started, and what a check
has seen still holds later.

### The command lines

`CommandLineProofs` proves `ParserInvariant`, and from it `ParsesAsDocumentedHolds`
and `LimitsAgreeHolds`, for command lines of any length, any texts and any
reading of them as numbers.  Assumption: `CommandLineAssumption`, that `Number` gives
a number.  `ParsesAsDocumented` speaks of finished parsers only; `ParserInv` adds
`ParsedSoFar`: while it is parsing, the parser stands behind n arguments, has taken
the options among them, all acceptable, has set what the last of each kind says,
and argument n is not an option that waits for its value.  An option that is taken
extends the set of options by its position (`OptionsGrow`) and becomes the last of
its kind (`OptionTaken`).  `LimitsAgree` needs for the server that
port and path are checked as they are read (`ServerSettings`), so that at the end only
the two sizes can be refused (`Judged`), and for the profiler that every number is in
range at all times (`ProfilerRanges`), since it validates nothing at the end.

### The codec and the load generator

`LoadProofs` is about every base of the bytes, number of frames, batch size,
splitting of sends and altered bytes.  Assumptions: `CodecAssumption`, a base above
2 in which `Magic` has at most four digits and the frame size at most two, and
`LoadAssumption`, that the numbers of the records fit eight bytes, that sends take
something, and that an altered byte is a byte.  All hold for 256, `kMagic` and
`kFrameSize`.

The codec first: a number is its upper part and its lowest byte and two numbers are
equal only if both are (`ShrIs`, `ShlIs`), so reading a field gives back what was
written if it fits, and gives something else as soon as one of its bytes differs.
The positions of the seven fields are disjoint and inside the frame (`FieldsApart`),
so a write leaves every other field alone.  From these follow `DecodesEncoded`, and
what `decode()` makes of a frame of which only some fields agree with an encoded one
(`DecodeIs`).

`LoadInvariant`: the properties speak of complete frames received, but a send may
end anywhere in a frame.  `LoadInv` adds `Counted` (the bytes received are the
batches sent and `offset` bytes of this one, a batch is a number of whole frames
and ends no later than the last frame) and `Received` (each byte received or to be
sent is the byte at its place of the record at its place exactly if it was not
altered).  `RecordsArriveHolds` and `EveryByteCountsHolds` follow frame by frame.

### Only model-checked

* All liveness: `PauseEnds`, `ReaderLossEnds`, `ShutdownEnds`, `AnnouncedStored`,
  `EventuallyStored`, `HangupsServed`, `FullRingIsFatal`, `CallsEnd`, `ProfilerEnds`;
  TLAPS does not reason about fairness.

## 5. Not modelled

* Logging, usage texts, socket options and addresses, packaging and build files.
* `bench/profile_syscalls.py`, a sequential script around `strace`; the time
  limits inside `run_benchmark.py` (a step of it may fail at any time instead) and
  the contents of the files it verifies; `--self-test` of the profiler.
* The reuse of process group numbers by the kernel between `waitpid()` and
  `kill(-pid)` in the profiler.
* `SharedRingBuffer` before `create()`: every operation returns at once.
* A shutdown request together with an endless client: see the notes.

## 6. Plan

Done: the ring, the two processes and `main` with the abstract service, the store,
the codec, the command lines and the bench tools, modelled and checked; proofs
about the ring, the system, the store with its refinement, the command lines, the
codec with the load generator, and the profiler: every invariant and every
refinement the runs check is proved.  Open:

* The view `Reader` has of the store (`StoreAppend`, `AppendFails`, `FinalSync`)
  as a specification that `FileStore` implements within one process.
