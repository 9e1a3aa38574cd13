# A verification of lancaster

Lancaster copies records from a writer's memory-mapped storage to the storages
of any number of subscribers:

    writer -> storage -> publisher (sender) == multicast + TCP ==> subscriber (receiver) -> storage -> reader

Records are guarded by a revision lock, changes are announced in a circular
change queue, packets are numbered, and a receiver asks over TCP for the numbers
it missed. `pubmux` and `submux` (Go) start a publisher per storage and a
subscriber per advertisement. `PROJECT.json` maps every definition to its lines
and lists components, runs, hazards, findings and theorems.

## Parts and modules

| part | state | operations | what is hard | module |
|---|---|---|---|---|
| record lock (`spin.c`, record functions of `storage.c`, loops of `batch.c`, `reader.c`) | revision with lock bit, value words | lock, write, unlock, erase, read and compare, crash, re-creation | a copy taken while the record changes; a dead holder; revision 0 after an erasure | `RecordLock` |
| change queue (`storage.c`; consumers in `sender.c`, `reader.c`, `batch.c`) | slots, head, records, position of each consumer | write (record, slot, head), poll, scan, crash, re-creation, `storage_reset` | being lapped between check and read; `-Q`; a head that goes back; a reset cut short | `ChangeQueue` |
| sender (`sender.c`) | staged packet, numbers and revisions sent, ranges per client, `min_seq` | accumulate, send, heartbeat, accept, reply, hang-up, farewell | clients share `min_seq`; replies spread over polls | `Sender` |
| receiver (`receiver.c`) | storage, number per record, next number, request | packets, heartbeats, gaps, replies | late, double and reordered data | `Receiver` |
| network | packets, connections | lose, repeat, reorder; TCP queue | | `Wire` |
| sender and receivers together | | connect, leave, return, stop, restart | | `Replication` |
| one TCP connection, word by word (`sender.c`, `receiver.c`, `socket.c`) | `out_buf` and `in_buf` of both ends, words on their way | write and read in part, farewell, hang-up, end of file | a buffer that is replaced while half of it is written | `Connection`, which implements `Channel` |
| the sender's loop (`sender_run`, `poller.c`) | array of the poller, place of the walk, clients | poll, handlers, accept, hang-up, stop, farewell, destroy | handlers change the array that is being walked | `EventLoop`, `Poller` |
| eraser, copier, grower (`eraser.c`, `copier.c`, `grower.c`, `storage_grow`) | slots and their locks | erase, compact, copy, grow | three programs on one storage | `Slots` |
| publisher and subscriber (`publisher.c`, `subscriber.c`, `thread.c`, `signals.c`) | two threads, statistics | count, roll, show, stop, join | signals and ends at any step | `Daemon` |
| toucher (`toucher.c`) | list, lock, thread | add, remove, touch, destroy | closing during a pass; a stamp left locked | `Toucher` |
| advert (`advert.c`) | list of notices, message, lock, thread | publish, retract, rebuild, fail, send, stop | the message is replaced while it is sent; an error after the list has changed | `Advert` |
| orphan and re-creation checks | ages of times | create, touch, check, die | order of reading clock and stamp | `Orphan` |
| heartbeats | ages of times | send, stage, arrive, time out | losses and delays add up | `Heartbeat` |
| commander (Go) | process, restart flag | Run, StopWithSignal | a stop between two processes | `Commander`, `CommanderStop` |
| pubmux (Go) | ports, addresses | start, reserve, release | exhaustion, restarts | `Pubmux` |
| pubmux's search (Go, with the vendored `fsnotify`) | paths, watches, events | walk, abort, watch, read and take an event | a file between the listing and the watch; one that vanishes under the walk | `Discovery` |
| submux (Go) | adverts, ignored texts, subscribers | read, subscribe, end, fatal error | order of delete and reset | `Submux` |
| indexes of the library (Go) | map, mutex, position | Update, GetIndex, GetLocation | an error return under the mutex | `Index` |

Actions bear the names of the functions they stand for. `Replication` EXTENDS
`Sender` and `Receiver`, which EXTEND `Wire`; `Submux` composes `Pubmux` and two
instances of `Commander`; `Connection` opens up what `Wire` takes to be one step,
the passage of a message over TCP, and is shown to implement `Channel`, once for
each direction. `MC*` modules give values to constants. Two of them put parts
side by side that share no variable: `MCThreads` (`Daemon`, `Toucher`, `Advert`,
`CommanderStop`, `Index`, `Discovery`) and `MCWatchdogs` (`Orphan`, `Heartbeat`).
A behaviour there is one of a single part, chosen in `Init`, and a property is
that of its part. `*Proofs` modules hold the theorems. Operators named `X_Y`
before `X`, marked "mutant", are faulty versions of `X`: each property is
violated with one of them. Variables under "history" are read by no guard; they
record the exceptions that properties name.

## Assumptions of the models

* Memory is sequentially consistent (x86 and the barriers of the code). A
  storage has one writer, as documented: `++q_head` is not atomic.
* `RecordLock`: fewer writes than a full turn of the revision
  (`MaxWrites <= SPIN_MAX`). The theorems rest on this too. A process that
  starts again does what `receiver.c` does, `storage_create` on the existing
  file; what the reset of `writer.c` adds to that is in `ChangeQueue`.
* `ChangeQueue`: reading a record is one step (`RecordLock`). The writer may die
  at any step and another take the file over, as a subscriber that keeps the
  records or as a writer that resets them in three steps. A consumer that is
  `Heedless` (`-R`) goes on when the storage was created again.
* `Replication`: the queue is ideal up to `QCap` and an overrun ends the sender;
  what the real queue loses is the subject of `ChangeQueue`. TCP messages are
  atomic; what becomes of them in pieces is the subject of `Connection`. A value
  is named by its revision, and revisions only grow: erasure under a running
  sender is not composed. An old connection's hang-up is handled before the same
  receiver is accepted again. Conditions on the clock may hold at any time.
* `Connection`: lengths are kept as far as they matter. A request is two words, a
  heartbeat or farewell one; the greeting and a reply are longer, two and three.
* `EventLoop`: what poll may report for a socket is `Reports`. A write to a
  connection that was reset may end the process, since no program ignores
  SIGPIPE, also the first write, in `tcp_on_accept`. What handlers say to a client is in `Sender` and `Connection`.
* `Orphan`: delays are bounded and `ORPHAN-TIMEOUT` covers the period and the
  delays (`OrphanAssumption`). Users open the storage while its writer lives
  and, unless `Eager`, after the first touch.
* `Heartbeat`: at most `max_missed_hb` heartbeats are lost in a row, and the
  delays fit in the slack. The sender multicasts a heartbeat, or what it has
  staged, only in a round that finds the queue empty; while rounds find changes
  it sends when the packet is full. `FillDelay` bounds how far beyond the
  heartbeat's time this can carry it, and is counted as a delay. Changes that
  come too slowly to fill a packet and too often for an empty round are outside
  the assumption. Clocks are not set.
* `Slots`: the storage a copier reads and the one it fills are different ones
  (`copier.c` does not ask for this). Sources are locked and unlocked by copiers
  only; one may be unused (revision 0), and what is copied then stays unused.
* `Discovery`: a file that is removed does not come back, and the matching of
  patterns is the choice of `Files`. What the watcher's goroutine does is taken
  from `inotify.go`; that the system queues events in order up to a limit is not
  in the repository.
* `Submux`: which adverts match is the set `Wanted`. What `log.Fatalln` ends
  (`FatalError`: a read that fails, a wrong version, a host that is not found, a
  storage that cannot be deleted) counts in `MaxFailures`. The port counter is kept modulo the range.
* `Index`: all keys are different, and a writer fills the records in order.

## Runs

| run | instance | shows |
|---|---|---|
| `record_lock` | a writer, an eraser, a reader, two words, one crash | no torn read, one process inside the lock |
| `change_queue` | two slots, four writes, two re-creations; a sender or reader with or without `-Q`, or a batch reader | entries are lost only by lapping and in the ways a re-creation explains, scans are bounded, an entry leads to its write, consumers reach the head |
| `replication` | two records, two writes, one receiver with two sessions, one end of the sender | nothing forgotten but what `Neglected` names, no step back, `min_seq` is a bound, convergence |
| `connection` | two words down, one up, four messages and three requests | both directions implement `Channel`; a farewell ends both ends; what is staged is delivered |
| `event_loop` | three clients that connect, fill up, go and come back | poller, count and clients agree; a walk serves what is ready once; everyone is told; a stop ends; a waiting client is accepted |
| `slots` | four slots, every list of up to three records, eraser with and without `-c`, two copiers with shared sources, or a grower | survivors and copies kept, holes closed, no lock left, the grown copy is whole, everybody ends |
| `threads` | one part of `MCThreads` at a time | no count lost, nothing used after it is given up, the live message is sent, a stop is final and returns, a signal ends the program, what is listed is served again, a lookup returns |
| `watchdogs` | discrete time | no false alarm, and no silence unnoticed |
| `submux` | two publishers, one or two ports | ports and addresses not shared or leaked; a wanted publisher gets a subscriber, never two |

Three runs are expected to fail; each shows where code and documentation differ:

* `change_queue_overrun`: a consumer lapped during a scan does not notice,
  although without `-Q` an overrun is documented as an error.
* `replication_stale`: a packet staged when the last client left reaches the next
  client with an old value, and the newer change is skipped.
* `index_twice`: a comment in `Update` says it is ok to index more than once, but
  an `Update` that meets a key again returns with the mutex held.

### What the properties do not say

Some properties hold only with an exception. Each exception is written in the
property, describes behaviour of the code, and is needed: without it TLC reports
a violation.

* `NoTornRead`, `MutualExclusion` and `ReadIsCurrent` stop at `underneath`:
  `storage_create` clears the lock bit of every record, also that of another,
  live process, and from then on two processes may write one record. Reads at a
  revision at which a writer died, and reads during which an erasure completed
  (revision 0 lets old numbers come back), are excepted one by one.
* `LossOnlyByLap` and `EntryLeadsToItsWrite` except, besides entries that were
  lapped or skipped with `-Q`, what a re-creation changes behind a consumer that
  goes on (`Unseen`): zeroed records, those of a writer that died between a
  record and its entry, entries before the consumer's own position, and records
  written again up to the revision the sender had sent. `Emptied` is a reset that
  zeroed the records and has not reached, or will never reach, the queue. This
  last case, a reset cut short by a crash, was found when the proof of
  `EntryLeadsTheorem` did not go through.
* `NothingForgotten` and `Converges` except `Neglected` records. One cause is
  that of `replication_stale`. The other is `request_gap`, which writes the next
  range over a request that still waits in `out_buf`; `next_seq` has moved on, so
  the first range is never asked for again. Whether TLC sees it depends on the
  bounds: with `TcpCap = 2` and two writes it is out of reach, so the run has
  `TcpCap = 1`. How often a real connection refuses a 16-byte request is not
  something the model tells.
* `Channel` allows what the code does at three places. A message of which nothing
  is written may be replaced (`request_gap`; the farewell). One that is half
  written may be torn by the same two, and from then on nothing is promised. The
  first take may swallow what follows the greeting, because the greeting is read
  with a single `sock_read`.
* `EveryoneTold` excepts the clients before one to which the write failed:
  `poller_process` ends at the first failure.
* `NoRegress` excepts a subscriber whose sender was replaced while it has not yet
  read the end of its connection (`conn` is `"outlived"`): the new process counts
  from the beginning and multicasts to the same address.
* `HolesEliminatedInOrder` asks for ascending identifiers, a storage without
  holes at the start and no copier. The loop of `eraser.c` pairs the i-th
  identifier with the i-th used record from the end and skips a pair whose hole
  is not before the record; identifiers in another order can leave a low hole,
  although the README of lancaster promises none.
* `RecordsKept` speaks of survivors when no identifier is given twice
  (`GivenOnce`): with `-c` the second time overwrites the record just moved. It
  speaks of copies without `-c` and when the records given are used: compaction
  overwrites a hole that a copier has filled meanwhile.
* `GrownWhole` excepts a slot that was given back with the revision the grower
  had noted (`restored`): `storage_grow` takes no lock and only looks at the
  revision before and after. `storage_find_next_unused` and
  `storage_find_prev_used` do this to every slot they pass, because they lock it
  before they look at it, so a copy taken beside a copier can be locked for good.
  Its value still goes with its revision; a mixture takes a slot that was also
  written in between (`rewritten`). The property says nothing of a record that compaction moves from behind the
  grower to before it.
* `SendsTheCurrent` excepts the sender that a call in progress is about and those
  whose call returned an error since the message was last made (`stale`):
  `make_json_map` can fail for want of a hostname, memory or the lock, after
  `advert_publish` or `advert_retract` has changed the list. The old message then
  goes on being sent, a retracted sender with it, until another call succeeds; a
  repeated `advert_publish` of a sender that is listed makes no message.
* `ServedAgain` excepts a toucher or advert thread that has ended (a signal, a
  failed send or a lock that timed out), which nobody restarts, a sender whose
  `advert_publish` returned an error, and storages that pubmux cannot see: those
  that appear between the listing of a path and its watch, or later in a
  subdirectory; those a walk had not come to when it was aborted, by a directory
  that cannot be listed or by another file that vanished between the listing and
  its turn; those whose event was read before `Add` had noted the watch, which
  `ignoreLinux` takes for one of a file that is not there; and those an event of
  which a full queue dropped.
* `Subscribed` excepts a submux that an error has ended.
* `StopReturns` excepts a process that could not be started, `LookupReturns` an
  `Update` that kept the mutex, which happens only in the ways `Repeated` lists.
* `NoFalseOrphan` has `Eager = FALSE`: users open a storage after its first touch.
  `last_touched` starts at zero and the toucher's first pass may come before the
  storage is on its list, so an earlier user takes a living writer for dead.

### Bounds

Two records, two writes and two sessions let packets overtake each other, leave
gaps, be answered late and cross a reconnection; `MTU = 1` makes every second
record start a packet. One receiver is enough for what happens between it and the
sender; that receivers share `min_seq` is covered by the theorem for any number
of them. A queue of two slots with four writes is lapped; it is created
again after up to `MaxBefore = 2` of them, so that the head goes back behind a
consumer's position, and twice, so that a reset is cut short and followed by
another. Consumers and readers of records change nothing that others see, so one
at a time (`MaxConsumers = 1`, one reader) shows every behaviour of each. One
word of room up and two down make every message of more words be written in
pieces. Three clients are needed for an entry that is moved into a gap to be
neither the first client nor the last. Two ports are needed for two publishers to
run at once, one for the range to be full. In `threads` pubmux has two paths, one with a
subdirectory, and three files, two of one name. In `slots` the lists name
records that are not used and records named before, and one source is not used; a grower meets every list
without copiers and one copier with lists of up to two. The larger of the runs have about 1,560,000 (`slots`), 900,000 (`watchdogs`),
820,000 (`change_queue`), 670,000 (`submux`), 540,000 (`event_loop`) and 360,000
(`connection`) states.

Larger instances, without a violation, of: the record lock (two writers, two
readers, three writes, two crashes); replication (three writes, `TcpCap` 2, two
records per packet, three records, one change at a time). They are not kept
because they take longer, and they are bounded checks all the same.

### Fairness

Weak fairness for a thread's next step, for polls and for what a process does
once it has begun. Strong fairness where a step may be refused again and again by
something that lets go again: a spin lock, a mutex, a socket that would block.
For the sender it is stated on staging a *changed* record (`Staging`); fairness
of reading entries alone lets a sender with `-Q`, which moves back at an overrun,
be refused the same record for ever. Of packets only this is assumed: a heartbeat
repeated for ever arrives once. In `EventLoop` a client that is there reads what
it is sent, unless it goes away: the farewell repeats its write without a time
limit. A writer need not write, a process need not fail, and a program need not
give up waiting for a lock. `CHECK_DEADLOCK FALSE` stands where programs end or a
bound is reached.

## Proofs

For every value of the constants that meets the named assumptions:

* `StorageProofs`, one record (`RecordLock`): `MutualExclusion`, `NoTornRead`,
  `ReadIsCurrent`, for any number of processes, words and crashes. `RevInv`
  bounds revisions by the number of writes and always holds. `LockInv` holds
  until `underneath`: it ties what a reader has copied so far to the present
  value for as long as the revision it noted is the current one and unlocked.
  `ReadIsCurrent` is proved only, with no run of its own.
* `StorageProofs`, the slots (`Slots`): `NoLockLeft`, `GrownWhole`,
  `RecordsKept` and `HolesEliminatedInOrder`, for any length of the storage, any
  lists and any number of copiers. `HoldInv` says from where each program stands
  which locks it holds, `WordInv` that what a program noted of a slot it has
  locked is still so. `PairInv` says that the revision of a slot goes with its
  value, but in the hole being filled, `StayInv` and `ReadInv` what this means
  for the grower between its two looks, a search that passes its slot included. `KeptInv` says where a survivor is at
  each step of a move: in one readable slot, and in a second one only while the
  first is locked. `CountInv` compares the copies a copier finished with the
  slots that hold the source, one element added on each side per copy. `HoleInv`
  divides the holes of a compaction at its two positions: those ahead are the
  identifiers still to come (`HolesAhead`), and behind it none is left
  (`HolesBehind`).
* `ChangeQueueProofs`: `WindowIntact` (proved only), `ScanBounded`,
  `LossOnlyByLap` and `EntryLeadsToItsWrite`, for any capacity and number of
  consumers, writes and re-creations. `QInv` adds what a half-finished
  `storage_write_queue` has already stored. For `LossOnlyByLap` the invariant
  `LInv` says of every record a consumer is not excused on that its copy is
  current, or an entry for it is still ahead of the consumer (`Pending`), or its
  entry is about to be queued (`Writing`). `NInv` says that an entry is no newer
  than the record it names, unless a reset emptied the record.
* `ConnectionProofs`: `MessagesWhole` and `RequestsWhole`, both directions
  implement `Channel`, for any room in the connection and any number of
  messages. Upwards all messages are of two words, so `UpInv` knows the place of
  every word from the number of words before it; it also counts them when one
  was torn, because a request may be replaced after that. Downwards the lengths
  differ, and the words in `in_buf`, in the connection and in `out_buf` are
  taken together as one `Stream`. `StreamInv` says that each is followed by the
  one that follows it in its message or by the first of the next, which no
  division of the stream changes, and which message is the first. After a
  greeting read in part the receiver may be inside a message but never ahead of
  the sender, which is what a farewell in place of an unbegun message needs.
* `EventLoopProofs`: `PollerMatchesClients`, `ServedOnce` and `EveryoneTold`,
  for any number of clients. `poller_remove` moves the last entry into the gap,
  so the proof needs that the gap is where the walk stands: then what is moved
  was passed already. With the last client the multicast socket is removed too,
  from another place. `ArrayInv` says why this is harmless: the first entry is
  the listening socket, and while there are clients the second is a client and
  the third the multicast socket. `WalkInv` says that what was reported is
  served or before the walk, `TellInv` that every client behind the walk of the
  farewell is told.
* `ReplicationProofs`, `SessionProofs`, about `Replication` for any number of
  subscribers, records, sessions and restarts and any losses; the invariants are
  in `Sessions`. `MinSeqBound`: `MinInv` adds that the least number found by a
  scan in progress bounds the records it has passed, which survives re-sending
  because new numbers are larger. `NoRegress`: `SessionInv` says that what a
  subscriber has and what is on its way to it is no newer than what the sender
  has (`KnownInv`) and of numbers the sender has given (`NumberInv`), that of
  what is still to be taken a larger number goes with a value as new
  (`OrderInv`), and that a session begins with nothing on its way back
  (`FreshInv`); `StagedInv` says the same of the packet being staged.
  `NothingForgotten`: of a record the sender owes nobody word of (`Settled`),
  `Remembers` says that whatever carries its number carries its value, and that
  a subscriber past that number has it, was overrun, or has it in a request or a
  reply.
* `ThreadProofs`, about the parts of `MCWatchdogs` and `MCThreads`.
  `NoFalseTimeout` and `SilenceNoticed`, from `HeartbeatAssumption`: `LivingInv`
  bounds the age of the last heartbeat by what is on its way, what is staged and
  how many were lost in a row, `SilentInv` the age of what can still arrive from
  a sender that has gone. `NoFalseOrphan` (for `~Eager`) and
  `WriterLossNoticed`: `TouchedInv`, `DeathInv` and `CreatedInv` bound the ages
  of the stamp and of what a user has read of it. `EachCountedOnce`: `SumInv`
  adds up what is printed, waiting and running. `NoUseAfterFree`: `MemoryInv`
  says that memory is given back only after the join, `ToucherInv` that the list
  and the thread's walk over it name open storages only. `SendsTheCurrent`:
  `AdvertInv` ties the message to the list for every sender whose call is not
  under way and did not fail (`Agrees`), and what is being sent to the message. `StopIsFinal`: `StopInv` says that after
  `StopWithSignal` has begun a command is launched at most once more, and not
  after it returned.
* `SubmuxProofs`: `NothingShared`, `NoPortLeaks` and `NeverTwoSubscribers`, for
  any number of publishers, ports and addresses. `PubInv` ties the ports in use
  and the addresses given out to the publishers that hold them; `SubInv` ties a
  running subscriber to its entry in the map, which `Subscriber.run` deletes
  last.

The types that these proofs need are proved with them and not repeated in the
runs. `MCWatchdogs` and `MCThreads` give values to the constants of the parts
only through their own constants, so the theorems of `ThreadProofs` hold for all
of those too.

Only model-checked: the liveness properties `CatchesUp`, `Converges`, `AllEnd`,
`SignalEnds`, `ServedAgain`, `StopReturns`, `LookupReturns`, `Subscribed`,
`StopEnds`, `Accepted`, `FarewellEnds` and `Delivered`. Liveness under fairness
is out of the prover's reach.

## Not modelled

* `inspector.c`, `dump.c`, `reporter.c`, `error.c`, `xalloc.c`,
  `a2i.c`, `version.c`, `twist.c` and the command lines are input, output and
  parsing. `latency.c` is floating-point statistics, rolled over as in `Daemon`.
* `table.c` and `dict.c` are used by no program here and by one thread at a time.
* Command groups of the commander are used by no program.
* The Go bindings pass calls on to the C library: a ChangeReader is a batch reader
  of `ChangeQueue`. The goroutine that `CreateFile` starts to touch a storage is
  never stopped, so nothing can be claimed of it after `Close`.
* Of `storage.c`: properties, iteration with a callback and synchronisation to
  disk; deletion only as pubmux sees it. Of `socket.c`: names, options and interfaces.

See `components` for every part.

## Plan

1. Erasure under a running sender (a record that goes back to revision 0 while
   its number is being asked for), composed from `Replication` and `Slots`.
2. An abstract specification of replication (each subscriber holds some past
   value of each record, moving forward) and `Replication` as its refinement.
3. Proofs of the liveness properties, once the prover supports fairness. Those of
   `EventLoop` and `Connection` count down a bounded measure and come first.
