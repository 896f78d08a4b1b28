# Lemnos in TLA+

Lemnos discovers hardware (GPIO, PWM, I2C, SPI, UART, USB), matches drivers to
it and runs requests against bound devices.  This directory models its core
(`lemnos-runtime` on top of `lemnos-discovery` and `lemnos-registry`), the Linux
backend below it (hotplug watcher, discovery probes, the sessions of every
transport), the generic drivers and the mock, checks the models with TLC and
proves most of their safety properties with TLAPS.

Paths below are relative to `src/crates/`.  `PROJECT.json` maps every
definition to the lines it models, and lists the runs, the mutants, the
findings, the hazards and the theorems.

    tlc -config EventLog.cfg MCEventLog        # likewise for the other runs
    tlapm EventLogProofs.tla                   # likewise for the other proofs

## 1. The system

| part | state | operations |
| --- | --- | --- |
| event log (`lemnos-runtime/src/runtime/{events,retention}.rs`) | retained events, base index, byte counter, limits | record, record a batch, `take_events`, `set_config`, poll a cursor |
| notifier and subscriptions (`subscription.rs`, `async_runtime/{subscription,sync}.rs`) | version and tail under a mutex with a condition variable; a cursor and the last version seen per subscription | subscribe, poll, `wait_for_update`, `wait_and_poll_next` |
| discovery (`lemnos-discovery/src/{run,report,inventory}.rs`) | none; builds runs, snapshots, diffs | `run_probes`, `merge_snapshot`, `diff`, `record_run`, `from_run` |
| refresh (`runtime/refresh.rs`) | inventory, probe index | `refresh`, `refresh_incremental`: commit, detach, rebind |
| watched refresh (`runtime/watch.rs`) | the watcher's pending events, the refresh mode | poll a watcher, narrow the scope, refresh |
| registry (`lemnos-registry/src/registry.rs`) | drivers, preferred drivers | `register`, `prefer`, `resolve` |
| manifests (`lemnos-driver-manifest/src`) | none | match a rule, a manifest; order matches |
| synchronous runtime (`runtime/{operations,requests,lifecycle,failures}.rs`) | bindings, cached states, desired bindings, failures, configuration, running | `bind`, `unbind`, `request`, `refresh_state`, `start`, `shutdown` |
| async adapter (`async_runtime/*.rs`) | the runtime in an `RwLock`, a table of weak bind locks | the same, each in several critical sections on Tokio's blocking pool |
| Linux watcher (`lemnos-linux/src/watch.rs`) | inotify watches, two maps | `poll`, resynchronise pwm chips |
| Linux probes (`lemnos-linux/src/discovery`) | none | list and read the entries of eight classes, derive buses |
| sysfs sessions (`lemnos-linux/src/transport/{pwm,gpio/sysfs}.rs`) | whether this session exported the channel | export, configure, read, write, close |
| kernel sessions (`lemnos-linux/src/transport/{i2c,spi,uart,usb,gpio/cdev}`) | selected address, cached configuration, claims | transact, configure, claim, close |
| session states (`lemnos-bus/src/session.rs`) | Idle, Busy, Faulted, Closed | `begin_call`, `finish_call`, `mark_closed` |
| generic drivers (`lemnos-drivers-*`, `lemnos-driver-sdk`) | a session and counters per bound device | bind, execute, state, close |
| mock (`lemnos-mock/src`) | devices behind one lock, queues of injected errors | sessions of six interfaces, attach, remove, inject |
| facade, macros | the list of probes; none | delegation; code generation |

How they interact.  A caller (or the facade) hands probes to `refresh`.  Probes return
descriptors; the runtime merges or replaces its inventory, records the difference as events,
detaches the bindings that the difference invalidates and binds desired devices again.  `bind`
and `request` resolve a driver in the registry, call it, and keep the bound device.  Every
recorded event advances the notifier, which wakes subscribers.  A watcher turns hardware
events into a narrower refresh.  A generic driver opens a session when it binds and turns
requests into calls of the session; a call is a sequence of system calls on a device that
other sessions may share.  The async adapter runs all of it from many tasks: it takes the
write lock for a change, the read lock for a query, and calls drivers and probes outside the
lock, except where it shares the synchronous code.

What is hard.  Nothing is persisted, so there is no recovery; the difficulties are

- sections: the async adapter reads under one lock, calls the driver under none
  and writes under another, and an unbind, a refresh or a shutdown may come between;
- locks of four kinds, taken in more than one order (bind lock, `RwLock`, mutex of a
  bound device, mutex of a subscription);
- waiting: a condition variable whose predicate (a version) is not the condition of
  interest (a cursor behind the tail), and clones that share a cursor;
- truncation: two limits, an incremental byte counter, cursors that fall behind;
- partial discovery: a failed probe, a probe that was not asked, two probes that
  claim one device, and an index that must tell these apart refreshes later;
- calls of several system calls: each may fail, another session of the device may
  come between two, and what a session remembers may stop being true;
- shared channels: whoever exports a sysfs channel must unexport it, though sessions
  race, time out and are dropped unclosed;
- hotplug: a watcher that reads directories while they change, whose kernel queue
  overflows, and whose own watches disappear with what they watch.

`PROJECT.json` lists these as hazards, each at its line.

What makes each part correct:

| part | properties |
| --- | --- |
| event log | the byte counter is exact; both limits hold; a poll delivers what is retained, and one with a status never skips events in silence; a sleeper with events to read has a version to wake for; pending events are delivered |
| inventory | the index agrees with the inventory; an incremental refresh, or one with a failed probe, drops a device only on the word of the probe that reported it; the events rebuild the inventory |
| watched refresh | it is a refresh; a strict one stays inside the interfaces of its events |
| runtime | bindings agree with the inventory, states with bindings; every bound device is closed exactly once; unbind and shutdown are final |
| async adapter | the same bound-device accounting under every interleaving; a stopped runtime holds nothing; one lock per device; refreshes are atomic; every call returns |
| registry | the head of the sorted candidates is the unique best candidate or a conflict |
| sysfs sessions | a channel stays exported as long as its exporter lives; an undisturbed call writes in an order the kernel accepts, runs no mixed waveform and ends as asked |
| kernel sessions, drivers | what goes over the bus is what was asked for; a session knows its device; counters and claims are earned; every session is a `lemnos-bus` session |
| Linux watcher, probes | between polls the inventory is true, an event is waiting or the loss has a name; it becomes true; parents exist, and an id is there twice only for one usb interface in two configurations |

## 2. The modules

    EventLog        ProbeInventory   DriverMatching        LinuxDiscovery
                     |          |     |                          |
             WatchRefresh     Runtime                      HotplugWatcher
                                |
                           AsyncRuntime

    SysfsChannel                    StandardRequests <- GenericDrivers
     |        |                                              |
    PwmSessions GpioSessions                           DeviceSessions
     |        |                          |          |          |         |
    SysfsSessions               I2cSessions SerialSessions UsbSessions MockSessions
         |                               |          |          |         |
         |                                         DeviceStack
         +---- implements ----> BusSession <---- implements ----+

Two modules are abstract specifications.  `ProbeInventory`'s `Spec` is what refreshing
means: `WatchRefresh`, `Runtime` and `AsyncRuntime`, which EXTEND it, implement it, with
the inventory's own variables as the refinement mapping.  `BusSession` is what
`lemnos-bus` promises of a session: `SysfsSessions` and `DeviceStack` instantiate it with
a mapping of session states and of the hardware, and implement it.  No module declares a
RECURSIVE operator.  Each part that is run has an `MC` module with the small constants,
and each part that is proved a `...Proofs` module.

**EventLog.**  An event keeps its size, its ordinal and its offset in the stream of
all bytes, so the bytes of a run of events are a difference of offsets and need no
recursion.  `Record` is `push_retained_event` with retention and notification in one
action, as the code holds `&mut Runtime`; an inventory refresh records its batch the
way `record_inventory_events` does.  A waiting task is three program counters: about
to wait, asleep on the condition variable while it holds the subscription mutex, about
to poll.  `Wake`, `TimeOut` and `Poll` interleave with everything.  A poll of the
synchronous runtime says `was_truncated`; the async adapter drops it
(`async_runtime/subscription.rs:85`): only subscriptions outside `AsyncSubscriptions` have
`PollWithStatus`.  `expect`, `gap` and `loss` are histories: the ordinal of the next
event that a subscriber is owed, whether a poll with a status ever said anything else of
truncation than what it skipped, and whether any poll did not hand over all that is retained.

**ProbeInventory.**  A run gives each selected probe a set of descriptors or a failure;
`Runs(requested, called)` is every run that the probes could return.  `CommitRun` is
`prepare_refresh_commit`: reject duplicates, merge or replace, diff, events, index.
Histories: `owner` (who last reported a device), `lost` (devices that an incremental
refresh, or one with a failed probe, dropped although the probe that had reported them did
not withdraw them; a full refresh without a failure replaces the inventory, with the devices
of probes that it did not ask) and `mirror` (a subscriber that applies the events).

**WatchRefresh.**  A watcher holds a set of pending events, each a set of interfaces,
possibly empty.  `PollWatcherAndRefresh` empties it, narrows probes and interfaces by
the mode and commits a refresh or fails; the events are gone in either case, as in
the code.  The history `strayed` records the commit modes in which a strictly scoped
refresh changed a device of an untouched interface.

**Runtime.**  Every public method takes `&mut self`, so each is one action, drivers'
answers included: bind, the first read of the state, execute, state and close may each
fail.  A binding keeps its driver and descriptor, a cached state the binding it was
read through.  Histories: `open` counts bound devices that exist, `released` holds the
devices that nobody asked for since they were unbound.

**AsyncRuntime.**  `task[t]` is the stack of a blocking closure: what it holds (a bind lock, a
bound device that only it knows, one it uses, devices to close) and the next section.  A
section that cannot block inside the lock is one action.  Two can: the commit of a refresh
asks a bound device for its driver inside the write lock, and the synchronous shutdown closes
bound devices there; both wait for a task that is executing.  `writer` is the task that waits
so, and every other section waits for it.  What the probes of a refresh found is fixed before
its commit asks for the lock, so commits may come in another order than the probing, and a
commit that has to wait cannot become one that need not.  Bound devices have serial numbers,
reused once nobody refers to them, so that two of the same device can be told apart in a
finite model.

**DriverMatching.**  What a condition may ask of a device is a *fact*; a rule is the facts
it needs, offers and excludes, and a score; a manifest is interfaces, kinds and rules.
`Runtime` registers and resolves with it: manifests and the facts of each descriptor are
constants, so that a change of hint can change the best driver between two refreshes.
`Runtime` chooses the unique best of a set where the registry sorts a list and looks at
its head; `RuntimeProofs` shows that these agree for every ranking.

**SysfsChannel, PwmSessions, GpioSessions, SysfsSessions.**  One channel of a chip, shared
by sessions.  Opening is three steps (look, export, wait), so sessions race; `Vanish`
takes the channel from under everybody.  A call is the sequence of its writes, each a step
that may be refused by the kernel's own checks or fail for any reason.  `sole` marks a
call that nobody else disturbed: a session cannot promise more, as lemnos has no lock
across processes or sessions.  `attributes` are the contents of the channel's files.  For a
gpio line `value` is logical and `direction` takes `high` and `low` as levels of the wire, so
that what `active_low` is when either is written matters.

**DeviceSessions and the transports.**  Two or more bound devices whose sessions share one
device.  `BeginCall` computes the steps of a request, the transports say what each step does
to `device`, `Succeed` and `Fail` end the call as `finish_call` does.  `book` is what the
session remembers (selected address, cached settings, claims), `stats` the counters of the
driver, `unsure` what a session may no longer rely on.  `I2cSessions` keeps register contents
and the pointer of each device, and three kinds of adapter: one that does plain transfers, one
that only has SMBus transfers with blocks, and one that has bytes only, for which a call
becomes a transfer per register.  `SerialSessions` has spi, uart and gpio lines of the
character device.  Settings are set one by one and read back one by one (`ReadOrder`), by an
spi session also while it is opened, and what was read is remembered when all of it was;
another session may set a field between any two of these steps.  Opening a uart sets its speed
and puts every other setting to `DefaultSetting`; if the port then cannot be read it has
changed and there is no session, which is `BusSession`'s `OpenFails`.  `UsbSessions` claims
with their alternates and rollbacks, and `MockSessions` all six interfaces of the mock with
its injected errors.

**LinuxDiscovery, HotplugWatcher.**  An entry is a probe, a root, a kind, a bus and the
entry it hangs on; its files are absent, bare (the entry is there before its files), ready
or altered (a driver, a device node, a brightness, a speed or an export says something else).
An entry is known by its name, a usb interface by its device and interface number: the
configuration is not in the id (`usb.rs:403`).  `Discover` folds what was read of the entries
into descriptors, as each probe does, and `ReadOutcomes` says what becomes of an entry whose
files cannot be read: the gpio and pwm probes fail, the others skip it.  `HotplugWatcher` puts
the kernel's watches and queue, with merging and overflow, below `poll`, and a refresh that
lists and reads entry by entry above it; the hardware changes at any step, and the kernel may
refuse every listing, every file, every read of the events and every watch to be added or
removed.  `missed`, `unwatched` and `hidden` are histories of the ways in which the watcher is
known to lose a change (section 3).

## 3. The runs

| run | what it asks | result |
| --- | --- | --- |
| `event_log` | accounting, retention, delivery, reported truncation, wakeups | holds |
| `probe_inventory_rejected` | `RefreshToleratesFailure` | violated |
| `watch_refresh` | index, losses and events of every refresh; scope of those a watcher drives, refinement | holds |
| `watch_refresh_full` | `FullStaysInScope` | violated |
| `runtime` | bindings, states, closing, unbinding | holds |
| `async_runtime` | ownership, locks, shutdown, refinement, calls return | holds |
| `async_bind_overlap` | `BindAttemptsSerialize` | violated |
| `async_stale_binding` | `BindingFresh` under interleaving | violated |
| `sysfs_sessions` | exports, order and completeness of writes, refinement of `BusSession` | holds |
| `sysfs_active_low` | `LevelReadsBack` | violated |
| `hotplug` | watches, divergence of the inventory, descriptors, convergence | holds |
| `device_stack` | transfers, what sessions know and drivers report, refinement of `BusSession` | holds |

The passing runs check every property against a mutant of the code: a faulty variant
of one mapped definition, kept next to it and marked "Faulty variant", with which TLC
finds the property violated.

### Findings

1. *A refresh is rejected after two different failures*
   (`runtime/refresh.rs:202`).  A full refresh rebuilds the index from its own reports,
   so it forgets a probe that failed in it although the merge kept that probe's devices.
   If in the next full refresh that probe answers and another fails, its devices are
   both kept and reported, and the snapshot is refused as a duplicate.  A test expects
   "refresh should preserve prior inventory on probe failure".
2. *A strict watched refresh in full mode removes untouched interfaces*
   (`runtime/refresh.rs:323`), against "Refresh only the interfaces explicitly touched by
   watch events" (`config.rs:4`).  The incremental variant keeps the promise, by proof.
3. *Two binds of one device overlap in the driver* (`async_runtime/requests.rs:191`):
   `request` decides about the bind lock by a read that is stale when it binds.
4. *A binding for a device that left the inventory* (`async_runtime/requests.rs:47`):
   the store does not look at the inventory again, against "preserves the synchronous
   runtime semantics"; of the synchronous runtime the property is proved.
5. *An active-low output starts inverted* (`lemnos-linux/src/transport/gpio/sysfs.rs:323`).
   The initial level goes to the file `direction`, which takes it for the level of the wire,
   after `active_low` was set; `read_level` returns the logical `value`, the opposite.  The
   contract of a writable gpio session asks for a round trip (`lemnos-bus/src/contract.rs:36`),
   and the character device does set the logical level.

### What the passing runs excuse

Some properties hold only up to losses that the code really has.  No document promises
otherwise, so they are no findings, but a reader should know them.

- `NoSilentGap` is about polls with a status.  A poll of the async adapter drops
  `was_truncated` (`async_runtime/subscription.rs:85`): events that were dropped before it are
  skipped without a word.  `RetainedIsDelivered` says of both kinds that nothing else is.
- `NothingLost` allows a full refresh without a failed probe everything: it replaces the
  inventory, also of probes that it was not given (finding 2 is a case where that is wrong).
- `DivergenceIsPending`, `InventoryConverges` (`Excused`).
  - Events taken whose refresh came to nothing (`missed`): the poll failed after it had read
    them, at a listing or at a watch to be removed or added (`watch.rs:253`); a probe could not
    list its directory (`i2c.rs:52`, `usb.rs:63`) or, for gpio and pwm, read a chip
    (`gpio.rs:98`, `pwm.rs:91`); or the run was rejected, because a listing that is not atomic
    caught one usb interface in two configurations, whose ids are equal (`usb.rs:403`).
    Nothing asks for these probes again until something else happens to their directories.
  - Roots that appear after the watcher was built, or come back, are never watched
    (`watch.rs:113`; `unwatched`).
  - Entries themselves are not watched, pwm chips apart: what their files say later, also
    that they are there at all, is not noticed, nor that a file which could not be read and
    was skipped can be read now (`hidden`).
  - An overflow touches every interface but does not look for pwm chips again.  A chip that
    came with it stays unwatched (`hidden`), and an IGNORED event that went with it leaves a
    dead registration, which hides that chip's next incarnation.
- `DescriptorsSound` allows the double id of the first of these.
- `SessionsKnowTheirDevice` (`unsure`).  A `configure` that fails half way, of spi
  (`spi.rs:281`) or uart (`uart/kernel.rs:164`), keeps the old cache.  Any session of an spi
  device may set a field of the others; one that is being read back, or opened, between two of
  its four ioctls (`spi.rs:313`) remembers a setting that is stale already.  A
  usb `close` that fails to release forgets all claims (`usb/mod.rs:144`); an alternate
  setting that fails rolls the claim back, also when the interface had been claimed
  before (`libusb_transport.rs:101`).  What is not excused, and proved, is that
  a session remembers what was read and is right about each field that nobody set since.
- `CountersAreEarned` leaves out usb on Linux: a short bulk or interrupt write is counted in
  full.
- `TransfersAreExact` speaks of calls that no other session disturbed: a transaction on
  Linux is a sequence of messages with stop conditions between them (`i2c/kernel.rs:311`).
- `ImplementsBusSession` of `device_stack` is about the Linux sessions.  A session of the
  mock accepts calls after `close`, unlike those of the kernel.

Further differences between mock and Linux that the models show: an i2c `write_read` of
several bytes in the mock reads from where it wrote, its memory grows where a device's wraps,
and a uart `flush` does not look whether the device is still there.  On Linux a closed
session of the gpio character device, or of a uart, holds its line or port until it is
dropped; opening an output line drives it low; and no open line can be configured, though
discovery gives every line the capability `gpio.configure` (`discovery/gpio.rs:192`):
`configure_line` requests the line again while the session's own handle holds it
(`gpio/cdev.rs:222`), which the kernel refuses.

### Bounds

- `EventLog`: two tasks with clones of one subscription, which may also poll with a status and
  so do all that an async one does and more; sizes 1 and 2, `MaxTail` = 4
  events ever, `MaxVersion` = 6.  The limits include zero events, a byte limit below one
  event, and pairs that bind at once; four events are enough to pass each limit, fall
  behind and fall behind again.  The proofs have no such bound on tasks, subscriptions,
  sizes or limits, and hold for every value of `MaxTail` and `MaxVersion`.
- `ProbeInventory`, `WatchRefresh`: two probes of which one serves both interfaces, two
  devices of which both probes may claim one, which may change interface and metadata; events
  for one interface, the other, or none.  Refreshes that no watcher drives are steps of the
  same run, so it also shows what `ProbeInventory` promises.  The state is finite: no cap is
  needed.  `RefreshToleratesFailure` is checked with disjoint devices, so that the rejection
  is not an honest duplicate.
- `Runtime`: one device with three descriptors (same; other hint, which changes the best
  driver; other shape, which ties the drivers), two drivers that their manifests rank and
  a third whose manifest `register` refuses, two configurations.  Devices do not interact
  outside the inventory, which `watch_refresh` checks with two.
- `AsyncRuntime`: two tasks, one device, one driver.  Each hazard is a race of two calls
  on one device; a third party enters through the environment actions and through a
  task's next call.  More devices would exercise only the table of bind locks, whose
  property is proved for all.
- `SysfsSessions`: two sessions of one channel, which shrink and expand period and duty
  cycle, change polarity, disable, or turn a line around; either may be read-only.  The
  proofs hold for any number of sessions and any valid configurations.  States are finite.
- `HotplugWatcher`: eight worlds of up to three entries, which between them have every probe,
  every kind of entry and a usb device with an interface in two configurations; `QueueLimit`
  = 2, so that overflows happen; `MaxChanges` = 3 changes of the hardware and refusals of the
  kernel together (one more than a chip needs to go and come back while something
  else happens), with the files of an entry coming late for free; `LineCount` = 1.
  130,840 states.
- `DeviceStack`: two sessions of one device; s1 is the controller on an i2c bus, s2 a
  session of one address, or a read-only session of a custom driver.  Three registers, so
  that writes of two bytes wrap; `BlockMax` = 2 so that a block read is at its limit; two
  addresses, two usb interfaces; a serial device has two settings, so that the other session's
  set can fall between two reads; `ByteLimit` = 3 bytes a session between two binds; in the
  mock, memories are followed to `MockLimit` = 5 bytes and one error is queued at a time.
  1,010,256 states, a minute and a half.

### Fairness

- `EventLog`: weak fairness of `Wake(t)` and of a poll a task has been told to make.  A
  condition variable notified after the version changed wakes its waiters (`notify_all`),
  and a thread that runs reaches its poll.  `TimeOut`, recording and calls have none.
- `AsyncRuntime`: weak fairness of `Proceed(t)`: the pool runs every thread that is not
  blocked, and driver and probe calls return.  `CallsReturn` is conditional: if from some
  point no new call begins, every call made returns.  Starting, configuring and calling
  have no fairness.
- `HotplugWatcher`: weak fairness of `Poller`: the application polls again and again, which
  is how a watcher is used (`poll_watcher_and_refresh`), and a poll or refresh that began is
  carried on.  The hardware has none, and neither has a choice within the poller: that a poll
  fails, reads one event of several or finds an entry bare is never ruled out.  As
  `MaxChanges` bounds the hardware, `InventoryConverges` speaks of what happens after it
  came to rest.
- `SysfsSessions` and `DeviceStack` are checked for safety only.

## 4. The proofs

All theorems hold for every value of the constants under the named assumptions of the
modules; TLC evaluates each assumption in the runs.

| module | theorems | inductive invariant |
| --- | --- | --- |
| `EventLogProofs` | `TypeCorrect`, `ByteAccounting`, `Retention`, `TruncationIsReported`, `PollsDeliverWhatIsRetained`, `NoLostWakeup` | `IInv` |
| `ProbeInventoryProofs` | `InventoryTypeCorrect`, `IndexIsSound`, `FailureLosesNothing`, `EventsAreComplete` | `InventoryInv` |
| `WatchRefreshProofs` | `WatchTypeCorrect`, `StrictIncrementalScope`, `WatchImplementsInventory` | `WatchInv`, `WatchTypeOK` |
| `RuntimeProofs` | `RuntimeTypeCorrect`, `RuntimeImplementsInventory`, `BindingsAreFresh`, `StatesAreOfBindings`, `ShutdownEmpties`, `HandlesAreClosedOnce`, `UnbindIsFinal`; `ConflictsAreComplete`, `ResolutionIsUniqueBest` | `RuntimeInv`; none: facts about the ranking |
| `AsyncRuntimeProofs` | `AsyncImplementsInventory`, `StoppedHasNoDevice`, `BindLocksAreUnique`, `AsyncTypeCorrect`, `DevicesAreOwnedOnce` | `LockInv`, itself, `LockInv`, `AsyncInv` (the last two) |
| `SysfsSessionsProofs` | `SysfsTypeCorrect`, `ExportIsAccounted`, `OrderIsAccepted`, `ConfigurationIsApplied`, `WaveformIsWhole`, `LineIsAsAsked`, `SysfsImplementsBus` | `SysfsTypeOK` with `WritersMayWrite`; `ExportAccounted`; `FilesInv` |
| `DeviceStackProofs` | `StackInvariant`, `Transferred`, `DevicesKnown`, `CountersEarned`, `StackImplementsBus` | `StackInv`, with `WritersInv` for the last |
| `HotplugWatcherProofs` | `HotplugInductive`, `WatchesAreInverse`, `DivergenceIsAnnounced`, `DescriptorsAreSound` | `HotplugInv`; `InventorySound` for the last |

- `IInv` adds three facts to the properties.  `Placed`: the retained events are the last
  ones recorded, with consecutive ordinals and offsets, so every drop subtracts what the
  events occupied.  `Numbered`: log indices and ordinals differ by what `take_events`
  removed.  `Owed`: a subscriber is owed the event at its cursor, or the log was truncated
  past it.  Retention needs the argument that dropping by count first and by bytes second,
  from the bytes of the whole log, drops enough whichever limit is stronger.
- `InventoryInv` adds `IndexOwned`: a device filed under a probe was last reported by it.
  Then a merge replaces only what the reporter is entitled to withdraw.  That probes stay
  within the interfaces they were asked for is not used.
- `WatchInv` needs no more than the inventory's invariant.  `StrictIncrementalScope` does
  use that a probe reports no device of an interface it was not asked for.
- `RuntimeInv` states one conjunct per device, `DeviceSound`, over its inventory entry,
  binding, state and count, and `OutcomeSound` of every outcome an operation can have; a
  step preserves it device by device.
- `LockInv`: a lock a task refers to is the entry of its device in the table, distinct
  devices have distinct entries, and an entry has a holder; and the run in a task's record is
  one that probes may have returned, which the refinement needs.  That a new lock always exists
  is a pigeonhole argument on the cardinality of `Tasks`.
- `AsyncInv` has two parts.  `TaskSound`, for every task: what it has at which step, so that
  only a task in `store`, `discard` or `closing` owns a bound device, and at most one of each
  device.  `Ownership`, for every device: `open` counts the serial numbers that the map or a
  task has (`Live`), and no two have the same.  Each section of a call then keeps what the
  task and the map have between them, adds a number that nobody has, or closes one
  (`Moves`); `OwnershipStep` derives the rest once for all of them.  That a driver's new
  bound device has a serial number nobody refers to is the second pigeonhole argument
  (`NewSerialFacts`): the other tasks own one and use one each, the map stores one, and there
  are `2 * Cardinality(Tasks) + 1` numbers.  The bound on the numbers therefore hides nothing.
- `SysfsSessions`: `WritersMayWrite` adds to the types that the session of a call with
  writes left may write; the refinement needs it, because `BusSession` lets only such a
  session touch the hardware.  `ExportAccounted` is inductive given the types.  `FilesInv`
  says of every undisturbed call what the channel's files are now, as a function of what they
  were when the call began and of the writes still to come (`AfterWrites`, `LineAfter`):
  then the writes left lead to the target, whatever file is missing, and no write sets
  a duty cycle above the period in force or a timing while the channel runs.  It is proved
  call by call and write by write, for pwm and gpio apart.
- `StackInv` has a part for each transport, what its drivers have counted (`CountersInv`) and
  the contents of the mock (`MockInv`). For i2c (`I2cInv`): a call that nobody disturbed is
  `Faithful`, that is, the steps it has still to make, run on the device as it is now, end
  where the request's own messages, run on the device as it was when the call began, would
  have ended.  `RequestIsExact` shows it of a call that begins, for every adapter, request and
  length, including what wraps past the last register and what a block read that the adapter
  refuses is replaced by; each step then makes the head of what is left. For spi and uart
  (`SerialInv`): a session knows every setting of its device that is not `unsure`; a call,
  also one that opens, is right about every field that it has read and nobody has set since
  (`Reading`), and a configure that has not read all fields has the others still to read
  (`Whole`), so that what it remembers in the end is all of the settings.  For lines
  (`CdevInv`): the session that has requested a line holds it.  For usb (`UsbInv`): the claims
  a session remembers, those its driver counted and those the kernel has agree but for the
  number that the call in progress has claimed or released already (`InFlight`) and those a
  failed undo left open; a claim is in one of five places (`ClaimCall`). `CountersInv`: the
  bytes a driver will have counted when its call succeeds have reached the device or are
  carried by the steps still to be made (`OnWay`); on Linux they never exceed `ByteLimit`, the
  bound that a call has to keep to begin. The refinement needs `WritersInv` as well: a session
  that may not write is in a call that only reads, because `BusSession` lets only a session
  that may write touch the hardware, and an open that fails after it set up a port is allowed
  because no session has that port.
- The sequences.  What a call does is computed by recursive functions and folds over its
  messages, bytes and steps.  `Recursion` shows once, from the well-foundedness of the
  numbers, that a recursion over a sequence of functions defines a function, and
  `RecursionIsUnique` that it defines one; `Result` is its last value.  `Payload`, `Stored`,
  `PlainResult`, `FlattenSeq`, what the steps of a call make of a device (`Ran`) and what
  they carry (`Carried`) are identified with it, and theorems about `Result` of one
  function, of the first and of two sequences put together do the work of an induction
  for each of them.
- `HotplugInv` has three parts.  `Shape`: the two maps are inverse, the kernel watches
  nothing that the watcher does not know, an IGNORED event speaks of a watch that is gone,
  and a root that is not watched was made after the watcher.  `Kept`, for every probe: one
  that a poll in progress will not refresh has a true inventory or a loss that is accounted
  for, and one that is being refreshed has been read as the hardware is (`Agrees`) or is
  told of the difference.  `EntryKnown`: an entry read without its files, and a chip without
  a watch, are known.  The strengthening that makes it inductive is `Durable`: an event
  counts only if its path is a root or an entry that is there, as the registration of a
  chip that is gone is removed before the queue is read.  Every change of an entry reaches
  the queue through the root or the entry (`HardwareKeeps`), and a batch that takes such
  an event refreshes its probe (`EventsAreTaken`).  The proof uses that a directory has one
  entry of a name and that an entry lies under a root of its probe, and neither
  `MaxChanges` nor `QueueLimit`, nor what `Discover` computes.
- `DescriptorsAreSound` is about what `Discover` computes, for any listing and whatever was
  read of each entry.  `SoundTo` holds after every entry: the devices found have every id
  once, unless one usb interface was read in two configurations, and come after their parents,
  a bus with an id is among them, and any other id was given by an entry read before.
  `EntryKeepsSound` shows that each probe keeps it, by the kind of the entry; `CountingUp`,
  from the well-foundedness of the numbers, carries it to the end of the listing.  It uses
  that entries of a probe that are not buses lie below one root, so that no two share a name:
  the i2c probe has a second root, and only buses in it.
- The ranking of drivers needs no induction: a ranking is any sequence in which no candidate
  is before a better one, so the first is best, and what ties with it is what conflicts.

Only model-checked: liveness (`PendingIsDelivered`, `CallsReturn`, `InventoryConverges`),
which is out of the provers' reach.  Every invariant and action property that a passing
run checks is stated by a theorem.

## 5. Assumptions and what is left out

- Drivers, probes and watchers are external: each call returns, with any answer of the
  right kind or an error.  A driver does not call back into the runtime.
- Kernel, libusb and hardware are external: a system call has its documented effect or
  fails.  A channel, a chip or a device may go at any time.
- Requests have the types that Rust gives them, and configurations name fields of their
  interface: `I2cAssumption`, `SerialAssumption` and `UsbAssumption` say so of the constant
  `Requests`.  That a request is valid is not assumed: it is a guard, as in the code.
- Panics and the poisoning of locks; `with_runtime`, which runs a caller's closure under
  the lock and can do only what the modelled operations do; enrichers; the parallel
  batches of `run_probes`, whose results are put back in order; reports and tracing.
- A dropped handle counts as neither open nor closed when the driver's bind succeeded and
  the first read of the state failed (`operations.rs:33`): its `Drop` decides.
- Two promises of the synchronous runtime that the async adapter does not keep are not
  stated as properties of it: an unbind is final, and a cached state belongs to a binding.
  The completing section of a call comes after the lock was released, and can mark a device
  as desired or cache its state after an unbind or a shutdown.

Not modelled:

- plain i2c writes of more than 8192 bytes, which i2c-dev cuts short: a write of the model
  fits one system call.  The conversions of spi settings (0 bits per word read as 8, a speed
  of 0 as none) are left out too, as no value of the model stands for such a default;
- the facade and its builder, which pass calls on to `Runtime` or `AsyncRuntime` and keep no
  state but the list of probes;
- the macros, which generate code at compile time;
- value types, descriptors' builders, configured devices and names of `lemnos-core`: data
  without state.  What probes and requests make of them is modelled where it matters;
- the discovery probe of the mock: `ProbeInventory` has probes that report anything;
- helpers of the SDK that forward one call, and the conformance kit;
- error kinds and texts: a call succeeds or fails, in which step is kept.

## 6. What could follow

1. Parallel batches in `ProbeInventory`: the sorted result equals the sequential run.
2. Properties for the hazards that have none yet: what the async adapter promises of
   desired bindings and cached states after an unbind, and a request that reaches a device
   which was unbound meanwhile.
