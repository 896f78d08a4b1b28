---------------------------- MODULE AsyncRuntime ----------------------------
(***************************************************************************)
(* AsyncRuntime: the Runtime behind an RwLock, used by tasks on the Tokio   *)
(* blocking pool (async_runtime).  An operation takes the runtime lock      *)
(* several times and calls the driver between two critical sections, so     *)
(* each critical section and each driver call is an action.                 *)
(*                                                                         *)
(* Three kinds of lock: the RwLock (a section that cannot block is one      *)
(* action, taken while no writer waits inside; writer is a task that holds  *)
(* the lock and waits for a bound device), the Mutex of every bound device, *)
(* and the per-device bind locks, kept by weak reference in bind_locks.     *)
(*                                                                         *)
(* Bound devices of one device id are told apart by serial numbers, which   *)
(* are reused once nobody refers to them.  config, registry, inventory and  *)
(* device state are those of Runtime; its history released is not kept.     *)
(***************************************************************************)
EXTENDS Runtime

CONSTANTS
    Tasks,
    NoTask, NoLock

ASSUME TaskAssumption ==
    /\ IsFiniteSet(Tasks) /\ NoTask \notin Tasks /\ Devices # {}
    /\ NoLock \notin 1..Cardinality(Tasks)

VARIABLES
    task,           \* where each task is, and what it holds
    bind_locks,     \* device id -> lock that can still be upgraded
    serial,         \* device id -> serial number of the stored bound device
    writer          \* the task that waits for a bound device inside the RwLock

asyncOnly == <<task, bind_locks, serial, writer>>
asyncVars == <<runtimeVars, asyncOnly>>

Locks == 1..Cardinality(Tasks)
Serials == 1..(2 * Cardinality(Tasks) + 1)

\* What the probes of a refresh, all of them or fewer, may have found.
RefreshRuns == UNION {Runs({}, called) : called \in SUBSET Probes}

NoRun == [selected |-> {}, requested |-> {}, found |-> [p \in {} |-> Empty]]

\* lock: the task's Arc of a bind lock; own: a bound device that only it knows;
\* use: the bound device that it calls; plan: driver and descriptor of the one
\* that it makes or calls; detached: bound devices that it took out of the map
\* and has to close; mode, run: what its refresh found; targets: the devices
\* that its refresh binds again.
Idle == [pc |-> "idle", op |-> "none", device |-> CHOOSE d \in Devices : TRUE,
         lock |-> NoLock, config |-> CHOOSE c \in Configs : TRUE, plan |-> Unbound,
         own |-> 0, use |-> 0, outcome |-> Nothing,
         detached |-> {}, targets |-> {}, mode |-> "Full", run |-> NoRun]

Unlocked == writer = NoTask

At(t, label) == task[t].pc = label

\* The steps at which a task has the Arc of a bind lock and not yet the guard.
WaitsForBindLock(t) == task[t].pc \in {"bind_read", "request_read"}

\* Faulty variant: the guard is given only to the last reference.
BindLockUnshared(t) ==
    \A u \in Tasks \ {t} : task[u].lock = task[t].lock => task[t].lock = NoLock

BindLockFree(t) ==
    \A u \in Tasks \ {t} :
        task[u].lock = task[t].lock => task[t].lock = NoLock \/ WaitsForBindLock(u)

\* Nobody is inside a call of bound device n of d.
MutexFree(d, n) ==
    \A u \in Tasks : ~ (At(u, "executing") /\ task[u].device = d /\ task[u].use = n)

\* The bound devices of d that task t owns, and all that anyone refers to.
OwnedBy(t, d) ==
    {n \in Serials : \/ task[t].device = d /\ task[t].own = n
                     \/ <<d, n>> \in task[t].detached}

Referenced(d) ==
    {serial[d]} \cup (UNION {OwnedBy(t, d) : t \in Tasks})
    \cup {task[t].use : t \in {u \in Tasks : task[u].device = d}}

NewSerial(d) == CHOOSE n \in Serials : n \notin Referenced(d)

-----------------------------------------------------------------------------
(* Steps of a task                                                          *)

\* Task t goes on as r.  The entry of a bind lock that nobody refers to any
\* longer cannot be upgraded.
Become(t, r) ==
    /\ task' = [task EXCEPT ![t] = r]
    /\ bind_locks' = [d \in Devices |->
          IF \E u \in Tasks : task'[u].lock = bind_locks[d] THEN bind_locks[d] ELSE NoLock]

\* The closure ends: the bind lock is released and complete_operation is next.
Completing(t, outcome) ==
    [task[t] EXCEPT !.pc = "complete", !.lock = NoLock, !.own = 0, !.use = 0,
                    !.plan = Unbound, !.outcome = outcome]

\* Faulty variant: a lock that one task refers to is taken for a stale one.
BindLockOfWaiters(d) ==
    IF Cardinality({t \in Tasks : bind_locks[d] \in Locks /\ task[t].lock = bind_locks[d]}) > 1
    THEN bind_locks[d]
    ELSE CHOOSE l \in Locks : \A t \in Tasks : task[t].lock # l

\* bind_lock: the lock of d, or a new one if there is none that lives.
BindLock(d) ==
    IF bind_locks[d] # NoLock THEN bind_locks[d]
    ELSE CHOOSE l \in Locks : \A t \in Tasks : task[t].lock # l

BeginLocked(t, op, pc, d) ==
    LET l == BindLock(d) IN
    /\ task' = [task EXCEPT ![t] = [Idle EXCEPT !.op = op, !.pc = pc, !.device = d, !.lock = l]]
    /\ bind_locks' = [bind_locks EXCEPT ![d] = l]

BeginBind(t, d) ==
    /\ At(t, "idle")
    /\ BeginLocked(t, "bind", "bind_read", d)
    /\ UNCHANGED <<runtimeVars, serial, writer>>

\* request looks first whether the device is bound, and takes no bind lock then.
BeginRequest(t, d) ==
    /\ At(t, "idle") /\ Unlocked
    /\ IF IsBound(d)
       THEN Become(t, [Idle EXCEPT !.op = "request", !.pc = "request_read", !.device = d])
       ELSE BeginLocked(t, "request", "request_read", d)
    /\ UNCHANGED <<runtimeVars, serial, writer>>

\* Faulty variant: the registry's error is lost.
PreparedUnresolved(t) ==
    LET d == task[t].device IN
    [task[t] EXCEPT !.pc = "driver_bind", !.config = config,
        !.plan = [driver |-> Resolve(d, inventory[d]), descriptor |-> inventory[d]]]

\* prepare_binding
Prepared(t) ==
    LET d == task[t].device
        driver == Resolve(d, inventory[d])
    IN  IF driver = NoDriver THEN Completing(t, Failed)
        ELSE [task[t] EXCEPT !.pc = "driver_bind", !.config = config,
                !.plan = [driver |-> driver, descriptor |-> inventory[d]]]

\* The bound device of d is shared with the task.
Using(t, d) ==
    [task[t] EXCEPT !.pc = "execute", !.use = serial[d], !.plan = bindings[d], !.config = config]

\* bind, under the bind lock and the read lock.
BindRead(t) ==
    LET d == task[t].device IN
    /\ At(t, "bind_read") /\ BindLockFree(t) /\ Unlocked
    /\ Become(t, IF ~ running THEN Completing(t, Failed)
                 ELSE IF IsBound(d) THEN Completing(t, Nothing)
                 ELSE IF inventory[d] = Absent THEN Completing(t, Failed)
                 ELSE Prepared(t))
    /\ UNCHANGED <<runtimeVars, serial, writer>>

\* validated_request_device for an interaction that is or is not valid, and
\* what follows if it is.
Validated(t, valid, next) ==
    IF ~ running \/ inventory[task[t].device] = Absent \/ ~ valid
    THEN Completing(t, Failed) ELSE next

\* request, under the read lock, and under the bind lock if it took one.
RequestRead(t) ==
    LET d == task[t].device IN
    /\ At(t, "request_read") /\ BindLockFree(t) /\ Unlocked
    /\ \E valid \in BOOLEAN :
          Become(t, Validated(t, valid,
                       IF IsBound(d) THEN Using(t, d)
                       ELSE IF ~ config.auto_bind_on_request
                            THEN Completing(t, Failed)
                       ELSE [task[t] EXCEPT !.pc = "request_write"]))
    /\ UNCHANGED <<runtimeVars, serial, writer>>

\* The second look of a request that has to bind, under the write lock.
RequestWrite(t) ==
    LET d == task[t].device IN
    /\ At(t, "request_write") /\ Unlocked
    /\ \E valid \in BOOLEAN :
          Become(t, IF IsBound(d) THEN Using(t, d) ELSE Validated(t, valid, Prepared(t)))
    /\ UNCHANGED <<runtimeVars, serial, writer>>

\* PreparedBinding::bind, without a runtime lock.
DriverBind(t) ==
    LET d == task[t].device
        made(state) == [task[t] EXCEPT !.pc = "store", !.own = NewSerial(d),
                                       !.outcome = Outcome(TRUE, Unbound, state)]
        states_read == {NoState} \cup
            (IF task[t].config.cache_state_on_bind THEN {task[t].plan} ELSE {})
    IN  /\ At(t, "driver_bind")
        /\ \/ Become(t, Completing(t, Failed)) /\ UNCHANGED open
           \/ /\ \E state \in states_read : Become(t, made(state))
              /\ open' = [open EXCEPT ![d] = @ + 1]
        /\ UNCHANGED <<vars, config, registryVars, bindings, states, desired_bindings,
                       failures, released, serial, writer>>

\* Faulty variant: an operation that comes too late does not look again.
StoreUnchecked(t) == "store"

\* What the write section after DriverBind does with the new bound device.
StoreDecision(t) ==
    IF ~ running THEN "refuse"
    ELSE IF IsBound(task[t].device) THEN "discard" ELSE "store"

\* Faulty variant: a bound device that is not stored is only dropped.
ClosesNothing(t, decision) == 0

\* close_prepared_binding_output inside the write section.
ClosesNow(t, decision) ==
    IF decision = "refuse" \/ (decision = "discard" /\ task[t].op = "bind") THEN 1 ELSE 0

\* The write section after DriverBind.  A request that finds another binding
\* closes its own only after the section.
Store(t) ==
    LET d == task[t].device
        decision == StoreDecision(t)
        stored == Outcome(TRUE, task[t].plan, NoState)
        after == CASE decision = "refuse" -> Completing(t, Failed)
                   [] decision = "discard" /\ task[t].op = "bind" -> Completing(t, Nothing)
                   [] decision = "discard" /\ task[t].op # "bind" ->
                        [task[t] EXCEPT !.pc = "discard", !.use = serial[d],
                                        !.plan = bindings[d], !.outcome = Nothing]
                   [] decision = "store" /\ task[t].op = "bind" -> Completing(t, stored)
                   [] decision = "store" /\ task[t].op # "bind" ->
                        [task[t] EXCEPT !.pc = "execute", !.own = 0, !.use = task[t].own,
                                        !.outcome = stored]
    IN  /\ At(t, "store") /\ Unlocked
        /\ Become(t, after)
        /\ open' = [open EXCEPT ![d] = @ - ClosesNow(t, decision)]
        /\ IF decision = "store"
           THEN /\ bindings' = [bindings EXCEPT ![d] = task[t].plan]
                /\ serial' = [serial EXCEPT ![d] = task[t].own]
                /\ states' = [states EXCEPT ![d] = Cached(task[t].outcome, @)]
           ELSE UNCHANGED <<bindings, serial, states>>
        /\ UNCHANGED <<vars, config, registryVars, desired_bindings, failures, released, writer>>

\* A request closes the bound device that it could not store.
Discard(t) ==
    /\ At(t, "discard") /\ Unlocked
    /\ Become(t, [task[t] EXCEPT !.pc = "execute", !.own = 0])
    /\ open' = [open EXCEPT ![task[t].device] = @ - 1]
    /\ UNCHANGED <<vars, config, registryVars, bindings, states, desired_bindings,
                   failures, released, serial, writer>>

\* The Mutex of the bound device is taken for execute and state.
Execute(t) ==
    /\ At(t, "execute") /\ MutexFree(task[t].device, task[t].use)
    /\ Become(t, [task[t] EXCEPT !.pc = "executing"])
    /\ UNCHANGED <<runtimeVars, serial, writer>>

\* They return.
Executed(t) ==
    LET o == task[t].outcome
        reads == task[t].op = "refresh_state" \/ task[t].config.cache_state_on_request
    IN  /\ At(t, "executing")
        /\ \E out \in {[o EXCEPT !.ok = FALSE], o} \cup
                      (IF reads THEN {[o EXCEPT !.state = task[t].plan]} ELSE {}) :
              Become(t, Completing(t, out))
        /\ UNCHANGED <<runtimeVars, serial, writer>>

\* The last section of bind, request and refresh_state: complete_operation, the
\* state is cached, and a device that the operation bound becomes desired.
\* Nothing is asked again, neither of the binding nor of the runtime.
Complete(t) ==
    LET d == task[t].device
        o == task[t].outcome
    IN  /\ At(t, "complete") /\ Unlocked
        /\ failures' = IF o.ok THEN failures \ {d} ELSE failures \cup {d}
        /\ states' = [states EXCEPT ![d] = IF o.ok THEN Cached(o, @) ELSE @]
        /\ desired_bindings' = desired_bindings \cup
              (IF o.ok /\ o.stored # Unbound THEN {d} ELSE {})
        /\ Become(t, Idle)
        /\ UNCHANGED <<vars, config, registryVars, bindings, open, released, serial, writer>>

\* refresh_state: the first write section.
BeginRefreshState(t, d) ==
    /\ At(t, "idle") /\ Unlocked /\ running
    /\ IF IsBound(d)
       THEN /\ Become(t, [Using(t, d) EXCEPT !.op = "refresh_state", !.device = d])
            /\ UNCHANGED failures
       ELSE /\ failures' = failures \ {d}
            /\ UNCHANGED <<task, bind_locks>>
    /\ UNCHANGED <<vars, config, registryVars, bindings, states, desired_bindings,
                   open, released, serial, writer>>

-----------------------------------------------------------------------------
(* Operations that take bound devices out of the map                        *)

\* The bindings, states and failures of gone leave the runtime.
Detach(gone) ==
    /\ bindings' = [d \in Devices |-> IF d \in gone THEN Unbound ELSE bindings[d]]
    /\ states' = [d \in Devices |-> IF d \in gone THEN NoState ELSE states[d]]
    /\ failures' = failures \ gone
    /\ serial' = [d \in Devices |-> IF d \in gone THEN 0 ELSE serial[d]]

\* Task r goes on to close what it has detached; a refresh then rebinds.
Closing(r) ==
    IF r.detached # {} THEN [r EXCEPT !.pc = "closing"]
    ELSE IF r.op = "refresh" THEN [r EXCEPT !.pc = "rebind"]
    ELSE Idle

BoundOf(gone) == {<<d, serial[d]>> : d \in {e \in gone : IsBound(e)}}

\* unbind: the write section.
AsyncUnbind(t, d) ==
    /\ At(t, "idle") /\ Unlocked
    /\ Detach({d})
    /\ Become(t, Closing([Idle EXCEPT !.op = "unbind", !.detached = BoundOf({d})]))
    /\ desired_bindings' = desired_bindings \ {d}
    /\ UNCHANGED <<vars, config, registryVars, open, released, writer>>

\* shutdown_async: the write section.
AsyncShutdown(t) ==
    /\ At(t, "idle") /\ Unlocked
    /\ Shutdown
    /\ Detach(Devices)
    /\ Become(t, Closing([Idle EXCEPT !.op = "shutdown", !.detached = BoundOf(Devices)]))
    /\ desired_bindings' = {}
    /\ UNCHANGED <<config, registryVars, open, released, writer>>

\* close_detached_bindings, without a runtime lock; each close waits for the
\* Mutex of its bound device.
CloseDetached(t) ==
    /\ At(t, "closing")
    /\ \E b \in task[t].detached :
          /\ MutexFree(b[1], b[2])
          /\ open' = [open EXCEPT ![b[1]] = @ - 1]
          /\ Become(t, Closing([task[t] EXCEPT !.detached = @ \ {b}]))
    /\ UNCHANGED <<vars, config, registryVars, bindings, states, desired_bindings,
                   failures, released, serial, writer>>

\* The synchronous shutdown closes everything inside the write lock.
BeginShutdown(t) ==
    /\ At(t, "idle") /\ Unlocked
    /\ Become(t, [Idle EXCEPT !.op = "shutdown", !.pc = "stopping"])
    /\ writer' = t
    /\ UNCHANGED <<runtimeVars, serial>>

ShutdownLocked(t) ==
    /\ At(t, "stopping")
    /\ \A d \in Devices : IsBound(d) => MutexFree(d, serial[d])
    /\ Shutdown
    /\ open' = [d \in Devices |-> open[d] - (IF IsBound(d) THEN 1 ELSE 0)]
    /\ Detach(Devices)
    /\ desired_bindings' = {}
    /\ Become(t, Idle)
    /\ writer' = NoTask
    /\ UNCHANGED <<config, registryVars, released>>

-----------------------------------------------------------------------------
(* Refresh                                                                  *)

\* run_refresh: the probes run, without a lock; a run that is not valid is the
\* caller's error at once.
BeginRefresh(t, mode) ==
    /\ At(t, "idle")
    /\ \E run \in Runs({}, Probes) :
          /\ RunIsValid(run)
          /\ Become(t, [Idle EXCEPT !.op = "refresh", !.pc = "probed",
                                   !.mode = mode, !.run = run])
    /\ UNCHANGED <<runtimeVars, serial, writer>>

\* The write lock is taken, by when the run may be out of date.
BeginCommit(t) ==
    /\ At(t, "probed") /\ Unlocked
    /\ Become(t, [task[t] EXCEPT !.pc = "committing"])
    /\ writer' = t
    /\ UNCHANGED <<runtimeVars, serial>>

\* The bound devices whose driver binding_requires_rebind asks for its id.
AsksDriver(new) ==
    {d \in Changed(inventory, new) :
        /\ IsBound(d)
        /\ inventory[d].interface = new[d].interface
        /\ inventory[d].shape = new[d].shape}

\* Faulty variant: a refresh that began before a shutdown commits after it.
CommitWhenStopped(t) ==
    /\ At(t, "committing")
    /\ writer' = NoTask
    /\ Accepted(task[t].mode, task[t].run)
    /\ CommitRun(task[t].mode, task[t].run)
    /\ Become(t, Idle)
    /\ UNCHANGED <<running, config, registryVars, deviceVars, serial>>

\* prepare_refresh_commit, inside the write lock, which is kept while a task
\* is inside a call of a bound device that has to be asked for its driver.
Commit(t) ==
    LET mode == task[t].mode
        run == task[t].run
        new == NextInventory(mode, run)
        gone == Removed(inventory, new) \cup Invalidated(new)
    IN  /\ At(t, "committing")
        /\ writer' = NoTask
        /\ IF running /\ Accepted(mode, run)
           THEN /\ \A d \in AsksDriver(new) : MutexFree(d, serial[d])
                /\ CommitRun(mode, run)
                /\ Detach(gone)
                /\ Become(t, Closing([Idle EXCEPT !.op = "refresh",
                                                 !.detached = BoundOf(gone),
                                                 !.targets = RebindTargets(new)]))
                /\ UNCHANGED <<running, config, registryVars, desired_bindings, open, released>>
           ELSE Become(t, Idle) /\ UNCHANGED <<runtimeVars, serial>>

\* rebind_tracked_devices, in a write section of its own: what the devices are
\* and whether they are bound is read again, whether they are desired is not.
\* The drivers are called inside the section, without the bind locks.
Rebind(t) ==
    LET targets == task[t].targets
        outcomes(d) == BindOutcomes(d, inventory[d], IsBound(d))
    IN  /\ At(t, "rebind") /\ Unlocked
        /\ \E o \in [targets -> UNION {outcomes(d) : d \in targets}] :
              LET stored(d) == d \in targets /\ o[d].stored # Unbound IN
              /\ \A d \in targets : o[d] \in outcomes(d)
              /\ bindings' = [d \in Devices |-> IF stored(d) THEN o[d].stored ELSE bindings[d]]
              /\ serial' = [d \in Devices |-> IF stored(d) THEN NewSerial(d) ELSE serial[d]]
              /\ open' = [d \in Devices |-> open[d] + (IF stored(d) THEN 1 ELSE 0)]
              /\ states' = [d \in Devices |->
                               IF d \in targets THEN Cached(o[d], states[d]) ELSE states[d]]
              /\ failures' = (failures \ targets) \cup {d \in targets : ~ o[d].ok}
        /\ Become(t, Idle)
        /\ UNCHANGED <<vars, config, registryVars, desired_bindings, released, writer>>

-----------------------------------------------------------------------------

\* start and set_config are one write section each.
AsyncStart == Unlocked /\ RuntimeStart /\ UNCHANGED asyncOnly

AsyncSetConfig(c) == Unlocked /\ SetConfig(c) /\ UNCHANGED asyncOnly

\* from_runtime: a new Runtime whose drivers are registered.
AsyncInit ==
    /\ Init
    /\ config \in Configs
    /\ drivers = Drivers
    /\ preferred = [d \in Devices |-> NoDriver]
    /\ bindings = [d \in Devices |-> Unbound]
    /\ states = [d \in Devices |-> NoState]
    /\ desired_bindings = {}
    /\ failures = {}
    /\ open = [d \in Devices |-> 0]
    /\ released = Devices
    /\ task = [t \in Tasks |-> Idle]
    /\ bind_locks = [d \in Devices |-> NoLock]
    /\ serial = [d \in Devices |-> 0]
    /\ writer = NoTask

\* A call begins.
Begin(t) ==
    \/ \E d \in Devices :
          \/ BeginBind(t, d)
          \/ BeginRequest(t, d)
          \/ BeginRefreshState(t, d)
          \/ AsyncUnbind(t, d)
    \/ AsyncShutdown(t)
    \/ BeginShutdown(t)
    \/ \E mode \in RefreshModes : BeginRefresh(t, mode)

\* A call goes on.
Proceed(t) ==
    \/ BindRead(t)
    \/ RequestRead(t)
    \/ RequestWrite(t)
    \/ DriverBind(t)
    \/ Store(t)
    \/ Discard(t)
    \/ Execute(t)
    \/ Executed(t)
    \/ Complete(t)
    \/ CloseDetached(t)
    \/ ShutdownLocked(t)
    \/ BeginCommit(t)
    \/ Commit(t)
    \/ Rebind(t)

AsyncNext ==
    \/ \E t \in Tasks : Begin(t) \/ Proceed(t)
    \/ AsyncStart
    \/ \E c \in Configs : AsyncSetConfig(c)

AsyncSpec == AsyncInit /\ [][AsyncNext]_asyncVars

\* The pool runs every thread that is not blocked, and driver calls return.
FairAsyncSpec == AsyncSpec /\ \A t \in Tasks : WF_asyncVars(Proceed(t))

-----------------------------------------------------------------------------
(* Properties                                                               *)

\* The tasks, the locks and the device state have their types.
AsyncTypeOK ==
    /\ RuntimeTypeOK
    /\ bind_locks \in [Devices -> Locks \cup {NoLock}]
    /\ serial \in [Devices -> Serials \cup {0}]
    /\ writer \in Tasks \cup {NoTask}
    /\ \A t \in Tasks :
          /\ task[t].device \in Devices
          /\ task[t].lock \in Locks \cup {NoLock}
          /\ task[t].config \in Configs
          /\ task[t].plan \in Handles \cup {Unbound}
          /\ {task[t].own, task[t].use} \subseteq Serials \cup {0}
          /\ task[t].outcome.stored \in Handles \cup {Unbound}
          /\ task[t].outcome.state \in Handles \cup {NoState}
          /\ task[t].detached \subseteq Devices \X Serials
          /\ task[t].targets \subseteq Devices
          /\ task[t].mode \in RefreshModes
          /\ task[t].run \in RefreshRuns

\* All tasks that hold a reference to a bind lock of a device hold one to the
\* same lock, however the weak table is pruned and filled again: otherwise two
\* of them could hold the device's bind lock at once.
OneBindLockPerDevice ==
    \A t, u \in Tasks :
        task[t].lock # NoLock /\ task[u].lock # NoLock =>
            (task[t].lock = task[u].lock <=> task[t].device = task[u].device)

\* Every open bound device has exactly one owner, which is the map or the task
\* that will store or close it, and no owner has a closed one: no interleaving
\* of bind, request, unbind, refresh and shutdown leaks a bound device,
\* overwrites a stored one, or closes one twice.
OwnedOnce ==
    \A d \in Devices :
        /\ open[d] = Cardinality(UNION {OwnedBy(t, d) : t \in Tasks})
                        + (IF IsBound(d) THEN 1 ELSE 0)
        /\ IsBound(d) <=> serial[d] # 0
        /\ \A t \in Tasks : serial[d] \notin OwnedBy(t, d)
        /\ \A t, u \in Tasks : t # u => OwnedBy(t, d) \cap OwnedBy(u, d) = {}

\* A runtime that is stopped has no bound device, although a bind may have been
\* inside its driver when it was shut down.
StoppedHoldsNoDevice == ~ running => \A d \in Devices : ~ IsBound(d)

\* The inventory, the index and the events move as if every refresh were one
\* step of ProbeInventory.
RefreshesAreAtomic == Spec

\* If calls stop coming, every call that was made returns: no order of the
\* runtime lock, the bind locks and the locks of the bound devices deadlocks.
CallsReturn ==
    <>[][\A t \in Tasks : At(t, "idle") => task'[t] = task[t]]_asyncVars
        => <>[](\A t \in Tasks : At(t, "idle"))

\* Two tasks are never inside a driver's bind for the same device: "same device
\* bind attempts serialize and bind once" (tests/async_runtime/.../locking.rs).
BindAttemptsSerialize ==
    \A t, u \in Tasks :
        t # u /\ At(t, "driver_bind") /\ At(u, "driver_bind")
            => task[t].device # task[u].device
=============================================================================
