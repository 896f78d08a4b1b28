------------------------- MODULE AsyncRuntimeProofs -------------------------
(***************************************************************************)
(* Proofs about AsyncRuntime for every set of tasks, devices, drivers and   *)
(* probes: its refreshes are atomic, a stopped runtime holds no device, the *)
(* weak table of bind locks keeps one lock per device, and every open bound *)
(* device has one owner.                                                    *)
(***************************************************************************)
EXTENDS AsyncRuntime, RuntimeProofs, FiniteSetTheorems

-----------------------------------------------------------------------------
(* Bind locks                                                               *)

\* A record that has the fields of a task which the bind locks depend on, and
\* whose run is one that probes may have returned.
TaskShape(r) ==
    /\ {"pc", "device", "lock", "mode", "run"} \subseteq DOMAIN r
    /\ r.mode \in RefreshModes
    /\ r.run \in RefreshRuns

\* An idle task refers to no lock; every lock that a task refers to is the one
\* in the table for its device, and every lock in the table is referred to and
\* belongs to one device.
LockInv ==
    /\ DOMAIN task = Tasks
    /\ bind_locks \in [Devices -> Locks \cup {NoLock}]
    /\ \A t \in Tasks :
          /\ TaskShape(task[t])
          /\ task[t].lock \in Locks \cup {NoLock}
          /\ At(t, "idle") => task[t].lock = NoLock
          /\ task[t].lock # NoLock => /\ task[t].device \in Devices
                                      /\ bind_locks[task[t].device] = task[t].lock
    /\ \A d \in Devices : bind_locks[d] # NoLock =>
          /\ \E t \in Tasks : task[t].lock = bind_locks[d]
          /\ \A e \in Devices : bind_locks[e] = bind_locks[d] => e = d

\* r is a next state of task t that refers to the lock of t or to none.
Keeps(t, r) ==
    /\ TaskShape(r)
    /\ \/ r.lock = NoLock
       \/ r.lock = task[t].lock /\ r.device = task[t].device /\ r.pc # "idle"

\* No probe was called.
LEMMA NoRunIsARun == NoRun \in RefreshRuns
<1>1. SelectProbes({}, {}) = {}
  BY DEF SelectProbes
<1>2. NoRun.found \in [{} -> UNION {Findings({}, p) : p \in {}}]
  BY DEF NoRun
<1>3. NoRun \in Runs({}, {})
  <2>. DEFINE good(ok) == {g \in [ok -> UNION {Findings({}, p) : p \in ok}] :
                              \A p \in ok : g[p] \in Findings({}, p)}
              made(ok) == {[selected |-> {}, requested |-> {}, found |-> f] : f \in good(ok)}
  <2>1. NoRun.found \in good({})
    BY <1>2
  <2>. HIDE DEF good
  <2>2. NoRun \in made({})
    BY <2>1 DEF NoRun
  <2>. HIDE DEF made
  <2>3. NoRun \in UNION {made(ok) : ok \in SUBSET {}}
    BY <2>2
  <2>. USE DEF good, made
  <2>. QED  BY <1>1, <2>3 DEF Runs
<1>. QED  BY <1>3 DEF RefreshRuns

LEMMA IdleShape == TaskShape(Idle) /\ Idle.lock = NoLock
BY NoRunIsARun DEF TaskShape, Idle, RefreshModes

\* With one task idle there are more locks than tasks that refer to one.
LEMMA FreeLock ==
    ASSUME LockInv, NEW t \in Tasks, At(t, "idle")
    PROVE  \E l \in Locks : \A u \in Tasks : task[u].lock # l
<1>. DEFINE others == Tasks \ {t}
            used == {task[u].lock : u \in others}
            n == Cardinality(Tasks)
<1>1. /\ IsFiniteSet(Tasks) /\ n \in Nat
      /\ IsFiniteSet(others) /\ Cardinality(others) = n - 1
  BY TaskAssumption, FS_RemoveElement, FS_CardinalityType
<1>2. IsFiniteSet(used) /\ Cardinality(used) <= n - 1
  <2>. DEFINE f == [u \in others |-> task[u].lock]
  <2>1. f \in Surjection(others, used)
    BY DEF Surjection
  <2>. HIDE DEF f
  <2>. QED  BY <1>1, <2>1, FS_Surjection
<1>3. Locks = 1..n /\ Cardinality(Locks) = n
  <2>1. Cardinality(1..n) = IF 1 > n THEN 0 ELSE n - 1 + 1
    <3>1. 1 \in Int /\ n \in Int
      BY <1>1
    <3>. HIDE DEF n
    <3>. QED  BY ONLY <3>1, FS_Interval
  <2>2. n # 0
    BY <1>1, FS_EmptySet
  <2>. QED  BY <1>1, <2>1, <2>2 DEF Locks
<1>4. ~ Locks \subseteq used
  <2>1. Cardinality(used) \in Nat
    BY <1>2, FS_CardinalityType
  <2>2. SUFFICES ASSUME Locks \subseteq used PROVE Cardinality(Locks) <= Cardinality(used)
    BY <1>1, <1>2, <1>3, <2>1
  <2>. QED  BY <1>2, <2>2, FS_Subset
<1>5. PICK l \in Locks : l \notin used
  BY <1>4
<1>6. l # NoLock
  BY TaskAssumption DEF Locks
<1>7. task[t].lock = NoLock
  BY DEF LockInv
<1>. QED  BY <1>5, <1>6, <1>7

\* A step that keeps the lock of its task, or drops it, prunes the table well.
LEMMA BecomeKeepsLocks ==
    ASSUME LockInv, NEW t \in Tasks, NEW r, Become(t, r), Keeps(t, r)
    PROVE  LockInv'
<1>1. /\ task' = [task EXCEPT ![t] = r]
      /\ bind_locks' = [d \in Devices |->
            IF \E u \in Tasks : task'[u].lock = bind_locks[d] THEN bind_locks[d] ELSE NoLock]
  BY DEF Become
<1>2. /\ DOMAIN task' = Tasks
      /\ task'[t] = r
      /\ \A u \in Tasks \ {t} : task'[u] = task[u]
  BY <1>1 DEF LockInv
<1>3. bind_locks' \in [Devices -> Locks \cup {NoLock}]
  BY <1>1 DEF LockInv
<1>4. ASSUME NEW u \in Tasks
      PROVE  /\ TaskShape(task'[u])
             /\ task'[u].lock \in Locks \cup {NoLock}
             /\ task'[u].pc = "idle" => task'[u].lock = NoLock
             /\ task'[u].lock # NoLock =>
                   /\ task'[u].device \in Devices
                   /\ bind_locks[task'[u].device] = task'[u].lock
  BY <1>2 DEF LockInv, Keeps, At
<1>5. \A u \in Tasks : task'[u].lock # NoLock =>
          bind_locks'[task'[u].device] = task'[u].lock
  BY <1>1, <1>4
<1>6. ASSUME NEW d \in Devices, bind_locks'[d] # NoLock
      PROVE  /\ \E u \in Tasks : task'[u].lock = bind_locks'[d]
             /\ \A e \in Devices : bind_locks'[e] = bind_locks'[d] => e = d
  <2>1. bind_locks'[d] = bind_locks[d] /\ \E u \in Tasks : task'[u].lock = bind_locks[d]
    BY <1>1, <1>6
  <2>2. \A e \in Devices : bind_locks'[e] \in {bind_locks[e], NoLock}
    BY <1>1
  <2>. QED  BY <1>6, <2>1, <2>2 DEF LockInv
<1>7. \A u \in Tasks : TaskShape(task[u])' <=> TaskShape(task'[u])
  BY DEF TaskShape
<1>. QED  BY <1>2, <1>3, <1>4, <1>5, <1>6, <1>7 DEF LockInv, At

\* bind_lock answers with the lock of the device or with one that is free.
LEMMA BindLockFacts ==
    ASSUME LockInv, NEW t \in Tasks, At(t, "idle"), NEW d \in Devices
    PROVE  /\ BindLock(d) \in Locks /\ BindLock(d) # NoLock
           /\ bind_locks[d] = NoLock => \A u \in Tasks : task[u].lock # BindLock(d)
           /\ bind_locks[d] # NoLock => BindLock(d) = bind_locks[d]
<1>1. CASE bind_locks[d] # NoLock
  BY <1>1 DEF BindLock, LockInv
<1>2. CASE bind_locks[d] = NoLock
  <2>1. BindLock(d) = CHOOSE k \in Locks : \A u \in Tasks : task[u].lock # k
    BY <1>2 DEF BindLock
  <2>2. BindLock(d) \in Locks /\ \A u \in Tasks : task[u].lock # BindLock(d)
    BY <2>1, FreeLock
  <2>3. BindLock(d) # NoLock
    BY <2>2, TaskAssumption DEF Locks
  <2>. QED  BY <1>2, <2>2, <2>3
<1>. QED  BY <1>1, <1>2

\* A task that gets the lock of a device gets the one that others have.
LEMMA BeginLockedKeepsLocks ==
    ASSUME LockInv, NEW t \in Tasks, At(t, "idle"), NEW d \in Devices, NEW op, NEW pc,
           pc # "idle", BeginLocked(t, op, pc, d)
    PROVE  LockInv'
<1>. DEFINE l == BindLock(d)
            r == [Idle EXCEPT !.op = op, !.pc = pc, !.device = d, !.lock = l]
<1>1. /\ task' = [task EXCEPT ![t] = r]
      /\ bind_locks' = [bind_locks EXCEPT ![d] = l]
  BY DEF BeginLocked
<1>2. TaskShape(r) /\ r.lock = l /\ r.device = d /\ r.pc = pc
  BY IdleShape DEF TaskShape
<1>3. /\ l \in Locks /\ l # NoLock
      /\ bind_locks[d] = NoLock => \A u \in Tasks : task[u].lock # l
      /\ bind_locks[d] # NoLock => l = bind_locks[d]
  BY BindLockFacts
<1>. HIDE DEF l, r
<1>4. /\ DOMAIN task' = Tasks
      /\ task'[t] = r
      /\ \A u \in Tasks \ {t} : task'[u] = task[u]
      /\ bind_locks' \in [Devices -> Locks \cup {NoLock}]
      /\ bind_locks'[d] = l
      /\ \A e \in Devices \ {d} : bind_locks'[e] = bind_locks[e]
  BY <1>1, <1>3 DEF LockInv
<1>5. \A e \in Devices \ {d} : bind_locks[e] # l
  BY <1>3 DEF LockInv
<1>6. task[t].lock = NoLock
  BY DEF LockInv
<1>7. ASSUME NEW u \in Tasks
      PROVE  /\ TaskShape(task'[u])
             /\ task'[u].lock \in Locks \cup {NoLock}
             /\ task'[u].pc = "idle" => task'[u].lock = NoLock
             /\ task'[u].lock # NoLock =>
                   /\ task'[u].device \in Devices
                   /\ bind_locks'[task'[u].device] = task'[u].lock
  <2>1. CASE u = t
    BY <1>2, <1>3, <1>4, <2>1
  <2>2. CASE u # t
    BY <1>3, <1>4, <2>2 DEF LockInv, At
  <2>. QED  BY <2>1, <2>2
<1>8. ASSUME NEW e \in Devices, bind_locks'[e] # NoLock
      PROVE  /\ \E u \in Tasks : task'[u].lock = bind_locks'[e]
             /\ \A c \in Devices : bind_locks'[c] = bind_locks'[e] => c = e
  <2>1. CASE e = d
    BY <1>2, <1>4, <1>5, <2>1
  <2>2. CASE e # d
    <3>1. PICK u \in Tasks : task[u].lock = bind_locks[e]
      BY <1>4, <1>8, <2>2 DEF LockInv
    <3>2. u # t
      BY <1>4, <1>6, <1>8, <2>2, <3>1
    <3>. QED  BY <1>4, <1>5, <1>8, <2>2, <3>1, <3>2 DEF LockInv
  <2>. QED  BY <2>1, <2>2
<1>9. \A u \in Tasks : TaskShape(task[u])' <=> TaskShape(task'[u])
  BY DEF TaskShape
<1>. QED  BY <1>4, <1>7, <1>8, <1>9 DEF LockInv, At

\* The records that a task becomes keep its lock or drop it.
LEMMA CompletingKeeps ==
    ASSUME NEW t \in Tasks, TaskShape(task[t]), NEW o
    PROVE  Keeps(t, Completing(t, o))
BY DEF Keeps, TaskShape, Completing

LEMMA UsingKeeps ==
    ASSUME NEW t \in Tasks, TaskShape(task[t]), NEW d
    PROVE  Keeps(t, Using(t, d))
BY DEF Keeps, TaskShape, Using

LEMMA PreparedKeeps ==
    ASSUME NEW t \in Tasks, TaskShape(task[t])
    PROVE  Keeps(t, Prepared(t))
<1>. DEFINE d == task[t].device
<1>1. CASE Resolve(d, inventory[d]) = NoDriver
  BY <1>1, CompletingKeeps DEF Prepared
<1>2. CASE Resolve(d, inventory[d]) # NoDriver
  <2>. DEFINE handle == [driver |-> Resolve(d, inventory[d]), descriptor |-> inventory[d]]
  <2>1. Prepared(t) = [task[t] EXCEPT !.pc = "driver_bind", !.config = config, !.plan = handle]
    BY <1>2 DEF Prepared
  <2>. HIDE DEF handle
  <2>. QED  BY <2>1 DEF Keeps, TaskShape
<1>. QED  BY <1>1, <1>2

LEMMA ClosingShape ==
    ASSUME NEW r, TaskShape(r)
    PROVE  /\ TaskShape(Closing(r))
           /\ \/ Closing(r).lock = NoLock
              \/ /\ Closing(r).lock = r.lock /\ Closing(r).device = r.device
                 /\ Closing(r).pc # "idle"
BY IdleShape DEF TaskShape, Closing

\* Every call begins with a lock from the table or without one.
LEMMA BeginKeepsLocks ==
    ASSUME LockInv, NEW t \in Tasks, Begin(t)
    PROVE  LockInv'
<1>1. ASSUME NEW r, Become(t, r), TaskShape(r), r.lock = NoLock
      PROVE  LockInv'
  BY <1>1, BecomeKeepsLocks DEF Keeps
<1>2. ASSUME NEW d \in Devices, BeginBind(t, d)
      PROVE  LockInv'
  BY <1>2, BeginLockedKeepsLocks DEF BeginBind
<1>3. ASSUME NEW d \in Devices, BeginRequest(t, d)
      PROVE  LockInv'
  <2>. DEFINE r == [Idle EXCEPT !.op = "request", !.pc = "request_read", !.device = d]
  <2>1. TaskShape(r) /\ r.lock = NoLock
    BY IdleShape DEF TaskShape
  <2>. QED  BY <1>1, <1>3, <2>1, BeginLockedKeepsLocks DEF BeginRequest
<1>4. ASSUME NEW d \in Devices, BeginRefreshState(t, d)
      PROVE  LockInv'
  <2>1. CASE UNCHANGED <<task, bind_locks>>
    BY <2>1 DEF LockInv, TaskShape, At
  <2>2. CASE Become(t, [Using(t, d) EXCEPT !.op = "refresh_state", !.device = d])
    <3>. DEFINE r == [Using(t, d) EXCEPT !.op = "refresh_state", !.device = d]
    <3>1. task[t].lock = NoLock /\ TaskShape(task[t])
      BY <1>4 DEF BeginRefreshState, LockInv
    <3>2. TaskShape(r) /\ r.lock = NoLock
      BY <3>1 DEF Using, TaskShape
    <3>. QED  BY <1>1, <2>2, <3>2
  <2>. QED  BY <1>4, <2>1, <2>2 DEF BeginRefreshState
<1>5. ASSUME NEW gone \in SUBSET Devices, NEW op,
             Become(t, Closing([Idle EXCEPT !.op = op, !.detached = BoundOf(gone)]))
      PROVE  LockInv'
  <2>. DEFINE r == [Idle EXCEPT !.op = op, !.detached = BoundOf(gone)]
  <2>1. TaskShape(r) /\ r.lock = NoLock
    BY IdleShape DEF TaskShape
  <2>2. TaskShape(Closing(r)) /\ Closing(r).lock = NoLock
    BY <2>1, ClosingShape
  <2>. QED  BY <1>1, <1>5, <2>2
<1>6. ASSUME NEW op, NEW pc, Become(t, [Idle EXCEPT !.op = op, !.pc = pc])
      PROVE  LockInv'
  <2>. DEFINE r == [Idle EXCEPT !.op = op, !.pc = pc]
  <2>1. TaskShape(r) /\ r.lock = NoLock
    BY IdleShape DEF TaskShape
  <2>. QED  BY <1>1, <1>6, <2>1
<1>7. ASSUME NEW mode \in RefreshModes, BeginRefresh(t, mode)
      PROVE  LockInv'
  <2>1. PICK run \in Runs({}, Probes) :
            Become(t, [Idle EXCEPT !.op = "refresh", !.pc = "probed", !.mode = mode, !.run = run])
    BY <1>7 DEF BeginRefresh
  <2>. DEFINE r == [Idle EXCEPT !.op = "refresh", !.pc = "probed", !.mode = mode, !.run = run]
  <2>2. run \in RefreshRuns
    BY DEF RefreshRuns
  <2>3. TaskShape(r) /\ r.lock = NoLock
    BY <2>2, IdleShape DEF TaskShape
  <2>. QED  BY <1>1, <2>1, <2>3
<1>. QED
  BY <1>2, <1>3, <1>4, <1>5, <1>6, <1>7 DEF Begin, AsyncUnbind, AsyncShutdown, BeginShutdown

\* A call that goes on keeps its lock or drops it.
LEMMA ProceedKeepsLocks ==
    ASSUME LockInv, NEW t \in Tasks, Proceed(t)
    PROVE  LockInv'
<1>. DEFINE d == task[t].device
<1>1. TaskShape(task[t])
  BY DEF LockInv
<1>2. ASSUME NEW r, Become(t, r), Keeps(t, r)
      PROVE  LockInv'
  BY <1>2, BecomeKeepsLocks
<1>3. TaskShape(Idle) /\ Idle.lock = NoLock
  BY IdleShape
<1>4. Keeps(t, Idle)
  BY <1>3 DEF Keeps
<1>5. CASE BindRead(t)
  <2>1. PICK r \in {Completing(t, Failed), Completing(t, Nothing), Prepared(t)} : Become(t, r)
    BY <1>5 DEF BindRead
  <2>. QED  BY <1>1, <1>2, <2>1, CompletingKeeps, PreparedKeeps
<1>6. CASE RequestRead(t)
  <2>1. PICK r \in {Completing(t, Failed), Using(t, d), [task[t] EXCEPT !.pc = "request_write"]} :
            Become(t, r)
    BY <1>6 DEF RequestRead, Validated
  <2>2. Keeps(t, [task[t] EXCEPT !.pc = "request_write"])
    BY <1>1 DEF Keeps, TaskShape
  <2>. QED  BY <1>1, <1>2, <2>1, <2>2, CompletingKeeps, UsingKeeps
<1>7. CASE RequestWrite(t)
  <2>1. PICK r \in {Completing(t, Failed), Using(t, d), Prepared(t)} : Become(t, r)
    BY <1>7 DEF RequestWrite, Validated
  <2>. QED  BY <1>1, <1>2, <2>1, CompletingKeeps, UsingKeeps, PreparedKeeps
<1>8. CASE DriverBind(t)
  <2>1. ASSUME NEW n, NEW o
        PROVE  Keeps(t, [task[t] EXCEPT !.pc = "store", !.own = n, !.outcome = o])
    BY <1>1 DEF Keeps, TaskShape
  <2>. QED  BY <1>1, <1>2, <1>8, <2>1, CompletingKeeps DEF DriverBind
<1>9. CASE Store(t)
  <2>. DEFINE stored == Outcome(TRUE, task[t].plan, NoState)
              discarding == [task[t] EXCEPT !.pc = "discard", !.use = serial[d],
                                            !.plan = bindings[d], !.outcome = Nothing]
              executing == [task[t] EXCEPT !.pc = "execute", !.own = 0, !.use = task[t].own,
                                           !.outcome = stored]
  <2>1. Keeps(t, discarding)
    BY <1>1 DEF Keeps, TaskShape
  <2>2. Keeps(t, executing)
    BY <1>1 DEF Keeps, TaskShape
  <2>3. \A o : Keeps(t, Completing(t, o))
    BY <1>1, CompletingKeeps
  <2>4. PICK r \in {Completing(t, Failed), Completing(t, Nothing), discarding,
                    Completing(t, stored), executing} : Become(t, r)
    BY <1>9 DEF Store, StoreDecision
  <2>. HIDE DEF stored, discarding, executing
  <2>. QED  BY <1>2, <2>1, <2>2, <2>3, <2>4
<1>10. CASE Discard(t)
  <2>1. Keeps(t, [task[t] EXCEPT !.pc = "execute", !.own = 0])
    BY <1>1 DEF Keeps, TaskShape
  <2>. QED  BY <1>2, <1>10, <2>1 DEF Discard
<1>11. CASE Execute(t)
  <2>1. Keeps(t, [task[t] EXCEPT !.pc = "executing"])
    BY <1>1 DEF Keeps, TaskShape
  <2>. QED  BY <1>2, <1>11, <2>1 DEF Execute
<1>12. CASE Executed(t)
  <2>1. \E o : Become(t, Completing(t, o))
    BY <1>12 DEF Executed
  <2>. QED  BY <1>1, <1>2, <2>1, CompletingKeeps
<1>13. CASE Complete(t) \/ ShutdownLocked(t) \/ Rebind(t)
  BY <1>2, <1>4, <1>13 DEF Complete, ShutdownLocked, Rebind
<1>14. ASSUME NEW r, TaskShape(r), r.lock = task[t].lock, r.device = task[t].device,
              Become(t, Closing(r))
       PROVE  LockInv'
  <2>1. Keeps(t, Closing(r))
    BY <1>14, ClosingShape DEF Keeps
  <2>. QED  BY <1>2, <1>14, <2>1
<1>15. CASE CloseDetached(t)
  <2>1. PICK D : Become(t, Closing([task[t] EXCEPT !.detached = D]))
    BY <1>15 DEF CloseDetached
  <2>. DEFINE r == [task[t] EXCEPT !.detached = D]
  <2>2. TaskShape(r) /\ r.lock = task[t].lock /\ r.device = task[t].device
    BY <1>1 DEF TaskShape
  <2>. QED  BY <1>14, <2>1, <2>2
<1>16. CASE BeginCommit(t)
  <2>1. Keeps(t, [task[t] EXCEPT !.pc = "committing"])
    BY <1>1 DEF Keeps, TaskShape
  <2>. QED  BY <1>2, <1>16, <2>1 DEF BeginCommit
<1>17. CASE Commit(t)
  <2>1. \/ Become(t, Idle)
        \/ \E D, T : Become(t, Closing([Idle EXCEPT !.op = "refresh", !.detached = D,
                                                     !.targets = T]))
    BY <1>17 DEF Commit
  <2>2. ASSUME NEW D, NEW T,
               Become(t, Closing([Idle EXCEPT !.op = "refresh", !.detached = D, !.targets = T]))
        PROVE  LockInv'
    <3>. DEFINE r == [Idle EXCEPT !.op = "refresh", !.detached = D, !.targets = T]
    <3>1. TaskShape(r) /\ r.lock = NoLock
      BY IdleShape DEF TaskShape
    <3>2. Keeps(t, Closing(r))
      BY <3>1, ClosingShape DEF Keeps
    <3>. QED  BY <1>2, <2>2, <3>2
  <2>. QED  BY <1>2, <1>4, <2>1, <2>2
<1>. QED
  BY <1>5, <1>6, <1>7, <1>8, <1>9, <1>10, <1>11, <1>12, <1>13, <1>15, <1>16, <1>17
     DEF Proceed

LEMMA LockStep == LockInv /\ [AsyncNext]_asyncVars => LockInv'
<1>. SUFFICES ASSUME LockInv, [AsyncNext]_asyncVars PROVE LockInv'
  OBVIOUS
<1>1. CASE UNCHANGED <<task, bind_locks>>
  BY <1>1 DEF LockInv, TaskShape, At
<1>2. CASE \E t \in Tasks : Begin(t) \/ Proceed(t)
  BY <1>2, BeginKeepsLocks, ProceedKeepsLocks
<1>3. CASE AsyncStart \/ (\E c \in Configs : AsyncSetConfig(c)) \/ UNCHANGED asyncVars
  BY <1>1, <1>3 DEF AsyncStart, AsyncSetConfig, asyncVars, asyncOnly
<1>. QED  BY <1>2, <1>3 DEF AsyncNext

LEMMA LockInductive == AsyncSpec => []LockInv
<1>1. AsyncInit => LockInv
  <2>. SUFFICES ASSUME AsyncInit PROVE LockInv
    OBVIOUS
  <2>1. TaskShape(Idle) /\ Idle.lock = NoLock
    BY IdleShape
  <2>2. /\ DOMAIN task = Tasks
        /\ \A t \in Tasks : task[t] = Idle
        /\ bind_locks = [d \in Devices |-> NoLock]
    BY DEF AsyncInit
  <2>. QED  BY <2>1, <2>2 DEF LockInv
<1>. QED  BY <1>1, LockStep, PTL DEF AsyncSpec

\* However many tasks use however many devices, and however the weak table of
\* bind locks is pruned and filled again, all references to a bind lock of one
\* device are references to one lock.
THEOREM BindLocksAreUnique == AsyncSpec => []OneBindLockPerDevice
<1>1. LockInv => OneBindLockPerDevice
  BY DEF LockInv, OneBindLockPerDevice
<1>. QED  BY <1>1, LockInductive, PTL

-----------------------------------------------------------------------------
(* Refreshes and shutdown                                                   *)

\* Every step of a task is a step of ProbeInventory or leaves it alone: the run
\* that a commit finds in its task is one that probes may return.
LEMMA AsyncStepOfInventory == LockInv /\ [AsyncNext]_asyncVars => [Next]_vars
<1>. SUFFICES ASSUME LockInv, [AsyncNext]_asyncVars PROVE [Next]_vars
  OBVIOUS
<1>1. ASSUME NEW t \in Tasks, Begin(t)
      PROVE  [Next]_vars
  BY <1>1 DEF Begin, BeginBind, BeginRequest, BeginRefreshState, AsyncUnbind, AsyncShutdown,
     BeginShutdown, BeginRefresh, runtimeVars, Next
<1>2. ASSUME NEW t \in Tasks, Commit(t)
      PROVE  [Next]_vars
  <2>. DEFINE mode == task[t].mode
              run == task[t].run
  <2>1. mode \in RefreshModes /\ run \in RefreshRuns
    BY DEF LockInv, TaskShape
  <2>2. IF running /\ Accepted(mode, run) THEN CommitRun(mode, run) /\ UNCHANGED running
        ELSE UNCHANGED vars
    BY <1>2 DEF Commit, runtimeVars
  <2>3. PICK called \in SUBSET Probes : run \in Runs({}, called)
    BY <2>1 DEF RefreshRuns
  <2>. HIDE DEF mode, run
  <2>4. CASE running /\ Accepted(mode, run)
    <3>1. Refresh(mode, {}, called)
      BY <2>2, <2>3, <2>4 DEF Refresh
    <3>. QED  BY <2>1, <2>3, <3>1 DEF Next
  <2>. QED  BY <2>2, <2>4
<1>3. ASSUME NEW t \in Tasks, ShutdownLocked(t)
      PROVE  [Next]_vars
  BY <1>3 DEF ShutdownLocked, Next
<1>4. ASSUME NEW t \in Tasks, Proceed(t)
      PROVE  [Next]_vars
  BY <1>2, <1>3, <1>4 DEF Proceed, BindRead, RequestRead, RequestWrite, DriverBind, Store,
     Discard, Execute, Executed, Complete, CloseDetached, BeginCommit, Rebind, runtimeVars
<1>5. CASE AsyncStart \/ (\E c \in Configs : AsyncSetConfig(c)) \/ UNCHANGED asyncVars
  BY <1>5 DEF AsyncStart, RuntimeStart, AsyncSetConfig, SetConfig, asyncVars, runtimeVars, Next
<1>. QED  BY <1>1, <1>4, <1>5 DEF AsyncNext

\* The inventory, the index and the events of an AsyncRuntime move as if every
\* refresh were one step, whatever its tasks do between two sections.
THEOREM AsyncImplementsInventory == AsyncSpec => RefreshesAreAtomic
<1>1. AsyncInit => Init
  BY DEF AsyncInit
<1>. QED  BY <1>1, AsyncStepOfInventory, LockInductive, PTL DEF AsyncSpec, Spec, RefreshesAreAtomic

\* A step of a stopped runtime binds nothing, and a shutdown leaves nothing bound.
LEMMA StoppedStep == StoppedHoldsNoDevice /\ [AsyncNext]_asyncVars => StoppedHoldsNoDevice'
<1>. SUFFICES ASSUME StoppedHoldsNoDevice, [AsyncNext]_asyncVars, ~ running'
              PROVE  \A d \in Devices : bindings'[d] = Unbound
  BY DEF StoppedHoldsNoDevice, IsBound
<1>1. CASE UNCHANGED bindings /\ UNCHANGED running
  BY <1>1 DEF StoppedHoldsNoDevice, IsBound
<1>2. ASSUME NEW gone \in SUBSET Devices, Detach(gone), UNCHANGED running
      PROVE  \A d \in Devices : bindings'[d] = Unbound
  BY <1>2 DEF Detach, StoppedHoldsNoDevice, IsBound
<1>3. CASE Detach(Devices)
  BY <1>3 DEF Detach
<1>4. ASSUME NEW t \in Tasks, Begin(t)
      PROVE  \A d \in Devices : bindings'[d] = Unbound
  BY <1>1, <1>2, <1>3, <1>4 DEF Begin, BeginBind, BeginRequest, BeginRefreshState,
     AsyncUnbind, AsyncShutdown, BeginShutdown, BeginRefresh, runtimeVars, deviceVars, vars
<1>5. ASSUME NEW t \in Tasks, Commit(t)
      PROVE  \A d \in Devices : bindings'[d] = Unbound
  <2>1. CASE running
    BY <1>5, <2>1 DEF Commit, runtimeVars, vars
  <2>2. CASE ~ running
    BY <1>1, <1>5, <2>2 DEF Commit, runtimeVars, deviceVars, vars
  <2>. QED  BY <2>1, <2>2
<1>6. ASSUME NEW t \in Tasks, Store(t)
      PROVE  \A d \in Devices : bindings'[d] = Unbound
  <2>1. UNCHANGED running
    BY <1>6 DEF Store, vars
  <2>2. StoreDecision(t) = "refuse"
    BY <2>1 DEF StoreDecision
  <2>. QED  BY <1>1, <1>6, <2>1, <2>2 DEF Store
<1>7. ASSUME NEW t \in Tasks, Rebind(t)
      PROVE  \A d \in Devices : bindings'[d] = Unbound
  <2>1. ~ running
    BY <1>7 DEF Rebind, vars
  <2>2. \A d : BindOutcomes(d, inventory[d], IsBound(d)) = {Failed}
    BY <2>1 DEF BindOutcomes
  <2>3. bindings' = [d \in Devices |-> bindings[d]]
    BY <1>7, <2>2 DEF Rebind, Failed, Outcome
  <2>. QED  BY <2>1, <2>3 DEF StoppedHoldsNoDevice, IsBound
<1>8. ASSUME NEW t \in Tasks, Proceed(t)
      PROVE  \A d \in Devices : bindings'[d] = Unbound
  BY <1>1, <1>3, <1>5, <1>6, <1>7, <1>8 DEF Proceed, BindRead, RequestRead, RequestWrite,
     DriverBind, Discard, Execute, Executed, Complete, CloseDetached, ShutdownLocked,
     BeginCommit, runtimeVars, deviceVars, vars
<1>9. CASE AsyncStart \/ (\E c \in Configs : AsyncSetConfig(c)) \/ UNCHANGED asyncVars
  BY <1>1, <1>9 DEF AsyncStart, RuntimeStart, Start, AsyncSetConfig, SetConfig, asyncVars,
     runtimeVars, deviceVars, vars
<1>. QED  BY <1>4, <1>8, <1>9 DEF AsyncNext

\* No bind that was inside its driver when the runtime was shut down leaves a
\* bound device in the stopped runtime.
THEOREM StoppedHasNoDevice == AsyncSpec => []StoppedHoldsNoDevice
<1>1. AsyncInit => StoppedHoldsNoDevice
  BY DEF AsyncInit, Init, StoppedHoldsNoDevice
<1>. QED  BY <1>1, StoppedStep, PTL DEF AsyncSpec

-----------------------------------------------------------------------------
(* Ownership of bound devices                                               *)

Labels ==
    {"idle", "bind_read", "request_read", "request_write", "driver_bind", "store", "discard",
     "execute", "executing", "complete", "closing", "rebind", "probed", "committing",
     "stopping"}

Operations == {"none", "bind", "request", "refresh_state", "unbind", "shutdown", "refresh"}

Outcomes == [ok : BOOLEAN, stored : Handles \cup {Unbound}, state : Handles \cup {NoState}]

TaskRecords ==
    [pc : Labels, op : Operations, device : Devices, lock : Locks \cup {NoLock},
     config : Configs, plan : Handles \cup {Unbound}, own : Serials \cup {0},
     use : Serials \cup {0}, outcome : Outcomes, detached : SUBSET (Devices \X Serials),
     targets : SUBSET Devices, mode : RefreshModes, run : RefreshRuns]

\* What a task has at which of its steps.
TaskSound(r) ==
    /\ r \in TaskRecords
    /\ r.own # 0 <=> r.pc \in {"store", "discard"}
    /\ r.use # 0 <=> r.pc \in {"discard", "execute", "executing"}
    /\ r.pc \in {"driver_bind", "store", "discard", "execute", "executing"} => r.plan \in Handles
    /\ r.detached # {} => r.pc = "closing"
    /\ \A b, c \in r.detached : b[1] = c[1] => b = c

\* The bound devices of d that a task with record r owns, and with those of
\* the map, where s is the stored one.
OwnedIn(r, d) == {n \in Serials : \/ r.device = d /\ r.own = n
                                  \/ <<d, n>> \in r.detached}

Share(r, s, d) == OwnedIn(r, d) \cup ({s} \ {0})

Live(d) ==
    {n \in Serials : n = serial[d] \/ \E t \in Tasks : n \in OwnedIn(task[t], d)}

Ownership(d) ==
    /\ open[d] = Cardinality(Live(d))
    /\ IsBound(d) <=> serial[d] # 0
    /\ \A t \in Tasks : serial[d] \notin OwnedIn(task[t], d)
    /\ \A t, u \in Tasks : t # u => OwnedIn(task[t], d) \cap OwnedIn(task[u], d) = {}

AsyncInv ==
    /\ OwnTypeOK
    /\ serial \in [Devices -> Serials \cup {0}]
    /\ writer \in Tasks \cup {NoTask}
    /\ task \in [Tasks -> TaskRecords]
    /\ \A t \in Tasks : TaskSound(task[t])
    /\ \A d \in Devices : Ownership(d)

LEMMA SerialFacts ==
    /\ 0 \notin Serials /\ IsFiniteSet(Serials)
    /\ Cardinality(Tasks) \in Nat /\ Cardinality(Serials) = 2 * Cardinality(Tasks) + 1
<1>. DEFINE n == Cardinality(Tasks)
            m == 2 * n + 1
<1>1. n \in Nat
  BY TaskAssumption, FS_CardinalityType
<1>2. m \in Nat /\ m >= 1
  BY <1>1
<1>. HIDE DEF m
<1>3. IsFiniteSet(1..m) /\ Cardinality(1..m) = m
  BY <1>2, FS_Interval
<1>4. 0 \notin 1..m
  BY <1>2
<1>. QED  BY <1>1, <1>3, <1>4 DEF Serials, m

\* What a record owns, by its fields.
LEMMA OwnedFacts ==
    ASSUME NEW r, NEW d
    PROVE  /\ r.own = 0 => OwnedIn(r, d) = {n \in Serials : <<d, n>> \in r.detached}
           /\ r.detached = {} /\ r.own \in Serials =>
                 OwnedIn(r, d) = IF r.device = d THEN {r.own} ELSE {}
           /\ r.own = 0 /\ r.detached = {} => OwnedIn(r, d) = {}
           /\ OwnedIn(r, d) \subseteq Serials
BY SerialFacts DEF OwnedIn

LEMMA SoundFacts ==
    ASSUME NEW r, TaskSound(r), NEW d
    PROVE  /\ r.pc \notin {"store", "discard", "closing"} => OwnedIn(r, d) = {}
           /\ r.pc \in {"store", "discard"} => OwnedIn(r, d) = IF r.device = d THEN {r.own} ELSE {}
           /\ r.pc = "closing" => OwnedIn(r, d) = {n \in Serials : <<d, n>> \in r.detached}
           /\ \A m, n \in OwnedIn(r, d) : m = n
<1>1. /\ r.own # 0 <=> r.pc \in {"store", "discard"}
      /\ r.detached # {} => r.pc = "closing"
      /\ r.own \in Serials \cup {0}
      /\ \A b, c \in r.detached : b[1] = c[1] => b = c
  BY DEF TaskSound, TaskRecords
<1>2. /\ r.pc \notin {"store", "discard", "closing"} => OwnedIn(r, d) = {}
      /\ r.pc \in {"store", "discard"} => OwnedIn(r, d) = IF r.device = d THEN {r.own} ELSE {}
      /\ r.pc = "closing" => OwnedIn(r, d) = {n \in Serials : <<d, n>> \in r.detached}
  BY <1>1, OwnedFacts
<1>3. ASSUME NEW m \in OwnedIn(r, d), NEW n \in OwnedIn(r, d) PROVE m = n
  <2>1. CASE r.pc = "closing"
    <3>1. <<d, m>> \in r.detached /\ <<d, n>> \in r.detached
      BY <1>2, <1>3, <2>1
    <3>2. <<d, m>> = <<d, n>>
      BY <1>1, <3>1
    <3>. QED  BY <3>2
  <2>. QED  BY <1>2, <1>3, <2>1
<1>. QED  BY <1>2, <1>3

LEMMA ReferencedMembers ==
    ASSUME NEW d, NEW n \in Referenced(d)
    PROVE  \/ \E t \in Tasks : n \in OwnedIn(task[t], d)
           \/ n = serial[d]
           \/ \E t \in Tasks : task[t].use = n
<1>. DEFINE owned == UNION {OwnedBy(t, d) : t \in Tasks}
            used == {task[t].use : t \in {u \in Tasks : task[u].device = d}}
<1>1. Referenced(d) = {serial[d]} \cup owned \cup used
  BY DEF Referenced
<1>2. n \in owned => \E t \in Tasks : n \in OwnedBy(t, d)
  OBVIOUS
<1>3. n \in used => \E t \in Tasks : task[t].use = n
  OBVIOUS
<1>4. \A t : OwnedBy(t, d) = OwnedIn(task[t], d)
  BY DEF OwnedBy, OwnedIn
<1>. HIDE DEF owned, used
<1>. QED  BY <1>1, <1>2, <1>3, <1>4

\* The other tasks and the map refer to fewer bound devices than there are
\* serial numbers.
LEMMA NewSerialFacts ==
    ASSUME AsyncInv, NEW t \in Tasks,
           task[t].pc \notin {"store", "discard", "execute", "executing", "closing"},
           NEW d \in Devices
    PROVE  NewSerial(d) \in Serials \ Live(d)
<1>. DEFINE others == Tasks \ {t}
            N == Cardinality(Tasks)
            f == [u \in others |-> IF OwnedIn(task[u], d) = {} THEN 0
                                   ELSE CHOOSE n \in OwnedIn(task[u], d) : TRUE]
            g == [u \in others |-> task[u].use]
            F == {f[u] : u \in others}
            G == {g[u] : u \in others}
<1>1. \A u \in Tasks : TaskSound(task[u])
  BY DEF AsyncInv
<1>2. task[t].use = 0 /\ OwnedIn(task[t], d) = {}
  BY <1>1, SoundFacts DEF TaskSound
<1>3. \A u \in others : OwnedIn(task[u], d) \subseteq {f[u]}
  BY <1>1, SoundFacts
<1>4. /\ IsFiniteSet(others) /\ Cardinality(others) = N - 1
      /\ N \in Nat
  BY TaskAssumption, FS_RemoveElement, FS_CardinalityType
<1>5. /\ IsFiniteSet(F) /\ Cardinality(F) <= N - 1
      /\ IsFiniteSet(G) /\ Cardinality(G) <= N - 1
  <2>1. f \in Surjection(others, F) /\ g \in Surjection(others, G)
    BY DEF Surjection
  <2>. HIDE DEF f, g, F, G
  <2>. QED  BY <1>4, <2>1, FS_Surjection
<1>6. Referenced(d) \subseteq F \cup G \cup {serial[d], 0}
  <2>1. \A u \in others : f[u] \in F /\ g[u] \in G /\ g[u] = task[u].use
    OBVIOUS
  <2>. HIDE DEF f, g, F, G
  <2>2. \A u \in Tasks : OwnedIn(task[u], d) \subseteq F
    BY <1>2, <1>3, <2>1
  <2>3. \A u \in Tasks : task[u].use \in G \cup {0}
    BY <1>2, <2>1
  <2>. QED  BY <2>2, <2>3, ReferencedMembers
<1>. HIDE DEF f, g, F, G
<1>7. /\ IsFiniteSet(F \cup G) /\ Cardinality(F \cup G) <= 2 * N - 2
  <2>1. IsFiniteSet(F \cap G) /\ Cardinality(F \cap G) \in Nat
    BY <1>5, FS_Subset, FS_CardinalityType
  <2>2. Cardinality(F) \in Nat /\ Cardinality(G) \in Nat
    BY <1>5, FS_CardinalityType
  <2>3. /\ IsFiniteSet(F \cup G)
        /\ Cardinality(F \cup G) = Cardinality(F) + Cardinality(G) - Cardinality(F \cap G)
    BY <1>5, FS_Union
  <2>. QED  BY <1>4, <1>5, <2>1, <2>2, <2>3
<1>8. /\ IsFiniteSet((F \cup G) \cup {serial[d]})
      /\ Cardinality((F \cup G) \cup {serial[d]}) <= 2 * N - 1
  <2>. DEFINE H == F \cup G
              c == Cardinality(H)
  <2>1. c \in Nat /\ IsFiniteSet(H) /\ c <= 2 * N - 2
    BY <1>7, FS_CardinalityType
  <2>2. /\ IsFiniteSet(H \cup {serial[d]})
        /\ Cardinality(H \cup {serial[d]}) = IF serial[d] \in H THEN c ELSE c + 1
    BY <2>1, FS_AddElement
  <2>. HIDE DEF H, c, N
  <2>3. Cardinality(H \cup {serial[d]}) <= 2 * N - 1
    BY <1>4, <2>1, <2>2
  <2>. QED  BY <2>2, <2>3 DEF H
<1>9. \E n \in Serials : n \notin Referenced(d)
  <2>. SUFFICES ASSUME Serials \subseteq Referenced(d) PROVE FALSE
    OBVIOUS
  <2>1. Serials \subseteq (F \cup G) \cup {serial[d]}
    BY <1>6, SerialFacts
  <2>2. Cardinality(Serials) <= Cardinality((F \cup G) \cup {serial[d]})
    BY <1>8, <2>1, FS_Subset
  <2>3. Cardinality((F \cup G) \cup {serial[d]}) \in Nat
    BY <1>8, FS_CardinalityType
  <2>. QED  BY <1>4, <1>8, <2>2, <2>3, SerialFacts
<1>10. NewSerial(d) \in Serials /\ NewSerial(d) \notin Referenced(d)
  BY <1>9 DEF NewSerial
<1>11. ASSUME NEW n \in Live(d) PROVE n \in Referenced(d)
  <2>1. CASE n = serial[d]
    BY <2>1 DEF Referenced
  <2>2. ASSUME NEW u \in Tasks, n \in OwnedIn(task[u], d) PROVE n \in Referenced(d)
    <3>1. n \in OwnedBy(u, d)
      BY <2>2 DEF OwnedBy, OwnedIn
    <3>. QED  BY <3>1 DEF Referenced
  <2>. QED  BY <1>11, <2>1, <2>2 DEF Live
<1>. QED  BY <1>10, <1>11

\* Between them a task and the map keep what they have of d, or get a new
\* bound device, or close one.
Moves(d, before, after, more) ==
    \/ after = before /\ more = 0
    \/ more = 1 /\ \E n \in Serials \ Live(d) : after = before \cup {n}
    \/ more = -1 /\ \E n \in before : after = before \ {n}

LEMMA OwnershipStep ==
    ASSUME NEW d \in Devices, NEW t \in Tasks, NEW r, NEW more,
           Ownership(d), DOMAIN task = Tasks,
           serial[d] \in Serials \cup {0}, serial'[d] \in Serials \cup {0},
           task' = [task EXCEPT ![t] = r],
           IsBound(d)' <=> serial'[d] # 0,
           serial'[d] \notin OwnedIn(r, d),
           open'[d] = open[d] + more,
           Moves(d, Share(task[t], serial[d], d), Share(r, serial'[d], d), more)
    PROVE  Ownership(d)'
<1>. DEFINE before == Share(task[t], serial[d], d)
            after == Share(r, serial'[d], d)
            rest == UNION {OwnedIn(task[u], d) : u \in Tasks \ {t}}
<1>1. /\ task'[t] = r /\ DOMAIN task' = Tasks
      /\ \A u \in Tasks \ {t} : task'[u] = task[u]
  OBVIOUS
<1>a. \A n : n \in rest <=> \E u \in Tasks \ {t} : n \in OwnedIn(task[u], d)
  OBVIOUS
<1>b. \A n : n \in before <=> n \in OwnedIn(task[t], d) \/ (n = serial[d] /\ n # 0)
  BY DEF Share
<1>c. \A n : n \in after <=> n \in OwnedIn(r, d) \/ (n = serial'[d] /\ n # 0)
  BY DEF Share
<1>. HIDE DEF rest, before, after
<1>2. Live(d) = rest \cup before
  BY <1>a, <1>b, SerialFacts DEF Live, OwnedIn
<1>3. Live(d)' = rest \cup after
  <2>1. \A n : n \in Live(d)' <=>
            n \in Serials /\ (n = serial'[d] \/ \E u \in Tasks : n \in OwnedIn(task'[u], d))
    BY DEF Live, OwnedIn
  <2>2. \A u : OwnedIn(task'[u], d) \subseteq Serials
    BY DEF OwnedIn
  <2>. QED  BY <1>1, <1>a, <1>c, <2>1, <2>2, SerialFacts
<1>4. rest \cap before = {}
  BY <1>a, <1>b DEF Ownership
<1>5. IsFiniteSet(Live(d)) /\ Cardinality(Live(d)) \in Nat
  <2>1. Live(d) \subseteq Serials
    BY DEF Live
  <2>. QED  BY <2>1, SerialFacts, FS_Subset, FS_CardinalityType
<1>d. Moves(d, before, after, more)
  BY DEF before, after
<1>6. rest \cap after = {}
  BY <1>2, <1>4, <1>d DEF Moves
<1>7. open'[d] = Cardinality(Live(d)')
  <2>1. CASE after = before /\ more = 0
    BY <1>2, <1>3, <1>5, <2>1 DEF Ownership
  <2>2. CASE more = 1 /\ \E n \in Serials \ Live(d) : after = before \cup {n}
    <3>1. PICK n \in Serials \ Live(d) : after = before \cup {n}
      BY <2>2
    <3>2. Live(d)' = Live(d) \cup {n}
      BY <1>2, <1>3, <3>1
    <3>. QED  BY <1>5, <2>2, <3>2, FS_AddElement DEF Ownership
  <2>3. CASE more = -1 /\ \E n \in before : after = before \ {n}
    <3>1. PICK n \in before : after = before \ {n}
      BY <2>3
    <3>2. Live(d)' = Live(d) \ {n} /\ n \in Live(d)
      BY <1>2, <1>3, <1>4, <3>1
    <3>. QED  BY <1>5, <2>3, <3>2, FS_RemoveElement DEF Ownership
  <2>. QED  BY <1>d, <2>1, <2>2, <2>3 DEF Moves
<1>8. \A u \in Tasks : serial'[d] \notin OwnedIn(task'[u], d)
  <2>1. ASSUME NEW u \in Tasks \ {t} PROVE serial'[d] \notin OwnedIn(task[u], d)
    <3>1. serial'[d] = 0 => serial'[d] \notin OwnedIn(task[u], d)
      BY SerialFacts DEF OwnedIn
    <3>2. serial'[d] # 0 => serial'[d] \in after
      BY <1>c
    <3>. QED  BY <1>6, <1>a, <3>1, <3>2
  <2>. QED  BY <1>1, <2>1
<1>9. \A u, v \in Tasks : u # v => OwnedIn(task'[u], d) \cap OwnedIn(task'[v], d) = {}
  <2>1. OwnedIn(r, d) \subseteq after
    BY <1>c
  <2>2. \A u \in Tasks \ {t} : OwnedIn(r, d) \cap OwnedIn(task[u], d) = {}
    BY <1>6, <1>a, <2>1
  <2>3. \A u, v \in Tasks \ {t} : u # v => OwnedIn(task[u], d) \cap OwnedIn(task[v], d) = {}
    BY DEF Ownership
  <2>. QED  BY <1>1, <2>2, <2>3
<1>. QED  BY <1>7, <1>8, <1>9 DEF Ownership, OwnedIn

\* A step of a task that leaves every bound device where it is, or moves it as
\* the devices' counts say.
LEMMA TaskStep ==
    ASSUME AsyncInv, NEW t \in Tasks, NEW r, task' = [task EXCEPT ![t] = r], TaskSound(r),
           OwnTypeOK', serial' \in [Devices -> Serials \cup {0}], writer' \in Tasks \cup {NoTask},
           \A d \in Devices :
              /\ IsBound(d)' <=> serial'[d] # 0
              /\ serial'[d] \notin OwnedIn(r, d)
              /\ \E more : /\ open'[d] = open[d] + more
                           /\ Moves(d, Share(task[t], serial[d], d), Share(r, serial'[d], d), more)
    PROVE  AsyncInv'
<1>1. /\ task'[t] = r /\ DOMAIN task' = Tasks
      /\ \A u \in Tasks \ {t} : task'[u] = task[u]
  BY DEF AsyncInv
<1>2. \A u \in Tasks : TaskSound(task'[u])
  BY <1>1 DEF AsyncInv
<1>0. task' \in [Tasks -> TaskRecords]
  BY DEF AsyncInv, TaskSound
<1>3. ASSUME NEW d \in Devices PROVE Ownership(d)'
  <2>1. PICK more : /\ open'[d] = open[d] + more
                    /\ Moves(d, Share(task[t], serial[d], d), Share(r, serial'[d], d), more)
    OBVIOUS
  <2>2. /\ Ownership(d) /\ DOMAIN task = Tasks
        /\ serial[d] \in Serials \cup {0} /\ serial'[d] \in Serials \cup {0}
        /\ IsBound(d)' <=> serial'[d] # 0
        /\ serial'[d] \notin OwnedIn(r, d)
    BY DEF AsyncInv
  <2>. QED  BY <2>1, <2>2, OwnershipStep
<1>4. \A u \in Tasks : TaskSound(task[u])' <=> TaskSound(task'[u])
  BY DEF TaskSound, TaskRecords, Outcomes
<1>5. TaskRecords' = TaskRecords
  BY DEF TaskRecords, Outcomes
<1>. QED  BY <1>0, <1>2, <1>3, <1>4, <1>5 DEF AsyncInv

\* A step of a task that owns nothing before and after, and of which the map
\* knows nothing.
LEMMA QuietStep ==
    ASSUME AsyncInv, NEW t \in Tasks, NEW r, task' = [task EXCEPT ![t] = r], TaskSound(r),
           task[t].pc \notin {"store", "discard", "closing"},
           r.pc \notin {"store", "discard", "closing"},
           OwnTypeOK', UNCHANGED <<serial, bindings, open>>, writer' \in Tasks \cup {NoTask}
    PROVE  AsyncInv'
<1>1. ASSUME NEW d \in Devices
      PROVE  /\ IsBound(d)' <=> serial'[d] # 0
             /\ serial'[d] \notin OwnedIn(r, d)
             /\ open'[d] = open[d] + 0
             /\ Moves(d, Share(task[t], serial[d], d), Share(r, serial'[d], d), 0)
  <2>1. OwnedIn(r, d) = {} /\ OwnedIn(task[t], d) = {}
    BY SoundFacts DEF AsyncInv
  <2>2. open[d] \in Int
    BY DEF AsyncInv, OwnTypeOK
  <2>. QED  BY <2>1, <2>2 DEF AsyncInv, Ownership, IsBound, Moves, Share
<1>2. \A d \in Devices :
          /\ IsBound(d)' <=> serial'[d] # 0
          /\ serial'[d] \notin OwnedIn(r, d)
          /\ \E more : /\ open'[d] = open[d] + more
                       /\ Moves(d, Share(task[t], serial[d], d), Share(r, serial'[d], d), more)
  BY <1>1
<1>3. serial' \in [Devices -> Serials \cup {0}]
  BY DEF AsyncInv
<1>. QED  BY <1>2, <1>3, TaskStep

-----------------------------------------------------------------------------
(* The records that a task becomes                                          *)

LEMMA IdleSound == TaskSound(Idle) /\ Idle.pc = "idle"
<1>1. (CHOOSE d \in Devices : TRUE) \in Devices /\ (CHOOSE c \in Configs : TRUE) \in Configs
  BY TaskAssumption, ConfigAssumption
<1>2. Nothing \in Outcomes
  BY DEF Nothing, Outcome, Outcomes
<1>. QED
  BY <1>1, <1>2, NoRunIsARun DEF Idle, TaskSound, TaskRecords, Labels, Operations, RefreshModes

LEMMA CompletingSound ==
    ASSUME NEW t \in Tasks, TaskSound(task[t]), task[t].pc # "closing", NEW o \in Outcomes
    PROVE  TaskSound(Completing(t, o)) /\ Completing(t, o).pc = "complete"
BY DEF TaskSound, TaskRecords, Completing, Labels

LEMMA OutcomeTypes ==
    /\ Failed \in Outcomes /\ Nothing \in Outcomes
    /\ \A h \in Handles : Outcome(TRUE, h, NoState) \in Outcomes
    /\ \A s \in Handles \cup {NoState} : Outcome(TRUE, Unbound, s) \in Outcomes
BY DEF Failed, Nothing, Outcome, Outcomes

LEMMA UsingSound ==
    ASSUME AsyncInv, NEW t \in Tasks, task[t].pc \in {"idle", "request_read", "request_write"},
           NEW d \in Devices, IsBound(d)
    PROVE  TaskSound(Using(t, d)) /\ Using(t, d).pc = "execute"
<1>1. bindings[d] \in Handles /\ config \in Configs /\ serial[d] \in Serials /\ serial[d] # 0
  BY SerialFacts DEF AsyncInv, OwnTypeOK, Ownership, IsBound
<1>2. TaskSound(task[t])
  BY DEF AsyncInv
<1>. QED  BY <1>1, <1>2 DEF TaskSound, TaskRecords, Using, Labels

LEMMA PreparedSound ==
    ASSUME AsyncInv, NEW t \in Tasks, task[t].pc \in {"bind_read", "request_write"},
           inventory[task[t].device] \in Descriptors
    PROVE  TaskSound(Prepared(t)) /\ Prepared(t).pc \in {"driver_bind", "complete"}
<1>. DEFINE d == task[t].device
            handle == [driver |-> Resolve(d, inventory[d]), descriptor |-> inventory[d]]
<1>1. TaskSound(task[t]) /\ config \in Configs /\ OwnTypeOK
  BY DEF AsyncInv, OwnTypeOK
<1>2. CASE Resolve(d, inventory[d]) = NoDriver
  BY <1>1, <1>2, CompletingSound, OutcomeTypes DEF Prepared
<1>3. CASE Resolve(d, inventory[d]) # NoDriver
  <2>1. handle \in Handles
    BY <1>1, <1>3, ResolveType DEF Handles
  <2>2. Prepared(t) = [task[t] EXCEPT !.pc = "driver_bind", !.config = config, !.plan = handle]
    BY <1>3 DEF Prepared
  <2>. HIDE DEF handle
  <2>. QED  BY <1>1, <2>1, <2>2 DEF TaskSound, TaskRecords, Labels
<1>. QED  BY <1>2, <1>3

LEMMA ClosingSound ==
    ASSUME NEW r \in TaskRecords, r.own = 0, r.use = 0, r.pc \in {"idle", "closing", "committing"},
           \A b, c \in r.detached : b[1] = c[1] => b = c
    PROVE  /\ TaskSound(Closing(r))
           /\ r.detached # {} => Closing(r).pc = "closing" /\ Closing(r).detached = r.detached
           /\ r.detached = {} => Closing(r).pc \in {"idle", "rebind"}
           /\ \A d : OwnedIn(Closing(r), d) = {n \in Serials : <<d, n>> \in r.detached}
<1>1. CASE r.detached # {}
  <2>1. Closing(r) = [r EXCEPT !.pc = "closing"]
    BY <1>1 DEF Closing
  <2>2. TaskSound(Closing(r)) /\ Closing(r).pc = "closing" /\ Closing(r).detached = r.detached
    BY <1>1, <2>1 DEF TaskSound, TaskRecords, Labels
  <2>. QED  BY <1>1, <2>2, SoundFacts
<1>2. CASE r.detached = {} /\ r.op = "refresh"
  <2>1. Closing(r) = [r EXCEPT !.pc = "rebind"]
    BY <1>2 DEF Closing
  <2>2. TaskSound(Closing(r)) /\ Closing(r).pc = "rebind"
    BY <1>2, <2>1 DEF TaskSound, TaskRecords, Labels
  <2>. QED  BY <1>2, <2>2, SoundFacts
<1>3. CASE r.detached = {} /\ r.op # "refresh"
  <2>1. Closing(r) = Idle
    BY <1>3 DEF Closing
  <2>. QED  BY <1>3, <2>1, IdleSound, SoundFacts
<1>. QED  BY <1>1, <1>2, <1>3

-----------------------------------------------------------------------------
(* The steps                                                                *)

LEMMA BoundOfType ==
    ASSUME AsyncInv, NEW gone \in SUBSET Devices
    PROVE  /\ BoundOf(gone) \subseteq Devices \X Serials
           /\ \A b, c \in BoundOf(gone) : b[1] = c[1] => b = c
           /\ \A d, n : <<d, n>> \in BoundOf(gone) <=> d \in gone /\ IsBound(d) /\ n = serial[d]
<1>1. \A d \in gone : IsBound(d) => serial[d] \in Serials
  BY DEF AsyncInv, Ownership
<1>. QED  BY <1>1 DEF BoundOf

\* Detaching moves bound devices from the map to the task.
LEMMA DetachStep ==
    ASSUME AsyncInv, NEW t \in Tasks, task[t].pc \in {"idle", "committing"},
           NEW gone \in SUBSET Devices, Detach(gone),
           NEW r \in TaskRecords, r.own = 0, r.use = 0, r.pc \in {"idle", "committing"},
           r.detached = BoundOf(gone), task' = [task EXCEPT ![t] = Closing(r)],
           UNCHANGED <<config, drivers, preferred, open, released>>,
           desired_bindings' \subseteq Devices, writer' \in Tasks \cup {NoTask}
    PROVE  AsyncInv'
<1>1. /\ TaskSound(Closing(r))
      /\ \A d : OwnedIn(Closing(r), d) = {n \in Serials : <<d, n>> \in BoundOf(gone)}
  BY ClosingSound, BoundOfType
<1>2. serial' = [d \in Devices |-> IF d \in gone THEN 0 ELSE serial[d]]
  BY DEF Detach
<1>3. OwnTypeOK'
  BY DEF Detach, AsyncInv, OwnTypeOK
<1>4. ASSUME NEW d \in Devices
      PROVE  /\ IsBound(d)' <=> serial'[d] # 0
             /\ serial'[d] \notin OwnedIn(Closing(r), d)
             /\ open'[d] = open[d] + 0
             /\ Moves(d, Share(task[t], serial[d], d), Share(Closing(r), serial'[d], d), 0)
  <2>1. /\ open[d] \in Int /\ serial[d] \in Serials \cup {0}
        /\ IsBound(d) <=> serial[d] # 0
        /\ bindings \in [Devices -> Handles \cup {Unbound}]
    BY DEF AsyncInv, OwnTypeOK, Ownership
  <2>2. OwnedIn(task[t], d) = {}
    BY SoundFacts DEF AsyncInv
  <2>3. OwnedIn(Closing(r), d) = IF d \in gone /\ IsBound(d) THEN {serial[d]} ELSE {}
    <3>1. OwnedIn(Closing(r), d) = {n \in Serials : <<d, n>> \in BoundOf(gone)}
      BY <1>1
    <3>2. \A n : <<d, n>> \in BoundOf(gone) <=> d \in gone /\ IsBound(d) /\ n = serial[d]
      BY BoundOfType
    <3>. QED  BY <2>1, <3>1, <3>2
  <2>4. IsBound(d)' <=> IsBound(d) /\ d \notin gone
    BY <2>1 DEF Detach, IsBound
  <2>. QED  BY <1>2, <2>1, <2>2, <2>3, <2>4, SerialFacts DEF Moves, Share
<1>5. \A d \in Devices :
          /\ IsBound(d)' <=> serial'[d] # 0
          /\ serial'[d] \notin OwnedIn(Closing(r), d)
          /\ \E more : /\ open'[d] = open[d] + more
                       /\ Moves(d, Share(task[t], serial[d], d),
                                   Share(Closing(r), serial'[d], d), more)
  BY <1>4
<1>6. serial' \in [Devices -> Serials \cup {0}]
  BY <1>2 DEF AsyncInv
<1>. QED  BY <1>1, <1>3, <1>5, <1>6, TaskStep

LEMMA BeginOwns ==
    ASSUME AsyncInv, LockInv, NEW t \in Tasks, Begin(t)
    PROVE  AsyncInv'
<1>0. /\ At(t, "idle") /\ task[t].pc = "idle" /\ TaskSound(task[t])
      /\ writer \in Tasks \cup {NoTask} /\ OwnTypeOK
  BY DEF Begin, BeginBind, BeginRequest, BeginRefreshState, AsyncUnbind, AsyncShutdown,
     BeginShutdown, BeginRefresh, At, AsyncInv
<1>1. UNCHANGED runtimeVars => OwnTypeOK' /\ UNCHANGED <<bindings, open>>
  BY <1>0 DEF runtimeVars, registryVars, deviceVars, OwnTypeOK
<1>2. ASSUME NEW d \in Devices, NEW op \in Operations, NEW pc \in {"bind_read", "request_read"},
             BeginLocked(t, op, pc, d), UNCHANGED <<runtimeVars, serial, writer>>
      PROVE  AsyncInv'
  <2>. DEFINE r == [Idle EXCEPT !.op = op, !.pc = pc, !.device = d, !.lock = BindLock(d)]
  <2>1. BindLock(d) \in Locks
    BY <1>0, BindLockFacts
  <2>2. TaskSound(r) /\ r.pc = pc
    <3>1. Idle \in TaskRecords /\ Idle.own = 0 /\ Idle.use = 0 /\ Idle.detached = {}
      BY IdleSound DEF TaskSound
    <3>. QED  BY <2>1, <3>1 DEF TaskSound, TaskRecords, Labels
  <2>3. task' = [task EXCEPT ![t] = r]
    BY <1>2 DEF BeginLocked
  <2>. HIDE DEF r
  <2>. QED  BY <1>0, <1>1, <1>2, <2>2, <2>3, QuietStep
<1>3. ASSUME NEW d \in Devices, BeginBind(t, d) PROVE AsyncInv'
  BY <1>2, <1>3 DEF BeginBind, Operations
<1>4. ASSUME NEW d \in Devices, BeginRequest(t, d) PROVE AsyncInv'
  <2>. DEFINE r == [Idle EXCEPT !.op = "request", !.pc = "request_read", !.device = d]
  <2>1. TaskSound(r) /\ r.pc = "request_read"
    <3>1. Idle \in TaskRecords /\ Idle.own = 0 /\ Idle.use = 0 /\ Idle.detached = {}
      BY IdleSound DEF TaskSound
    <3>. QED  BY <3>1 DEF TaskSound, TaskRecords, Labels, Operations
  <2>. HIDE DEF r
  <2>2. CASE Become(t, r)
    BY <1>0, <1>1, <1>4, <2>1, <2>2, QuietStep DEF Become, BeginRequest
  <2>3. CASE BeginLocked(t, "request", "request_read", d)
    BY <1>2, <1>4, <2>3 DEF BeginRequest, Operations
  <2>. QED  BY <1>4, <2>2, <2>3 DEF BeginRequest, r
<1>5. ASSUME NEW d \in Devices, BeginRefreshState(t, d) PROVE AsyncInv'
  <2>. DEFINE r == [Using(t, d) EXCEPT !.op = "refresh_state", !.device = d]
  <2>1. CASE IsBound(d)
    <3>1. TaskSound(Using(t, d)) /\ Using(t, d).pc = "execute"
      BY <1>0, <2>1, UsingSound
    <3>2. TaskSound(r) /\ r.pc = "execute"
      BY <3>1 DEF TaskSound, TaskRecords, Operations
    <3>3. task' = [task EXCEPT ![t] = r]
      BY <1>5, <2>1 DEF BeginRefreshState, Become
    <3>4. OwnTypeOK' /\ UNCHANGED <<serial, bindings, open, writer>>
      BY <1>0, <1>5, <2>1 DEF BeginRefreshState, registryVars, OwnTypeOK
    <3>. HIDE DEF r
    <3>. QED  BY <1>0, <3>2, <3>3, <3>4, QuietStep
  <2>2. CASE ~ IsBound(d)
    <3>1. OwnTypeOK' /\ UNCHANGED <<serial, bindings, open, writer, task>>
      BY <1>0, <1>5, <2>2 DEF BeginRefreshState, registryVars, OwnTypeOK
    <3>2. task' = [task EXCEPT ![t] = task[t]]
      BY <3>1 DEF AsyncInv
    <3>. QED  BY <1>0, <3>1, <3>2, QuietStep
  <2>. QED  BY <2>1, <2>2
<1>6. ASSUME NEW gone \in SUBSET Devices, NEW op \in Operations, Detach(gone),
             Become(t, Closing([Idle EXCEPT !.op = op, !.detached = BoundOf(gone)])),
             UNCHANGED <<config, drivers, preferred, open, released, writer>>,
             desired_bindings' \subseteq Devices
      PROVE  AsyncInv'
  <2>. DEFINE r == [Idle EXCEPT !.op = op, !.detached = BoundOf(gone)]
  <2>1. r \in TaskRecords /\ r.own = 0 /\ r.use = 0 /\ r.pc = "idle" /\ r.detached = BoundOf(gone)
    <3>1. Idle \in TaskRecords /\ Idle.own = 0 /\ Idle.use = 0 /\ Idle.pc = "idle"
      BY IdleSound DEF TaskSound
    <3>. QED  BY <3>1, BoundOfType DEF TaskRecords
  <2>2. task' = [task EXCEPT ![t] = Closing(r)]
    BY <1>6 DEF Become
  <2>. HIDE DEF r
  <2>. QED  BY <1>0, <1>6, <2>1, <2>2, DetachStep
<1>7. ASSUME NEW d \in Devices, AsyncUnbind(t, d) PROVE AsyncInv'
  BY <1>0, <1>6, <1>7 DEF AsyncUnbind, registryVars, Operations, OwnTypeOK
<1>8. CASE AsyncShutdown(t)
  BY <1>0, <1>6, <1>8 DEF AsyncShutdown, registryVars, Operations
<1>9. Idle \in TaskRecords /\ Idle.own = 0 /\ Idle.use = 0 /\ Idle.detached = {}
  BY IdleSound DEF TaskSound
<1>10. CASE BeginShutdown(t)
  <2>. DEFINE r == [Idle EXCEPT !.op = "shutdown", !.pc = "stopping"]
  <2>1. TaskSound(r) /\ r.pc = "stopping"
    BY <1>9 DEF TaskSound, TaskRecords, Labels, Operations
  <2>2. task' = [task EXCEPT ![t] = r] /\ UNCHANGED <<runtimeVars, serial>> /\ writer' = t
    BY <1>10 DEF BeginShutdown, Become
  <2>. HIDE DEF r
  <2>. QED  BY <1>0, <1>1, <2>1, <2>2, QuietStep
<1>11. ASSUME NEW mode \in RefreshModes, BeginRefresh(t, mode) PROVE AsyncInv'
  <2>1. PICK run \in Runs({}, Probes) :
            Become(t, [Idle EXCEPT !.op = "refresh", !.pc = "probed", !.mode = mode, !.run = run])
    BY <1>11 DEF BeginRefresh
  <2>. DEFINE r == [Idle EXCEPT !.op = "refresh", !.pc = "probed", !.mode = mode, !.run = run]
  <2>2. run \in RefreshRuns
    BY DEF RefreshRuns
  <2>3. TaskSound(r) /\ r.pc = "probed"
    BY <1>9, <2>2 DEF TaskSound, TaskRecords, Labels, Operations
  <2>4. task' = [task EXCEPT ![t] = r] /\ UNCHANGED <<runtimeVars, serial, writer>>
    BY <1>11, <2>1 DEF BeginRefresh, Become
  <2>. HIDE DEF r
  <2>. QED  BY <1>0, <1>1, <2>3, <2>4, QuietStep
<1>. QED  BY <1>3, <1>4, <1>5, <1>7, <1>8, <1>10, <1>11 DEF Begin

\* The steps in which no bound device changes hands.
LEMMA QuietProceed ==
    ASSUME AsyncInv, TypeOK, NEW t \in Tasks,
           \/ BindRead(t) \/ RequestRead(t) \/ RequestWrite(t)
           \/ Execute(t) \/ Executed(t) \/ Complete(t) \/ BeginCommit(t)
    PROVE  AsyncInv'
<1>. DEFINE d == task[t].device
<1>0. /\ TaskSound(task[t]) /\ d \in Devices /\ OwnTypeOK
      /\ writer \in Tasks \cup {NoTask}
      /\ inventory[d] # Absent => inventory[d] \in Descriptors
  BY DEF AsyncInv, TaskSound, TaskRecords, TypeOK, Snapshots
<1>1. UNCHANGED runtimeVars => OwnTypeOK' /\ UNCHANGED <<bindings, open>>
  BY <1>0 DEF runtimeVars, registryVars, deviceVars, OwnTypeOK
<1>2. ASSUME NEW r, Become(t, r), TaskSound(r), UNCHANGED <<runtimeVars, serial, writer>>,
             task[t].pc \notin {"store", "discard", "closing"},
             r.pc \notin {"store", "discard", "closing"}
      PROVE  AsyncInv'
  BY <1>0, <1>1, <1>2, QuietStep DEF Become
<1>3. CASE BindRead(t)
  <2>1. task[t].pc = "bind_read" /\ UNCHANGED <<runtimeVars, serial, writer>>
    BY <1>3 DEF BindRead, At
  <2>2. PICK r : /\ Become(t, r)
                 /\ \/ r \in {Completing(t, Failed), Completing(t, Nothing)}
                    \/ r = Prepared(t) /\ inventory[d] # Absent
    BY <1>3 DEF BindRead
  <2>3. TaskSound(r) /\ r.pc \in {"complete", "driver_bind"}
    BY <1>0, <2>1, <2>2, CompletingSound, PreparedSound, OutcomeTypes
  <2>. QED  BY <1>2, <2>1, <2>2, <2>3
<1>4. CASE RequestRead(t)
  <2>. DEFINE w == [task[t] EXCEPT !.pc = "request_write"]
  <2>1. task[t].pc = "request_read" /\ UNCHANGED <<runtimeVars, serial, writer>>
    BY <1>4 DEF RequestRead, At
  <2>2. PICK r : /\ Become(t, r)
                 /\ \/ r = Completing(t, Failed)
                    \/ r = Using(t, d) /\ IsBound(d)
                    \/ r = w
    BY <1>4 DEF RequestRead, Validated
  <2>3. TaskSound(w) /\ w.pc = "request_write"
    BY <1>0, <2>1 DEF TaskSound, TaskRecords, Labels
  <2>. HIDE DEF w
  <2>4. TaskSound(r) /\ r.pc \in {"complete", "execute", "request_write"}
    BY <1>0, <2>1, <2>2, <2>3, CompletingSound, UsingSound, OutcomeTypes
  <2>. QED  BY <1>2, <2>1, <2>2, <2>4
<1>5. CASE RequestWrite(t)
  <2>1. task[t].pc = "request_write" /\ UNCHANGED <<runtimeVars, serial, writer>>
    BY <1>5 DEF RequestWrite, At
  <2>2. PICK r : /\ Become(t, r)
                 /\ \/ r = Completing(t, Failed)
                    \/ r = Using(t, d) /\ IsBound(d)
                    \/ r = Prepared(t) /\ inventory[d] # Absent
    BY <1>5 DEF RequestWrite, Validated
  <2>3. TaskSound(r) /\ r.pc \in {"complete", "execute", "driver_bind"}
    BY <1>0, <2>1, <2>2, CompletingSound, UsingSound, PreparedSound, OutcomeTypes
  <2>. QED  BY <1>2, <2>1, <2>2, <2>3
<1>6. CASE Execute(t)
  <2>. DEFINE r == [task[t] EXCEPT !.pc = "executing"]
  <2>1. /\ task[t].pc = "execute" /\ UNCHANGED <<runtimeVars, serial, writer>>
        /\ Become(t, r)
    BY <1>6 DEF Execute, At
  <2>2. TaskSound(r) /\ r.pc = "executing"
    BY <1>0, <2>1 DEF TaskSound, TaskRecords, Labels
  <2>. HIDE DEF r
  <2>. QED  BY <1>2, <2>1, <2>2
<1>7. CASE Executed(t)
  <2>1. task[t].pc = "executing" /\ UNCHANGED <<runtimeVars, serial, writer>>
    BY <1>7 DEF Executed, At
  <2>2. PICK out : /\ Become(t, Completing(t, out))
                   /\ out \in {[task[t].outcome EXCEPT !.ok = FALSE], task[t].outcome,
                               [task[t].outcome EXCEPT !.state = task[t].plan]}
    BY <1>7 DEF Executed
  <2>3. task[t].outcome \in Outcomes /\ task[t].plan \in Handles
    BY <1>0, <2>1 DEF TaskSound, TaskRecords
  <2>4. out \in Outcomes
    BY <2>2, <2>3 DEF Outcomes
  <2>5. TaskSound(Completing(t, out)) /\ Completing(t, out).pc = "complete"
    BY <1>0, <2>1, <2>4, CompletingSound
  <2>. QED  BY <1>2, <2>1, <2>2, <2>5
<1>8. CASE Complete(t)
  <2>1. /\ task[t].pc = "complete" /\ UNCHANGED <<config, drivers, preferred, bindings, open,
                                                  released, serial, writer>>
        /\ task' = [task EXCEPT ![t] = Idle]
    BY <1>8 DEF Complete, At, Become, registryVars
  <2>2. OwnTypeOK'
    <3>1. task[t].outcome.state \in Handles \cup {NoState}
      BY <1>0 DEF TaskSound, TaskRecords, Outcomes
    <3>2. /\ failures' \subseteq Devices /\ desired_bindings' \subseteq Devices
          /\ states' \in [Devices -> Handles \cup {NoState}]
      BY <1>0, <1>8, <3>1 DEF Complete, OwnTypeOK, Cached
    <3>. QED  BY <1>0, <2>1, <3>2 DEF OwnTypeOK
  <2>. QED  BY <1>0, <2>1, <2>2, IdleSound, QuietStep
<1>9. CASE BeginCommit(t)
  <2>. DEFINE r == [task[t] EXCEPT !.pc = "committing"]
  <2>1. /\ task[t].pc = "probed" /\ UNCHANGED <<runtimeVars, serial>> /\ writer' = t
        /\ task' = [task EXCEPT ![t] = r]
    BY <1>9 DEF BeginCommit, At, Become
  <2>2. TaskSound(r) /\ r.pc = "committing"
    BY <1>0, <2>1 DEF TaskSound, TaskRecords, Labels
  <2>. HIDE DEF r
  <2>. QED  BY <1>0, <1>1, <2>1, <2>2, QuietStep
<1>. QED  BY <1>3, <1>4, <1>5, <1>6, <1>7, <1>8, <1>9

LEMMA DriverBindOwns ==
    ASSUME AsyncInv, NEW t \in Tasks, DriverBind(t)
    PROVE  AsyncInv'
<1>. DEFINE d == task[t].device
            n == NewSerial(d)
            made(state) == [task[t] EXCEPT !.pc = "store", !.own = n,
                                           !.outcome = Outcome(TRUE, Unbound, state)]
<1>0. /\ TaskSound(task[t]) /\ d \in Devices /\ OwnTypeOK
      /\ task[t].pc = "driver_bind" /\ task[t].plan \in Handles
      /\ writer \in Tasks \cup {NoTask} /\ serial \in [Devices -> Serials \cup {0}]
      /\ UNCHANGED <<config, drivers, preferred, bindings, states, desired_bindings, failures,
                     released, serial, writer>>
  BY DEF AsyncInv, TaskSound, TaskRecords, DriverBind, At, registryVars
<1>1. \/ Become(t, Completing(t, Failed)) /\ UNCHANGED open
      \/ /\ \E state \in {NoState, task[t].plan} : Become(t, made(state))
         /\ open' = [open EXCEPT ![d] = @ + 1]
  BY DEF DriverBind
<1>2. CASE Become(t, Completing(t, Failed)) /\ UNCHANGED open
  <2>1. OwnTypeOK'
    BY <1>0, <1>2 DEF OwnTypeOK
  <2>2. TaskSound(Completing(t, Failed)) /\ Completing(t, Failed).pc = "complete"
    BY <1>0, CompletingSound, OutcomeTypes
  <2>. QED  BY <1>0, <1>2, <2>1, <2>2, QuietStep DEF Become
<1>3. ASSUME NEW state \in {NoState, task[t].plan}, Become(t, made(state)),
             open' = [open EXCEPT ![d] = @ + 1]
      PROVE  AsyncInv'
  <2>1. n \in Serials \ Live(d)
    BY <1>0, NewSerialFacts
  <2>. HIDE DEF n
  <2>2. Outcome(TRUE, Unbound, state) \in Outcomes
    BY <1>0, OutcomeTypes
  <2>. DEFINE r == made(state)
  <2>3. TaskSound(r) /\ r.pc = "store" /\ r.own = n /\ r.device = d
    BY <1>0, <2>1, <2>2, SerialFacts DEF TaskSound, TaskRecords, Labels
  <2>4. task' = [task EXCEPT ![t] = r]
    BY <1>3 DEF Become
  <2>. HIDE DEF r
  <2>5. OwnTypeOK'
    BY <1>0, <1>3 DEF OwnTypeOK
  <2>6. ASSUME NEW e \in Devices
        PROVE  /\ IsBound(e)' <=> serial'[e] # 0
               /\ serial'[e] \notin OwnedIn(r, e)
               /\ \E more : /\ open'[e] = open[e] + more
                            /\ Moves(e, Share(task[t], serial[e], e),
                                        Share(r, serial'[e], e), more)
    <3>1. /\ OwnedIn(task[t], e) = {} /\ OwnedIn(r, e) = IF e = d THEN {n} ELSE {}
          /\ open[e] \in Int /\ serial'[e] = serial[e]
      BY <1>0, <2>3, SoundFacts DEF OwnTypeOK
    <3>2. IsBound(e)' <=> serial'[e] # 0
      BY <1>0 DEF AsyncInv, Ownership, IsBound
    <3>3. CASE e = d
      <4>1. serial[d] # n
        BY <2>1 DEF Live
      <4>2. open'[d] = open[d] + 1
        BY <1>0, <1>3 DEF OwnTypeOK
      <4>3. Share(r, serial'[e], e) = Share(task[t], serial[e], e) \cup {n}
        BY <3>1, <3>3 DEF Share
      <4>4. Moves(e, Share(task[t], serial[e], e), Share(r, serial'[e], e), 1)
        BY <2>1, <3>3, <4>3 DEF Moves
      <4>. QED  BY <3>1, <3>2, <3>3, <4>1, <4>2, <4>4
    <3>4. CASE e # d
      <4>1. open'[e] = open[e] + 0
        BY <1>0, <1>3, <3>1, <3>4 DEF OwnTypeOK
      <4>2. Moves(e, Share(task[t], serial[e], e), Share(r, serial'[e], e), 0)
        BY <3>1, <3>4 DEF Moves, Share
      <4>. QED  BY <3>1, <3>2, <3>4, <4>1, <4>2
    <3>. QED  BY <3>3, <3>4
  <2>. QED  BY <1>0, <2>3, <2>4, <2>5, <2>6, TaskStep
<1>. QED  BY <1>1, <1>2, <1>3
\* The write section stores the new bound device, closes it, or leaves it to the
\* request to close.
LEMMA StoreOwns ==
    ASSUME AsyncInv, NEW t \in Tasks, Store(t)
    PROVE  AsyncInv'
<1>. DEFINE d == task[t].device
            n == task[t].own
            old == task[t].outcome
<1>0. /\ TaskSound(task[t]) /\ d \in Devices /\ OwnTypeOK
      /\ task[t].pc = "store" /\ task[t].plan \in Handles /\ old \in Outcomes
      /\ n \in Serials /\ n # 0
      /\ writer \in Tasks \cup {NoTask} /\ serial \in [Devices -> Serials \cup {0}]
      /\ \A e \in Devices : Ownership(e)
      /\ UNCHANGED <<config, drivers, preferred, desired_bindings, failures, released, writer>>
  BY DEF AsyncInv, TaskSound, TaskRecords, Store, At, registryVars
<1>1. /\ \A e : OwnedIn(task[t], e) = IF e = d THEN {n} ELSE {}
      /\ \A e \in Devices : open[e] \in Int
  BY <1>0, SoundFacts DEF OwnTypeOK
<1>2. serial[d] # n
  BY <1>0, <1>1 DEF Ownership
\* A step that gives up the bound device, closes it, or leaves it where it is.
<1>3. ASSUME NEW r, task' = [task EXCEPT ![t] = r], TaskSound(r),
             UNCHANGED <<bindings, states, serial>>,
             \/ r.pc = "complete" /\ open' = [open EXCEPT ![d] = @ - 1]
             \/ /\ r.pc = "discard" /\ r.own = n /\ r.device = d
                /\ open' = [open EXCEPT ![d] = @ - 0]
      PROVE  AsyncInv'
  <2>1. OwnTypeOK'
    BY <1>0, <1>1, <1>3 DEF OwnTypeOK
  <2>2. ASSUME NEW e \in Devices
        PROVE  /\ IsBound(e)' <=> serial'[e] # 0
               /\ serial'[e] \notin OwnedIn(r, e)
               /\ \E more : /\ open'[e] = open[e] + more
                            /\ Moves(e, Share(task[t], serial[e], e),
                                        Share(r, serial'[e], e), more)
    <3>1. IsBound(e)' <=> serial'[e] # 0
      BY <1>0, <1>3 DEF Ownership, IsBound
    <3>2. CASE r.pc = "complete" /\ e = d
      <4>1. OwnedIn(r, e) = {}
        BY <1>3, <3>2, SoundFacts
      <4>2. open'[e] = open[e] + (-1)
        BY <1>0, <1>1, <1>3, <3>2 DEF OwnTypeOK
      <4>3. Share(r, serial'[e], e) = Share(task[t], serial[e], e) \ {n}
        BY <1>1, <1>2, <1>3, <3>2, <4>1 DEF Share
      <4>4. n \in Share(task[t], serial[e], e)
        BY <1>1, <3>2 DEF Share
      <4>. QED  BY <3>1, <4>1, <4>2, <4>3, <4>4 DEF Moves
    <3>3. CASE r.pc # "complete" \/ e # d
      <4>1. OwnedIn(r, e) = OwnedIn(task[t], e)
        <5>1. CASE r.pc = "complete"
          BY <1>1, <1>3, <3>3, <5>1, SoundFacts
        <5>2. CASE r.pc = "discard" /\ r.own = n /\ r.device = d
          <6>1. OwnedIn(r, e) = IF r.device = e THEN {r.own} ELSE {}
            BY <1>3, <5>2, SoundFacts
          <6>. QED  BY <1>1, <5>2, <6>1
        <5>. QED  BY <1>3, <5>1, <5>2
      <4>2. open'[e] = open[e] + 0
        BY <1>0, <1>1, <1>3, <3>3 DEF OwnTypeOK
      <4>3. Moves(e, Share(task[t], serial[e], e), Share(r, serial'[e], e), 0)
        BY <1>3, <4>1 DEF Moves, Share
      <4>. QED  BY <1>0, <1>3, <3>1, <4>1, <4>2, <4>3 DEF Ownership
    <3>. QED  BY <3>2, <3>3
  <2>. QED  BY <1>0, <1>3, <2>1, <2>2, TaskStep
\* A step that stores it.
<1>4. ASSUME NEW r, task' = [task EXCEPT ![t] = r], TaskSound(r),
             r.pc \in {"complete", "execute"}, ~ IsBound(d),
             open' = [open EXCEPT ![d] = @ - 0],
             bindings' = [bindings EXCEPT ![d] = task[t].plan],
             serial' = [serial EXCEPT ![d] = n],
             states' = [states EXCEPT ![d] = Cached(old, @)]
      PROVE  AsyncInv'
  <2>1. OwnTypeOK'
    <3>1. states' \in [Devices -> Handles \cup {NoState}]
      BY <1>0, <1>4 DEF OwnTypeOK, Cached, Outcomes
    <3>2. open' \in [Devices -> Int] /\ bindings' \in [Devices -> Handles \cup {Unbound}]
      BY <1>0, <1>1, <1>4 DEF OwnTypeOK
    <3>. QED  BY <1>0, <3>1, <3>2 DEF OwnTypeOK
  <2>2. serial' \in [Devices -> Serials \cup {0}]
    BY <1>0, <1>4
  <2>3. ASSUME NEW e \in Devices
        PROVE  /\ IsBound(e)' <=> serial'[e] # 0
               /\ serial'[e] \notin OwnedIn(r, e)
               /\ \E more : /\ open'[e] = open[e] + more
                            /\ Moves(e, Share(task[t], serial[e], e),
                                        Share(r, serial'[e], e), more)
    <3>1. OwnedIn(r, e) = {}
      BY <1>4, SoundFacts
    <3>2. open'[e] = open[e] + 0
      BY <1>0, <1>1, <1>4 DEF OwnTypeOK
    <3>3. IsBound(e)' <=> serial'[e] # 0
      BY <1>0, <1>4, HandleAssumption DEF Ownership, IsBound, OwnTypeOK
    <3>4. Share(r, serial'[e], e) = Share(task[t], serial[e], e)
      <4>1. CASE e = d
        <5>1. serial[d] = 0 /\ serial'[d] = n
          BY <1>0, <1>4 DEF Ownership
        <5>. QED  BY <1>0, <1>1, <3>1, <4>1, <5>1 DEF Share
      <4>2. CASE e # d
        BY <1>0, <1>1, <1>4, <3>1, <4>2 DEF Share
      <4>. QED  BY <4>1, <4>2
    <3>. QED  BY <3>1, <3>2, <3>3, <3>4 DEF Moves
  <2>. QED  BY <1>0, <1>4, <2>1, <2>2, <2>3, TaskStep
<1>5. CASE StoreDecision(t) = "refuse"
  <2>1. /\ Become(t, Completing(t, Failed)) /\ UNCHANGED <<bindings, serial, states>>
        /\ open' = [open EXCEPT ![d] = @ - 1]
    BY <1>5 DEF Store, ClosesNow
  <2>. QED  BY <1>0, <1>3, <2>1, CompletingSound, OutcomeTypes DEF Become
<1>6. CASE StoreDecision(t) = "discard" /\ task[t].op = "bind"
  <2>1. /\ Become(t, Completing(t, Nothing)) /\ UNCHANGED <<bindings, serial, states>>
        /\ open' = [open EXCEPT ![d] = @ - 1]
    BY <1>6 DEF Store, ClosesNow
  <2>. QED  BY <1>0, <1>3, <2>1, CompletingSound, OutcomeTypes DEF Become
<1>7. CASE StoreDecision(t) = "discard" /\ task[t].op # "bind"
  <2>. DEFINE r == [task[t] EXCEPT !.pc = "discard", !.use = serial[d],
                                   !.plan = bindings[d], !.outcome = Nothing]
  <2>1. /\ Become(t, r) /\ UNCHANGED <<bindings, serial, states>>
        /\ open' = [open EXCEPT ![d] = @ - 0]
    BY <1>7 DEF Store, ClosesNow
  <2>2. IsBound(d)
    BY <1>7 DEF StoreDecision
  <2>3. serial[d] \in Serials /\ serial[d] # 0 /\ bindings[d] \in Handles
    BY <1>0, <2>2 DEF Ownership, OwnTypeOK, IsBound
  <2>4. TaskSound(r) /\ r.pc = "discard" /\ r.own = n /\ r.device = d
    BY <1>0, <2>3, OutcomeTypes DEF TaskSound, TaskRecords, Labels
  <2>. HIDE DEF r
  <2>. QED  BY <1>3, <2>1, <2>4 DEF Become
<1>8. CASE StoreDecision(t) = "store"
  <2>. DEFINE stored == Outcome(TRUE, task[t].plan, NoState)
              use == [task[t] EXCEPT !.pc = "execute", !.own = 0, !.use = n, !.outcome = stored]
  <2>1. /\ bindings' = [bindings EXCEPT ![d] = task[t].plan]
        /\ serial' = [serial EXCEPT ![d] = n]
        /\ states' = [states EXCEPT ![d] = Cached(old, @)]
        /\ open' = [open EXCEPT ![d] = @ - 0]
    BY <1>8 DEF Store, ClosesNow
  <2>2. ~ IsBound(d)
    BY <1>8 DEF StoreDecision
  <2>3. stored \in Outcomes
    BY <1>0, OutcomeTypes
  <2>. HIDE DEF stored
  <2>4. TaskSound(use) /\ use.pc = "execute"
    BY <1>0, <2>3 DEF TaskSound, TaskRecords, Labels
  <2>5. TaskSound(Completing(t, stored)) /\ Completing(t, stored).pc = "complete"
    BY <1>0, <2>3, CompletingSound
  <2>. HIDE DEF use
  <2>6. Become(t, Completing(t, stored)) \/ Become(t, use)
    BY <1>8 DEF Store, stored, use
  <2>. QED  BY <1>4, <2>1, <2>2, <2>4, <2>5, <2>6 DEF Become
<1>9. StoreDecision(t) \in {"refuse", "discard", "store"}
  BY DEF StoreDecision
<1>. QED  BY <1>5, <1>6, <1>7, <1>8, <1>9

LEMMA DiscardOwns ==
    ASSUME AsyncInv, NEW t \in Tasks, Discard(t)
    PROVE  AsyncInv'
<1>. DEFINE d == task[t].device
            n == task[t].own
            r == [task[t] EXCEPT !.pc = "execute", !.own = 0]
<1>0. /\ TaskSound(task[t]) /\ d \in Devices /\ OwnTypeOK
      /\ task[t].pc = "discard" /\ n \in Serials /\ n # 0
      /\ writer \in Tasks \cup {NoTask} /\ serial \in [Devices -> Serials \cup {0}]
      /\ \A e \in Devices : Ownership(e)
      /\ open' = [open EXCEPT ![d] = @ - 1]
      /\ UNCHANGED <<config, drivers, preferred, bindings, states, desired_bindings, failures,
                     released, serial, writer>>
  BY DEF AsyncInv, TaskSound, TaskRecords, Discard, At, registryVars
<1>1. TaskSound(r) /\ r.pc = "execute"
  BY <1>0 DEF TaskSound, TaskRecords, Labels
<1>2. task' = [task EXCEPT ![t] = r]
  BY DEF Discard, Become
<1>. HIDE DEF r
<1>3. OwnTypeOK'
  BY <1>0 DEF OwnTypeOK
<1>4. ASSUME NEW e \in Devices
      PROVE  /\ IsBound(e)' <=> serial'[e] # 0
             /\ serial'[e] \notin OwnedIn(r, e)
             /\ \E more : /\ open'[e] = open[e] + more
                          /\ Moves(e, Share(task[t], serial[e], e),
                                      Share(r, serial'[e], e), more)
  <2>1. /\ OwnedIn(task[t], e) = IF e = d THEN {n} ELSE {}
        /\ OwnedIn(r, e) = {}
        /\ open[e] \in Int /\ serial'[e] = serial[e]
    BY <1>0, <1>1, SoundFacts DEF OwnTypeOK
  <2>2. IsBound(e)' <=> serial'[e] # 0
    BY <1>0 DEF Ownership, IsBound
  <2>3. CASE e = d
    <3>1. serial[d] # n
      BY <1>0, <2>1, <2>3 DEF Ownership
    <3>2. open'[e] = open[e] + (-1)
      BY <1>0, <2>1, <2>3 DEF OwnTypeOK
    <3>3. /\ Share(r, serial'[e], e) = Share(task[t], serial[e], e) \ {n}
          /\ n \in Share(task[t], serial[e], e)
      BY <2>1, <2>3, <3>1 DEF Share
    <3>. QED  BY <2>1, <2>2, <3>2, <3>3 DEF Moves
  <2>4. CASE e # d
    <3>1. open'[e] = open[e] + 0
      BY <1>0, <2>1, <2>4 DEF OwnTypeOK
    <3>2. Moves(e, Share(task[t], serial[e], e), Share(r, serial'[e], e), 0)
      BY <2>1, <2>4 DEF Moves, Share
    <3>. QED  BY <2>1, <2>2, <3>1, <3>2
  <2>. QED  BY <2>3, <2>4
<1>. QED  BY <1>0, <1>1, <1>2, <1>3, <1>4, TaskStep

LEMMA CloseDetachedOwns ==
    ASSUME AsyncInv, NEW t \in Tasks, CloseDetached(t)
    PROVE  AsyncInv'
<1>0. PICK b \in task[t].detached :
          /\ open' = [open EXCEPT ![b[1]] = @ - 1]
          /\ Become(t, Closing([task[t] EXCEPT !.detached = @ \ {b}]))
  BY DEF CloseDetached
<1>. DEFINE d == b[1]
            n == b[2]
            r == [task[t] EXCEPT !.detached = @ \ {b}]
<1>1. /\ TaskSound(task[t]) /\ task[t] \in TaskRecords /\ task[t].pc = "closing"
      /\ task[t].own = 0 /\ task[t].use = 0
      /\ \A a, c \in task[t].detached : a[1] = c[1] => a = c
      /\ OwnTypeOK /\ writer \in Tasks \cup {NoTask} /\ serial \in [Devices -> Serials \cup {0}]
      /\ \A e \in Devices : Ownership(e)
      /\ UNCHANGED <<config, drivers, preferred, bindings, states, desired_bindings, failures,
                     released, serial, writer>>
  BY DEF AsyncInv, TaskSound, CloseDetached, At, registryVars
<1>2. d \in Devices /\ n \in Serials /\ b = <<d, n>>
  BY <1>0, <1>1 DEF TaskRecords
<1>3. /\ r \in TaskRecords /\ r.own = 0 /\ r.use = 0 /\ r.pc = "closing"
      /\ r.detached = task[t].detached \ {b}
  BY <1>0, <1>1 DEF TaskRecords
<1>4. task' = [task EXCEPT ![t] = Closing(r)]
  BY <1>0 DEF Become
<1>. HIDE DEF r
<1>5. /\ TaskSound(Closing(r))
      /\ \A e : OwnedIn(Closing(r), e) = {m \in Serials : <<e, m>> \in task[t].detached \ {b}}
  BY <1>1, <1>3, ClosingSound
<1>6. OwnTypeOK'
  BY <1>0, <1>1, <1>2 DEF OwnTypeOK
<1>7. ASSUME NEW e \in Devices
      PROVE  /\ IsBound(e)' <=> serial'[e] # 0
             /\ serial'[e] \notin OwnedIn(Closing(r), e)
             /\ \E more : /\ open'[e] = open[e] + more
                          /\ Moves(e, Share(task[t], serial[e], e),
                                      Share(Closing(r), serial'[e], e), more)
  <2>1. /\ OwnedIn(task[t], e) = {m \in Serials : <<e, m>> \in task[t].detached}
        /\ open[e] \in Int /\ serial'[e] = serial[e]
    BY <1>1, SoundFacts DEF OwnTypeOK
  <2>2. IsBound(e)' <=> serial'[e] # 0
    BY <1>1 DEF Ownership, IsBound
  <2>3. serial[e] \notin OwnedIn(task[t], e)
    BY <1>1 DEF Ownership
  <2>4. CASE e = d
    <3>1. /\ OwnedIn(Closing(r), e) = OwnedIn(task[t], e) \ {n}
          /\ n \in OwnedIn(task[t], e)
      BY <1>0, <1>2, <1>5, <2>1, <2>4
    <3>2. open'[e] = open[e] + (-1)
      BY <1>0, <1>1, <2>1, <2>4 DEF OwnTypeOK
    <3>3. /\ Share(Closing(r), serial'[e], e) = Share(task[t], serial[e], e) \ {n}
          /\ n \in Share(task[t], serial[e], e)
      BY <2>1, <2>3, <3>1 DEF Share
    <3>. QED  BY <2>1, <2>2, <2>3, <3>1, <3>2, <3>3 DEF Moves
  <2>5. CASE e # d
    <3>1. OwnedIn(Closing(r), e) = OwnedIn(task[t], e)
      BY <1>2, <1>5, <2>1, <2>5
    <3>2. open'[e] = open[e] + 0
      BY <1>0, <1>1, <2>1, <2>5 DEF OwnTypeOK
    <3>3. Moves(e, Share(task[t], serial[e], e), Share(Closing(r), serial'[e], e), 0)
      BY <2>1, <3>1 DEF Moves, Share
    <3>. QED  BY <2>1, <2>2, <2>3, <3>1, <3>2, <3>3
  <2>. QED  BY <2>4, <2>5
<1>. QED  BY <1>1, <1>4, <1>5, <1>6, <1>7, TaskStep

LEMMA ShutdownLockedOwns ==
    ASSUME AsyncInv, NEW t \in Tasks, ShutdownLocked(t)
    PROVE  AsyncInv'
<1>0. /\ TaskSound(task[t]) /\ task[t].pc = "stopping" /\ OwnTypeOK
      /\ serial \in [Devices -> Serials \cup {0}]
      /\ \A d \in Devices : Ownership(d)
      /\ bindings' = [d \in Devices |-> Unbound]
      /\ states' = [d \in Devices |-> NoState]
      /\ serial' = [d \in Devices |-> 0]
      /\ open' = [d \in Devices |-> open[d] - (IF IsBound(d) THEN 1 ELSE 0)]
      /\ failures' = {} /\ desired_bindings' = {} /\ writer' = NoTask
      /\ UNCHANGED <<config, drivers, preferred, released>>
      /\ task' = [task EXCEPT ![t] = Idle]
  BY DEF AsyncInv, ShutdownLocked, Detach, Become, At, registryVars, OwnTypeOK
<1>1. OwnTypeOK'
  <2>1. open' \in [Devices -> Int]
    BY <1>0 DEF OwnTypeOK
  <2>. QED  BY <1>0, <2>1 DEF OwnTypeOK
<1>2. serial' \in [Devices -> Serials \cup {0}]
  BY <1>0
<1>3. ASSUME NEW d \in Devices
      PROVE  /\ IsBound(d)' <=> serial'[d] # 0
             /\ serial'[d] \notin OwnedIn(Idle, d)
             /\ \E more : /\ open'[d] = open[d] + more
                          /\ Moves(d, Share(task[t], serial[d], d),
                                      Share(Idle, serial'[d], d), more)
  <2>1. /\ OwnedIn(task[t], d) = {} /\ OwnedIn(Idle, d) = {}
        /\ open[d] \in Int /\ serial'[d] = 0 /\ ~ IsBound(d)'
    BY <1>0, IdleSound, SoundFacts DEF OwnTypeOK, IsBound
  <2>2. CASE IsBound(d)
    <3>1. serial[d] # 0 /\ open'[d] = open[d] + (-1)
      BY <1>0, <2>1, <2>2 DEF Ownership
    <3>2. /\ Share(Idle, serial'[d], d) = Share(task[t], serial[d], d) \ {serial[d]}
          /\ serial[d] \in Share(task[t], serial[d], d)
      BY <2>1, <3>1 DEF Share
    <3>. QED  BY <2>1, <3>1, <3>2 DEF Moves
  <2>3. CASE ~ IsBound(d)
    <3>1. serial[d] = 0 /\ open'[d] = open[d] + 0
      BY <1>0, <2>1, <2>3 DEF Ownership
    <3>2. Moves(d, Share(task[t], serial[d], d), Share(Idle, serial'[d], d), 0)
      BY <2>1, <3>1 DEF Moves, Share
    <3>. QED  BY <2>1, <3>1, <3>2
  <2>. QED  BY <2>2, <2>3
<1>. QED  BY <1>0, <1>1, <1>2, <1>3, IdleSound, TaskStep

LEMMA CommitOwns ==
    ASSUME AsyncInv, NEW t \in Tasks, Commit(t)
    PROVE  AsyncInv'
<1>. DEFINE mode == task[t].mode
            run == task[t].run
            new == NextInventory(mode, run)
            gone == Removed(inventory, new) \cup Invalidated(new)
            r == [Idle EXCEPT !.op = "refresh", !.detached = BoundOf(gone),
                              !.targets = RebindTargets(new)]
<1>0. TaskSound(task[t]) /\ task[t].pc = "committing" /\ OwnTypeOK /\ writer' = NoTask
  BY DEF AsyncInv, Commit, At
<1>1. CASE running /\ Accepted(mode, run)
  <2>1. /\ Detach(gone) /\ Become(t, Closing(r))
        /\ UNCHANGED <<config, registryVars, desired_bindings, open, released>>
    BY <1>1 DEF Commit
  <2>2. gone \in SUBSET Devices /\ RebindTargets(new) \subseteq Devices
    BY <1>0 DEF Removed, Invalidated, Changed, RebindTargets, OwnTypeOK
  <2>. HIDE DEF gone, new
  <2>3. /\ r \in TaskRecords /\ r.own = 0 /\ r.use = 0 /\ r.pc = "idle"
        /\ r.detached = BoundOf(gone)
    <3>1. BoundOf(gone) \subseteq Devices \X Serials
      BY <2>2, BoundOfType
    <3>2. Idle \in TaskRecords /\ Idle.own = 0 /\ Idle.use = 0 /\ Idle.pc = "idle"
      BY IdleSound DEF TaskSound
    <3>. QED  BY <2>2, <3>1, <3>2 DEF TaskRecords, Operations
  <2>. HIDE DEF r
  <2>. QED  BY <1>0, <2>1, <2>2, <2>3, DetachStep DEF Become, registryVars, OwnTypeOK
<1>2. CASE ~ (running /\ Accepted(mode, run))
  <2>1. Become(t, Idle) /\ UNCHANGED <<runtimeVars, serial>>
    BY <1>2 DEF Commit
  <2>2. OwnTypeOK' /\ UNCHANGED <<bindings, open>>
    BY <1>0, <2>1 DEF runtimeVars, registryVars, deviceVars, OwnTypeOK
  <2>. QED  BY <1>0, <2>1, <2>2, IdleSound, QuietStep DEF Become
<1>. QED  BY <1>1, <1>2

\* The devices that a refresh binds again get bound devices that nobody has.
LEMMA RebindOwns ==
    ASSUME AsyncInv, TypeOK, NEW t \in Tasks, Rebind(t)
    PROVE  AsyncInv'
<1>. DEFINE targets == task[t].targets
<1>0. /\ TaskSound(task[t]) /\ task[t].pc = "rebind" /\ OwnTypeOK
      /\ targets \subseteq Devices
      /\ writer \in Tasks \cup {NoTask} /\ serial \in [Devices -> Serials \cup {0}]
      /\ \A d \in Devices : Ownership(d)
      /\ UNCHANGED <<config, drivers, preferred, desired_bindings, released, writer>>
      /\ task' = [task EXCEPT ![t] = Idle]
  BY DEF AsyncInv, Rebind, TaskSound, TaskRecords, Become, At, registryVars
<1>1. PICK o : LET stored(d) == d \in targets /\ o[d].stored # Unbound IN
          /\ \A d \in targets : o[d] \in BindOutcomes(d, inventory[d], IsBound(d))
          /\ bindings' = [d \in Devices |-> IF stored(d) THEN o[d].stored ELSE bindings[d]]
          /\ serial' = [d \in Devices |-> IF stored(d) THEN NewSerial(d) ELSE serial[d]]
          /\ open' = [d \in Devices |-> open[d] + (IF stored(d) THEN 1 ELSE 0)]
          /\ states' = [d \in Devices |->
                           IF d \in targets THEN Cached(o[d], states[d]) ELSE states[d]]
          /\ failures' = (failures \ targets) \cup {d \in targets : ~ o[d].ok}
  BY DEF Rebind
<1>. DEFINE stored(d) == d \in targets /\ o[d].stored # Unbound
<1>. HIDE DEF targets
<1>2. ASSUME NEW d \in targets
      PROVE  /\ o[d].stored \in Handles \cup {Unbound} /\ o[d].state \in Handles \cup {NoState}
             /\ o[d].stored # Unbound => ~ IsBound(d)
  <2>1. inventory[d] \in Descriptors \cup {Absent}
    BY <1>0 DEF TypeOK, Snapshots
  <2>2. o[d] \in BindOutcomes(d, inventory[d], bindings[d] # Unbound)
    BY <1>1 DEF IsBound
  <2>3. OutcomeSound(inventory[d], bindings[d], o[d])
    BY <1>0, <2>1, <2>2, BindSound
  <2>. QED  BY <2>3 DEF OutcomeSound, IsBound
<1>3. \A d \in Devices : NewSerial(d) \in Serials \ Live(d)
  BY <1>0, NewSerialFacts
<1>4. OwnTypeOK'
  <2>1. bindings' \in [Devices -> Handles \cup {Unbound}]
    BY <1>0, <1>1, <1>2 DEF OwnTypeOK
  <2>2. states' \in [Devices -> Handles \cup {NoState}]
    BY <1>0, <1>1, <1>2 DEF OwnTypeOK, Cached
  <2>3. open' \in [Devices -> Int]
    BY <1>0, <1>1 DEF OwnTypeOK
  <2>4. failures' \subseteq Devices
    BY <1>0, <1>1 DEF OwnTypeOK
  <2>. QED  BY <1>0, <2>1, <2>2, <2>3, <2>4 DEF OwnTypeOK
<1>5. serial' \in [Devices -> Serials \cup {0}]
  BY <1>0, <1>1, <1>3
<1>6. ASSUME NEW d \in Devices
      PROVE  /\ IsBound(d)' <=> serial'[d] # 0
             /\ serial'[d] \notin OwnedIn(Idle, d)
             /\ \E more : /\ open'[d] = open[d] + more
                          /\ Moves(d, Share(task[t], serial[d], d),
                                      Share(Idle, serial'[d], d), more)
  <2>1. /\ OwnedIn(task[t], d) = {} /\ OwnedIn(Idle, d) = {}
        /\ open[d] \in Int /\ (IsBound(d) <=> serial[d] # 0)
    BY <1>0, IdleSound, SoundFacts DEF OwnTypeOK, Ownership
  <2>2. CASE stored(d)
    <3>1. /\ serial'[d] = NewSerial(d) /\ bindings'[d] = o[d].stored
          /\ open'[d] = open[d] + 1
      BY <1>1, <2>2
    <3>2. NewSerial(d) # 0 /\ serial[d] = 0 /\ IsBound(d)'
      BY <1>2, <1>3, <2>1, <2>2, <3>1, SerialFacts DEF IsBound
    <3>3. Share(Idle, serial'[d], d) = Share(task[t], serial[d], d) \cup {NewSerial(d)}
      BY <2>1, <3>1, <3>2 DEF Share
    <3>. QED  BY <1>3, <2>1, <3>1, <3>2, <3>3 DEF Moves
  <2>3. CASE ~ stored(d)
    <3>1. serial'[d] = serial[d] /\ bindings'[d] = bindings[d] /\ open'[d] = open[d] + 0
      BY <1>1, <2>1, <2>3
    <3>2. Moves(d, Share(task[t], serial[d], d), Share(Idle, serial'[d], d), 0)
      BY <2>1, <3>1 DEF Moves, Share
    <3>. QED  BY <2>1, <3>1, <3>2 DEF IsBound
  <2>. QED  BY <2>2, <2>3
<1>. QED  BY <1>0, <1>4, <1>5, <1>6, IdleSound, TaskStep

LEMMA AsyncStep == AsyncInv /\ LockInv /\ TypeOK /\ [AsyncNext]_asyncVars => AsyncInv'
<1>. SUFFICES ASSUME AsyncInv, LockInv, TypeOK, [AsyncNext]_asyncVars PROVE AsyncInv'
  OBVIOUS
<1>1. ASSUME UNCHANGED <<drivers, preferred, bindings, states, desired_bindings, failures,
                         open, released, task, serial, writer>>, config' \in Configs
      PROVE  AsyncInv'
  <2>1. \A t \in Tasks : TaskSound(task[t])' <=> TaskSound(task[t])
    BY <1>1 DEF TaskSound, TaskRecords, Outcomes
  <2>2. TaskRecords' = TaskRecords
    BY DEF TaskRecords, Outcomes
  <2>3. \A d \in Devices : Ownership(d)' <=> Ownership(d)
    <3>1. \A d : Live(d)' = Live(d)
      BY <1>1 DEF Live, OwnedIn
    <3>. QED  BY <1>1, <3>1 DEF Ownership, OwnedIn, IsBound
  <2>4. OwnTypeOK'
    BY <1>1 DEF AsyncInv, OwnTypeOK
  <2>. QED  BY <1>1, <2>1, <2>2, <2>3, <2>4 DEF AsyncInv
<1>2. config \in Configs
  BY DEF AsyncInv, OwnTypeOK
<1>3. ASSUME NEW t \in Tasks, Proceed(t) PROVE AsyncInv'
  BY <1>3, QuietProceed, DriverBindOwns, StoreOwns, DiscardOwns, CloseDetachedOwns,
     ShutdownLockedOwns, CommitOwns, RebindOwns DEF Proceed
<1>4. CASE AsyncStart \/ (\E c \in Configs : AsyncSetConfig(c)) \/ UNCHANGED asyncVars
  BY <1>1, <1>2, <1>4 DEF AsyncStart, RuntimeStart, AsyncSetConfig, SetConfig, asyncVars,
     asyncOnly, runtimeVars, registryVars, deviceVars
<1>. QED  BY <1>3, <1>4, BeginOwns DEF AsyncNext

LEMMA AsyncInitInv == AsyncInit => AsyncInv
<1>. SUFFICES ASSUME AsyncInit PROVE AsyncInv
  OBVIOUS
<1>1. /\ config \in Configs /\ drivers = Drivers
      /\ preferred = [d \in Devices |-> NoDriver]
      /\ bindings = [d \in Devices |-> Unbound]
      /\ states = [d \in Devices |-> NoState]
      /\ desired_bindings = {} /\ failures = {} /\ released = Devices
      /\ open = [d \in Devices |-> 0]
      /\ task = [t \in Tasks |-> Idle]
      /\ serial = [d \in Devices |-> 0] /\ writer = NoTask
  BY DEF AsyncInit
<1>2. OwnTypeOK
  BY <1>1 DEF OwnTypeOK
<1>3. \A t \in Tasks : task[t] = Idle
  BY <1>1
<1>4. \A d : OwnedIn(Idle, d) = {}
  BY IdleSound, SoundFacts
<1>5. ASSUME NEW d \in Devices PROVE Ownership(d)
  <2>1. Live(d) = {}
    BY <1>1, <1>3, <1>4, SerialFacts DEF Live
  <2>. QED  BY <1>1, <1>3, <1>4, <2>1, FS_EmptySet DEF Ownership, IsBound
<1>. QED  BY <1>1, <1>2, <1>3, <1>5, IdleSound DEF AsyncInv, TaskSound

\* The inductive invariant, with those of the bind locks and of the inventory.
THEOREM AsyncInductive == AsyncSpec => []AsyncInv
<1>1. AsyncSpec => []TypeOK
  BY AsyncImplementsInventory, InventoryTypeCorrect, PTL DEF RefreshesAreAtomic
<1>. QED  BY <1>1, AsyncInitInv, AsyncStep, LockInductive, PTL DEF AsyncSpec

\* The state of the runtime, of its locks and of every task has its type.
THEOREM AsyncTypeCorrect == AsyncSpec => []AsyncTypeOK
<1>1. TypeOK /\ LockInv /\ AsyncInv => AsyncTypeOK
  <2>. SUFFICES ASSUME TypeOK, LockInv, AsyncInv PROVE AsyncTypeOK
    OBVIOUS
  <2>1. RuntimeTypeOK
    BY DEF AsyncInv, OwnTypeOK, RuntimeTypeOK
  <2>2. bind_locks \in [Devices -> Locks \cup {NoLock}]
    BY DEF LockInv
  <2>3. ASSUME NEW t \in Tasks
        PROVE  /\ task[t].device \in Devices
               /\ task[t].lock \in Locks \cup {NoLock}
               /\ task[t].config \in Configs
               /\ task[t].plan \in Handles \cup {Unbound}
               /\ {task[t].own, task[t].use} \subseteq Serials \cup {0}
               /\ task[t].outcome.stored \in Handles \cup {Unbound}
               /\ task[t].outcome.state \in Handles \cup {NoState}
               /\ task[t].detached \subseteq Devices \X Serials
               /\ task[t].targets \subseteq Devices
               /\ task[t].mode \in RefreshModes
               /\ task[t].run \in RefreshRuns
    BY DEF AsyncInv, TaskRecords, Outcomes
  <2>4. serial \in [Devices -> Serials \cup {0}] /\ writer \in Tasks \cup {NoTask}
    BY DEF AsyncInv
  <2>. QED  BY <2>1, <2>2, <2>3, <2>4 DEF AsyncTypeOK
<1>2. AsyncSpec => []TypeOK
  BY AsyncImplementsInventory, InventoryTypeCorrect, PTL DEF RefreshesAreAtomic
<1>. QED  BY <1>1, <1>2, LockInductive, AsyncInductive, PTL

\* However binds, requests, unbinds, refreshes and shutdowns interleave, every
\* open bound device has one owner, in the map or in one task.
THEOREM DevicesAreOwnedOnce == AsyncSpec => []OwnedOnce
<1>1. ASSUME AsyncInv, NEW d \in Devices
      PROVE  /\ open[d] = Cardinality(UNION {OwnedBy(t, d) : t \in Tasks})
                             + (IF IsBound(d) THEN 1 ELSE 0)
             /\ IsBound(d) <=> serial[d] # 0
             /\ \A t \in Tasks : serial[d] \notin OwnedBy(t, d)
             /\ \A t, u \in Tasks : t # u => OwnedBy(t, d) \cap OwnedBy(u, d) = {}
  <2>. DEFINE owned == UNION {OwnedBy(t, d) : t \in Tasks}
  <2>1. Ownership(d) /\ serial[d] \in Serials \cup {0}
    BY <1>1 DEF AsyncInv
  <2>2. \A t : OwnedBy(t, d) = OwnedIn(task[t], d)
    BY DEF OwnedBy, OwnedIn
  <2>3. /\ \A n : n \in owned <=> \E t \in Tasks : n \in OwnedIn(task[t], d)
        /\ owned \subseteq Serials
    BY <2>2 DEF OwnedIn
  <2>. HIDE DEF owned
  <2>4. serial[d] \notin owned
    BY <2>1, <2>3 DEF Ownership
  <2>5. IsFiniteSet(owned) /\ Cardinality(owned) \in Nat
    BY <2>3, SerialFacts, FS_Subset, FS_CardinalityType
  <2>6. open[d] = Cardinality(owned) + (IF IsBound(d) THEN 1 ELSE 0)
    <3>1. CASE IsBound(d)
      <4>1. Live(d) = owned \cup {serial[d]}
        BY <2>1, <2>3, <3>1 DEF Live, Ownership
      <4>. QED  BY <2>1, <2>4, <2>5, <3>1, <4>1, FS_AddElement DEF Ownership
    <3>2. CASE ~ IsBound(d)
      <4>1. Live(d) = owned
        BY <2>1, <2>3, <3>2, SerialFacts DEF Live, Ownership
      <4>. QED  BY <2>1, <2>5, <3>2, <4>1 DEF Ownership
    <3>. QED  BY <3>1, <3>2
  <2>. QED  BY <2>1, <2>2, <2>6 DEF Ownership, owned
<1>2. AsyncInv => OwnedOnce
  BY <1>1 DEF OwnedOnce
<1>. QED  BY <1>2, AsyncInductive, PTL

=============================================================================
