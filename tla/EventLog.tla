------------------------------ MODULE EventLog ------------------------------
(***************************************************************************)
(* The retained event log of lemnos-runtime, the notifier that wakes        *)
(* blocked subscribers, and the subscriptions of the asynchronous adapter.  *)
(*                                                                         *)
(* Runtime methods that change the log hold `&mut Runtime` (the write lock  *)
(* of the async adapter), so each is one action.  A subscriber's            *)
(* wait_and_poll_next is several actions: it takes the subscription mutex   *)
(* three times and holds it while it sleeps on the condition variable.      *)
(*                                                                         *)
(* An event's payload is left out.  What is kept of it is its size in       *)
(* bytes, its ordinal among all events ever recorded, and the offset of its *)
(* first byte in the stream of all bytes ever recorded: the sum of the      *)
(* sizes of neighbouring events is then a difference of two offsets.        *)
(***************************************************************************)
EXTENDS Integers, Sequences

CONSTANTS
    Tasks,          \* blocking-pool tasks that use subscriptions
    Subscriptions,  \* RuntimeEventSubscription values
    AsyncSubscriptions,     \* those behind an AsyncRuntimeEventSubscription
    SubOf,          \* the subscription that a task (a clone of a handle) shares
    Sizes,          \* estimated byte sizes of events
    Limits,         \* retention settings that set_config may install
    Unlimited,      \* max_retained_event_bytes: None
    NoTask,
    MaxTail,        \* bound: events ever recorded
    MaxVersion      \* bound: notifier version

ASSUME SubscriptionAssumption ==
    /\ SubOf \in [Tasks -> Subscriptions]
    /\ AsyncSubscriptions \subseteq Subscriptions
    /\ NoTask \notin Tasks

ASSUME LimitAssumption ==
    /\ Unlimited \notin Nat
    /\ Limits \subseteq [events : Nat, bytes : Nat \cup {Unlimited}]
    /\ Limits # {}

ASSUME BoundAssumption ==
    /\ Sizes \subseteq Nat \ {0}
    /\ MaxTail \in Nat
    /\ MaxVersion \in Nat

VARIABLES
    config,     \* max_retained_events and max_retained_event_bytes
    events,     \* the retained events, oldest first
    base,       \* event_base_index: log index of the oldest retained event
    retained,   \* retained_event_bytes
    ntail,      \* RuntimeEventNotifierState.tail_index
    version,    \* RuntimeEventNotifierState.version
    pushed,     \* history: number of events ever recorded
    stream,     \* history: number of bytes ever recorded
    open,       \* the subscriptions that exist
    cursor,     \* RuntimeEventCursor.next_index of each subscription
    observed,   \* RuntimeEventSubscription.observed_version
    holder,     \* which task holds the subscription mutex across a wait
    pc,         \* what each task is doing
    expect,     \* history: ordinal of the next event the subscriber is owed
    gap,        \* history: was was_truncated ever not what a poll skipped?
    loss        \* history: has a poll ever not delivered what is retained?

logVars == <<config, events, base, retained, pushed, stream>>
notifierVars == <<ntail, version>>
subVars == <<open, cursor, observed, expect, gap, loss>>
vars == <<logVars, notifierVars, subVars, holder, pc>>

Event == [id : Nat, start : Nat, bytes : Sizes]

\* Program counters of a task: "lock" is about to wait, "wait" sleeps on the
\* condition variable holding the subscription mutex, "poll" is about to poll.
\* A task that called wait_for_update ("lockonly", "waitonly") does not poll.
PCs == {"idle", "lock", "lockonly", "wait", "waitonly", "poll"}

-----------------------------------------------------------------------------
(* Helpers                                                                  *)

SaturatingSub(a, b) == IF a > b THEN a - b ELSE 0

Larger(a, b) == IF a > b THEN a ELSE b
Smaller(a, b) == IF a > b THEN b ELSE a

\* event_tail_index
TailIndex == base + Len(events)

\* Bytes of the events at positions i+1 .. j of log.
Span(log, i, j) ==
    IF i < j THEN (log[j].start + log[j].bytes) - log[i + 1].start ELSE 0

\* The events that a diff of one or two changes records after n events and
\* s bytes.  A state snapshot is a batch of one.
One(n, s, b) == <<[id |-> n, start |-> s, bytes |-> b]>>

Batches(n, s) ==
    {One(n, s, b) : b \in Sizes} \cup
    {One(n, s, b) \o One(n + 1, s + b, c) : b \in Sizes, c \in Sizes}

-----------------------------------------------------------------------------
(* Retention                                                                *)

\* enforce_event_retention drops d of the events in log, which are accounted
\* for as `total` bytes.  The byte loop starts after the events that the count
\* limit drops and runs until the remaining bytes fit or no event is left; it
\* starts from the whole total, the bytes of the count-dropped events included.
DropCount(log, total, limits, d) ==
    LET first == SaturatingSub(Len(log), limits.events)
        fits(k) == SaturatingSub(total, Span(log, first, k)) <= limits.bytes
    IN  IF limits.bytes = Unlimited
        THEN d = first
        ELSE /\ d >= first
             /\ d = Len(log) \/ fits(d)
             /\ \A k \in first .. (d - 1) : ~ fits(k)

\* Faulty variant: the base index moves the wrong way.
DrainBackwards(log, total, d) ==
    /\ events' = SubSeq(log, d + 1, Len(log))
    /\ base' = base - d
    /\ retained' = SaturatingSub(total, Span(log, 0, d))

\* The log after d events are drained, its base index and its byte count.
Drain(log, total, d) ==
    /\ events' = SubSeq(log, d + 1, Len(log))
    /\ base' = base + d
    /\ retained' = SaturatingSub(total, Span(log, 0, d))

-----------------------------------------------------------------------------
(* Operations on the log, each under the runtime's write lock               *)

Init ==
    /\ config \in Limits
    /\ events = << >>
    /\ base = 0 /\ retained = 0
    /\ ntail = 0 /\ version = 0
    /\ pushed = 0 /\ stream = 0
    /\ open = {}
    /\ cursor = [s \in Subscriptions |-> 0]
    /\ observed = [s \in Subscriptions |-> 0]
    /\ expect = [s \in Subscriptions |-> 0]
    /\ gap = [s \in Subscriptions |-> FALSE]
    /\ loss = [s \in Subscriptions |-> FALSE]
    /\ holder = [s \in Subscriptions |-> NoTask]
    /\ pc = [t \in Tasks |-> "idle"]

\* Faulty variant: new events are not announced to the notifier.
SilentVersion(dropped, tail) == version + (IF dropped > 0 THEN 1 ELSE 0)

\* The notifier's version after `dropped` events were drained (notify_changed)
\* and the tail moved to `tail` (advance_to, ignored unless the tail grows).
NotifiedVersion(dropped, tail) ==
    version + (IF dropped > 0 THEN 1 ELSE 0) + (IF tail > ntail THEN 1 ELSE 0)

\* push_retained_event for a batch, enforce_event_retention, and then
\* notify_event_subscribers: notify_changed when something was dropped, and
\* advance_to the new tail, ignored when the tail did not grow.
Record(new) ==
    LET log == events \o new
        last == new[Len(new)]
        size == (last.start + last.bytes) - stream
        tail == TailIndex + Len(new)
    IN  /\ tail <= MaxTail
        /\ version + 2 <= MaxVersion
        /\ \E d \in 0 .. Len(log) :
              /\ DropCount(log, retained + size, config, d)
              /\ Drain(log, retained + size, d)
              /\ version' = NotifiedVersion(d, tail)
        /\ ntail' = Larger(ntail, tail)
        /\ pushed' = pushed + Len(new)
        /\ stream' = stream + size
        /\ UNCHANGED <<config, subVars, holder, pc>>

\* A bind, a request or a state refresh caches a snapshot.
CacheState == \E b \in Sizes : Record(One(pushed, stream, b))

\* A refresh commits a non-empty inventory diff.
RecordInventoryEvents == \E new \in Batches(pushed, stream) : Record(new)

\* Faulty variant: the byte counter is not reset.
TakeEventsKeepingBytes ==
    /\ version < MaxVersion
    /\ events # << >>
    /\ events' = << >>
    /\ base' = TailIndex
    /\ version' = version + 1
    /\ UNCHANGED <<config, retained, ntail, pushed, stream, subVars, holder, pc>>

\* take_events empties the log; it notifies only if it took something.
TakeEvents ==
    /\ version < MaxVersion
    /\ events # << >>
    /\ events' = << >>
    /\ base' = TailIndex
    /\ retained' = 0
    /\ version' = version + 1
    /\ UNCHANGED <<config, ntail, pushed, stream, subVars, holder, pc>>

\* Faulty variant: the new limits wait for the next event.
SetConfigLazily ==
    /\ version < MaxVersion
    /\ config' \in Limits
    /\ UNCHANGED <<events, base, retained, version, ntail, pushed, stream,
                   subVars, holder, pc>>

\* set_config installs new limits and enforces them at once.
SetConfig ==
    /\ version < MaxVersion
    /\ config' \in Limits
    /\ \E d \in 0 .. Len(events) :
          /\ DropCount(events, retained, config', d)
          /\ Drain(events, retained, d)
          /\ version' = NotifiedVersion(d, ntail)
    /\ UNCHANGED <<ntail, pushed, stream, subVars, holder, pc>>

\* shutdown_detached keeps the log and wakes every waiter.
Shutdown ==
    /\ version < MaxVersion
    /\ version' = version + 1
    /\ UNCHANGED <<logVars, ntail, subVars, holder, pc>>

-----------------------------------------------------------------------------
(* Subscriptions                                                            *)

\* Faulty variant: retained events do not count as an update.
CurrentVersion(i) == version

\* RuntimeEventSubscription::new for a cursor at index i.
InitialVersion(i) ==
    IF i < ntail THEN SaturatingSub(version, 1) ELSE version

\* subscribe starts at the tail, subscribe_from_start at the base.
Subscribe(s, i, first) ==
    /\ s \notin open
    /\ open' = open \cup {s}
    /\ cursor' = [cursor EXCEPT ![s] = i]
    /\ observed' = [observed EXCEPT ![s] = InitialVersion(i)]
    /\ expect' = [expect EXCEPT ![s] = first]
    /\ UNCHANGED <<logVars, notifierVars, gap, loss, holder, pc>>

SubscribeAtTail(s) == Subscribe(s, TailIndex, pushed)

SubscribeFromStart(s) == Subscribe(s, base, pushed - Len(events))

\* pending_event_count > 0 for the subscription's cursor.
HasPending(s) == TailIndex > Larger(cursor[s], base)

\* A task can use the subscription only while no clone waits on it.
Ready(t) == SubOf[t] \in open /\ holder[SubOf[t]] = NoTask

\* Faulty variant: an event goes missing when the cursor is behind the base.
PolledPastBase(s) ==
    LET from == IF cursor[s] < base THEN base + 1 ELSE cursor[s]
        start == IF from < TailIndex THEN from ELSE TailIndex
    IN  SubSeq(events, (start - base) + 1, Len(events))

\* Faulty variant: one overwritten event goes unnoticed.
IsStaleByTwo(s) == cursor[s] + 1 < base

\* is_cursor_stale
IsStale(s) == cursor[s] < base

\* poll_events_with_status: the events from the cursor, clamped into the
\* retained range, to the tail.
Polled(s) ==
    LET from == Larger(cursor[s], base)
        start == IF from < TailIndex THEN from ELSE TailIndex
    IN  SubSeq(events, (start - base) + 1, Len(events))

\* The poll hands over exactly the events the subscriber is still owed.
Complete(s, got) ==
    /\ Len(got) = pushed - expect[s]
    /\ \A i \in 1 .. Len(got) : got[i].id = expect[s] + i - 1

\* The poll hands over those of them that are retained: the last ones.
Delivered(s, got) ==
    /\ Len(got) = Smaller(pushed - expect[s], Len(events))
    /\ \A i \in 1 .. Len(got) : got[i].id = (pushed - Len(got)) + i - 1

\* poll_events_with_status, and the version seen.
Advance(t) ==
    LET s == SubOf[t] IN
    /\ pc[t] \in {"idle", "poll"}
    /\ Ready(t)
    /\ cursor' = [cursor EXCEPT ![s] = TailIndex]
    /\ observed' = [observed EXCEPT ![s] = version]
    /\ expect' = [expect EXCEPT ![s] = pushed]
    /\ loss' = [loss EXCEPT ![s] = loss[s] \/ ~ Delivered(s, Polled(s))]
    /\ pc' = [pc EXCEPT ![t] = "idle"]
    /\ UNCHANGED <<logVars, notifierVars, open, holder>>

\* poll returns the events alone.  The async adapter has no other.
Poll(t) ==
    /\ Advance(t)
    /\ UNCHANGED gap

\* poll_with_status returns was_truncated with them.
PollWithStatus(t) ==
    LET s == SubOf[t]
        was_truncated == IsStale(s)
    IN  /\ s \notin AsyncSubscriptions
        /\ Advance(t)
        /\ gap' = [gap EXCEPT ![s] =
                      gap[s] \/ (was_truncated <=> Complete(s, Polled(s)))]

\* wait_and_poll_next: with something pending it goes on to poll, after it has
\* let go of the mutex; otherwise it goes on to wait.
WaitAndPollNext(t) ==
    /\ pc[t] = "idle"
    /\ Ready(t)
    /\ pc' = [pc EXCEPT ![t] = IF HasPending(SubOf[t]) THEN "poll" ELSE "lock"]
    /\ UNCHANGED <<logVars, notifierVars, subVars, holder>>

WaitForUpdate(t) ==
    /\ pc[t] = "idle"
    /\ SubOf[t] \in open
    /\ pc' = [pc EXCEPT ![t] = "lockonly"]
    /\ UNCHANGED <<logVars, notifierVars, subVars, holder>>

\* wait_for_change_after takes the subscription mutex; it returns at once when
\* the version has moved on, and otherwise sleeps with the mutex held.
EnterWait(t) ==
    LET s == SubOf[t] IN
    /\ pc[t] \in {"lock", "lockonly"}
    /\ Ready(t)
    /\ IF version > observed[s]
       THEN /\ pc' = [pc EXCEPT ![t] = IF pc[t] = "lock" THEN "poll" ELSE "idle"]
            /\ UNCHANGED holder
       ELSE /\ pc' = [pc EXCEPT ![t] = IF pc[t] = "lock" THEN "wait" ELSE "waitonly"]
            /\ holder' = [holder EXCEPT ![s] = t]
    /\ UNCHANGED <<logVars, notifierVars, subVars>>

\* The condition variable is signalled (or wakes spuriously) and the version
\* has moved on: the wait returns true.
Wake(t) ==
    LET s == SubOf[t] IN
    /\ pc[t] \in {"wait", "waitonly"}
    /\ version > observed[s]
    /\ pc' = [pc EXCEPT ![t] = IF pc[t] = "wait" THEN "poll" ELSE "idle"]
    /\ holder' = [holder EXCEPT ![s] = NoTask]
    /\ UNCHANGED <<logVars, notifierVars, subVars>>

\* The deadline passes first: the wait returns false and nothing is polled.
TimeOut(t) ==
    LET s == SubOf[t] IN
    /\ pc[t] \in {"wait", "waitonly"}
    /\ version <= observed[s]
    /\ pc' = [pc EXCEPT ![t] = "idle"]
    /\ holder' = [holder EXCEPT ![s] = NoTask]
    /\ UNCHANGED <<logVars, notifierVars, subVars>>

Next ==
    \/ CacheState
    \/ RecordInventoryEvents
    \/ TakeEvents
    \/ SetConfig
    \/ Shutdown
    \/ \E s \in Subscriptions : SubscribeAtTail(s) \/ SubscribeFromStart(s)
    \/ \E t \in Tasks :
          \/ Poll(t)
          \/ PollWithStatus(t)
          \/ WaitAndPollNext(t)
          \/ WaitForUpdate(t)
          \/ EnterWait(t)
          \/ Wake(t)
          \/ TimeOut(t)

\* A woken task runs: the operating system schedules blocking-pool threads, and
\* a task that has been told to poll does so once the mutex is free.
Fairness ==
    \A t \in Tasks :
        /\ WF_vars(Wake(t))
        /\ WF_vars(pc[t] = "poll" /\ (Poll(t) \/ PollWithStatus(t)))

Spec == Init /\ [][Next]_vars

FairSpec == Spec /\ Fairness

-----------------------------------------------------------------------------
(* Properties                                                               *)

\* The state of the log, the notifier and the subscriptions has its type.
TypeOK ==
    /\ config \in Limits
    /\ events \in Seq(Event)
    /\ {base, retained, ntail, version, pushed, stream} \subseteq Nat
    /\ open \subseteq Subscriptions
    /\ cursor \in [Subscriptions -> Nat]
    /\ observed \in [Subscriptions -> Nat]
    /\ expect \in [Subscriptions -> Nat]
    /\ gap \in [Subscriptions -> BOOLEAN]
    /\ loss \in [Subscriptions -> BOOLEAN]
    /\ holder \in [Subscriptions -> Tasks \cup {NoTask}]
    /\ pc \in [Tasks -> PCs]

\* The byte counter is the size of the retained events, through every drop,
\* take and reconfiguration (push_retained_event, enforce_event_retention and
\* take_events maintain retained_event_bytes incrementally).
BytesExact == retained = Span(events, 0, Len(events))

\* Both retention limits hold between operations, whatever order of pushes,
\* batches and set_config calls led here.
RetentionLimits ==
    /\ Len(events) <= config.events
    /\ config.bytes # Unlimited => retained <= config.bytes

\* A poll with its status says that it skips events if it does, and only then:
\* was_truncated is set whenever the events handed over are not exactly those
\* recorded since the subscriber's last poll (poll_with_status).  Of a poll
\* without status, and so of the async adapter, this is not said.
NoSilentGap == \A s \in Subscriptions : ~ gap[s]

\* Any poll, one of the async adapter too, hands over every event since the
\* subscriber's last poll that is still retained, once and in order: what it
\* skips has been dropped or taken from the log (poll_events_with_status).
RetainedIsDelivered == \A s \in Subscriptions : ~ loss[s]

\* No lost wakeup: a task asleep on the condition variable while its
\* subscription has events to deliver has a version to wake up for.
NoSleepOnPending ==
    \A t \in Tasks :
        pc[t] \in {"wait", "waitonly"} /\ HasPending(SubOf[t])
            => version > observed[SubOf[t]]

\* A sleeping task whose subscription has pending events is woken, and if it
\* is in wait_and_poll_next the shared cursor then reaches them: the events
\* that were pending are delivered or have been overwritten.
PendingIsDelivered ==
    \A t \in Tasks :
        (pc[t] = "wait" /\ HasPending(SubOf[t])) ~> (cursor[SubOf[t]] = TailIndex)
=============================================================================
