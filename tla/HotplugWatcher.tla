--------------------------- MODULE HotplugWatcher ---------------------------
(***************************************************************************)
(* LinuxHotplugWatcher (lemnos-linux/src/watch.rs) between the kernel's     *)
(* inotify queue and the runtime that refreshes what a poll reports.        *)
(*                                                                         *)
(* Entries, roots and files change at any time.  The kernel queues events   *)
(* for the directories that are watched; the watcher keeps the set of pwm   *)
(* chip watches in step with the chips; what a poll touched is discovered   *)
(* again, directory by directory, and committed.  Every system call but the  *)
(* reading of the events may be refused.                                     *)
(***************************************************************************)
EXTENDS LinuxDiscovery

CONSTANTS
    Worlds,         \* bound: the sets of entries there may be together
    QueueLimit,     \* inotify's max_queued_events
    MaxChanges      \* bound: how often the hardware changes or the kernel refuses

\* A directory has one entry of a name.
ASSUME HotplugAssumption ==
    /\ Worlds \subseteq SUBSET Entries
    /\ \A w \in Worlds : \A d, e \in w : PathOf(d) = PathOf(e) => d = e
    /\ QueueLimit \in Nat \ {0}
    /\ MaxChanges \in Nat

VARIABLES
    world,          \* bound: the entries that there may be
    files,          \* the state of every entry, or "absent"
    roots,          \* the roots that exist
    kernel,         \* the watch on a directory, 0 without one
    queue,          \* inotify's queue
    changes,        \* bound: changes of the hardware and refusals of the kernel
    last_wd,        \* the last watch descriptor handed out
    watched_paths,  \* LinuxHotplugWatcher.watched_paths
    registrations,  \* LinuxHotplugWatcher.registrations, as wd |-> path
    pc,             \* what the poller is about to do
    chips,          \* sync_pwm_chip_watches: chips still to be watched
    touched,        \* the interfaces a poll reports
    unread,         \* the refresh: entries still to be read
    read,           \* the refresh: what was read of an entry
    failed,         \* the refresh: the probes that failed
    inventory,      \* the descriptors last committed for each probe
    missed,         \* history: probes that were to be refreshed, by events that
                    \* were taken, and were not
    unwatched,      \* history: roots created after the watcher
    hidden          \* history: entries that changed unseen since they were read,
                    \* or were skipped, and pwm chips that an overflow hid from
                    \* the watcher

hardwareVars == <<world, files, roots>>
kernelVars == <<kernel, queue, last_wd>>
watcherVars == <<watched_paths, registrations, chips, touched>>
refreshVars == <<unread, read, failed, inventory>>
histories == <<missed, unwatched, hidden>>
hotplugVars == <<hardwareVars, changes, kernelVars, watcherVars, pc, refreshVars, histories>>

Paths == {e.root : e \in world} \cup {PathOf(e) : e \in world}
Present == {e \in world : files[e] # "absent"}
PwmChips == {e \in world : e.probe = "pwm"}

\* interfaces of a WatchRegistration
InterfaceOfPath(path) ==
    InterfaceOf[CHOOSE p \in Probes : SubSeq(path, 1, 1) \in RootsOf[p]]

\* A probe that what the poll reports has run.
Refreshing(p) == InterfaceOf[p] \in touched

-----------------------------------------------------------------------------
(* The kernel's queue                                                       *)

Overflow == [wd |-> 0, ignored |-> FALSE]

\* An event like the last one is merged with it; beyond the limit there is a
\* single overflow event and the rest is dropped.
Queued(q, wd, ignored) ==
    LET event == [wd |-> wd, ignored |-> ignored] IN
    IF wd = 0 \/ (q # <<>> /\ Last(q) = event) THEN q
    ELSE IF Len(q) < QueueLimit THEN Append(q, event)
    ELSE IF \E k \in DOMAIN q : q[k] = Overflow THEN q
    ELSE Append(q, Overflow)

\* One change or refusal more.
Counted == changes < MaxChanges /\ changes' = changes + 1

HardwareStep ==
    /\ Counted
    /\ UNCHANGED <<world, last_wd, watcherVars, pc, refreshVars, missed>>

\* A usb device has the interfaces of one configuration at a time.
Create(e) ==
    /\ files[e] = "absent"
    /\ e.root \in roots
    /\ e.on = "" \/ \E d \in Present : d.probe = e.probe /\ d.name = e.on
    /\ \A d \in Present : ~ SameInterface(d, e)
    /\ files' = [files EXCEPT ![e] = "bare"]
    /\ queue' = Queued(queue, kernel[e.root], FALSE)
    /\ HardwareStep
    /\ UNCHANGED <<roots, kernel, unwatched, hidden>>

\* The files of an entry change: only a pwm chip has a watch of its own to see it.
Changed(e, state) ==
    /\ files' = [files EXCEPT ![e] = state]
    /\ queue' = Queued(queue, kernel[PathOf(e)], FALSE)
    /\ hidden' = IF e \in PwmChips THEN hidden ELSE hidden \cup {e}
    /\ UNCHANGED <<world, last_wd, watcherVars, pc, refreshVars, missed, roots, kernel, unwatched>>

\* The files of an entry follow the entry.
Populate(e) ==
    /\ files[e] = "bare"
    /\ Changed(e, "ready")
    /\ UNCHANGED changes

\* The files of an entry say something else.
Alter(e) ==
    /\ files[e] \in {"ready", "altered"}
    /\ Changed(e, IF files[e] = "ready" THEN "altered" ELSE "ready")
    /\ Counted

Unplug(e) ==
    /\ files[e] # "absent"
    /\ \A d \in Present : d.probe = e.probe => d.on # e.name
    /\ files' = [files EXCEPT ![e] = "absent"]
    /\ queue' = Queued(Queued(queue, kernel[e.root], FALSE), kernel[PathOf(e)], TRUE)
    /\ kernel' = [kernel EXCEPT ![PathOf(e)] = 0]
    /\ hidden' = hidden \ {e}
    /\ HardwareStep
    /\ UNCHANGED <<roots, unwatched>>

RemoveRoot(r) ==
    /\ r \in roots
    /\ \A e \in Present : e.root # r
    /\ roots' = roots \ {r}
    /\ queue' = Queued(queue, kernel[r], TRUE)
    /\ kernel' = [kernel EXCEPT ![r] = 0]
    /\ HardwareStep
    /\ UNCHANGED <<files, unwatched, hidden>>

CreateRoot(r) ==
    /\ r \notin roots
    /\ roots' = roots \cup {r}
    /\ unwatched' = unwatched \cup {r}
    /\ HardwareStep
    /\ UNCHANGED <<files, kernel, queue, hidden>>

Hardware ==
    \/ \E e \in world : Create(e) \/ Populate(e) \/ Alter(e) \/ Unplug(e)
    \/ \E r \in {e.root : e \in world} : CreateRoot(r) \/ RemoveRoot(r)

-----------------------------------------------------------------------------
(* Keeping the watches                                                      *)

\* Faulty variant: the registration stays.
UnwatchedPathsOnly(maps, paths) ==
    [maps EXCEPT !.watched = [path \in DOMAIN maps.watched \ paths |-> maps.watched[path]]]

\* remove_watch drops the registrations first.  That a directory which was not
\* listed has no watch is no error of the kernel.
Unwatched(maps, paths) ==
    [watched |-> [path \in DOMAIN maps.watched \ paths |-> maps.watched[path]],
     registered |-> [wd \in {w \in DOMAIN maps.registered : maps.registered[w] \notin paths} |->
                        maps.registered[wd]]]

Maps == [watched |-> watched_paths, registered |-> registrations]

SetMaps(maps) ==
    /\ watched_paths' = maps.watched
    /\ registrations' = maps.registered

\* The poll returns an error: the events that it has read are lost.
PollFails ==
    /\ pc' = "idle"
    /\ chips' = {}
    /\ touched' = {}
    /\ missed' = missed \cup {p \in Probes : Refreshing(p)}
    /\ UNCHANGED <<hardwareVars, kernelVars, refreshVars, unwatched, hidden>>

Stale == {PathOf(e) : e \in PwmChips \ Present}

\* Faulty variant: chips are watched when the watcher is built, and never later.
ListNoChips ==
    /\ pc \in {"idle", "relist"}
    /\ chips' = {}
    /\ SetMaps(Unwatched(Maps, Stale))
    /\ pc' = IF pc = "idle" THEN "sync" ELSE "resync"
    /\ UNCHANGED <<hardwareVars, changes, kernelVars, touched, refreshVars, histories>>

\* sync_pwm_chip_watches lists the chips and unregisters those that are gone.
ListChips ==
    /\ pc \in {"idle", "relist"}
    /\ chips' = PwmChips \cap Present
    /\ SetMaps(Unwatched(Maps, Stale))
    /\ pc' = IF pc = "idle" THEN "sync" ELSE "resync"
    /\ UNCHANGED <<hardwareVars, changes, kernelVars, touched, refreshVars, histories>>

\* The class directory cannot be listed, or a watch cannot be removed, by when
\* some chips are unregistered.
ListFails ==
    /\ pc \in {"idle", "relist"}
    /\ \E paths \in SUBSET (Stale \cap DOMAIN watched_paths) : SetMaps(Unwatched(Maps, paths))
    /\ Counted
    /\ PollFails

\* add_watch on a chip that is still there.
WatchChip(e) ==
    /\ pc \in {"sync", "resync"}
    /\ e \in chips
    /\ PathOf(e) \notin DOMAIN watched_paths
    /\ files[e] # "absent"
    /\ last_wd' = last_wd + 1
    /\ kernel' = [kernel EXCEPT ![PathOf(e)] = last_wd']
    /\ watched_paths' = [path \in DOMAIN watched_paths \cup {PathOf(e)} |->
                            IF path = PathOf(e) THEN last_wd' ELSE watched_paths[path]]
    /\ registrations' = [wd \in DOMAIN registrations \cup {last_wd'} |->
                            IF wd = last_wd' THEN PathOf(e) ELSE registrations[wd]]
    /\ chips' = chips \ {e}
    /\ UNCHANGED <<hardwareVars, changes, queue, pc, touched, refreshVars, histories>>

\* A chip that was listed is seen to be gone.
ChipGone(e) ==
    /\ pc \in {"sync", "resync"}
    /\ e \in chips
    /\ PathOf(e) \notin DOMAIN watched_paths
    /\ files[e] = "absent"
    /\ chips' = chips \ {e}
    /\ UNCHANGED <<hardwareVars, changes, kernelVars, watched_paths, registrations, pc, touched,
                   refreshVars, histories>>

\* The chip goes after it was seen, or the kernel has no watch left to give.
WatchFails(e) ==
    /\ pc \in {"sync", "resync"}
    /\ e \in chips
    /\ PathOf(e) \notin DOMAIN watched_paths
    /\ IF files[e] = "absent" THEN UNCHANGED changes ELSE Counted
    /\ PollFails
    /\ UNCHANGED <<watched_paths, registrations>>

\* The interfaces of a refresh: the probes list their directories and read
\* entry by entry.
BeginRefresh(interfaces) ==
    /\ unread' = {e \in Present : InterfaceOf[e.probe] \in interfaces}
    /\ read' = <<>>
    /\ failed' = {}

SyncDone ==
    /\ pc \in {"sync", "resync"}
    /\ \A e \in chips : PathOf(e) \in DOMAIN watched_paths
    /\ chips' = {}
    /\ \/ pc = "sync" /\ pc' = "read" /\ UNCHANGED <<unread, read, failed>>
       \/ pc = "resync" /\ pc' = "refresh" /\ BeginRefresh(touched)
    /\ UNCHANGED <<hardwareVars, changes, kernelVars, watched_paths, registrations, touched,
                   inventory, histories>>

-----------------------------------------------------------------------------
(* Reading the events                                                       *)

\* Nothing to read: the poll returns no event.
ReadNothing ==
    /\ pc = "read"
    /\ queue = <<>>
    /\ pc' = "idle"
    /\ UNCHANGED <<hardwareVars, changes, kernelVars, watcherVars, refreshVars, histories>>

\* The read is refused, and the events stay where they are.
ReadFails ==
    /\ pc = "read"
    /\ Counted
    /\ PollFails
    /\ UNCHANGED <<watched_paths, registrations>>

\* The events of a batch that have a registration.
Registered(batch) ==
    {batch[k] : k \in {j \in DOMAIN batch : batch[j].wd \in DOMAIN registrations}}

\* Faulty variant: an overflow is not noticed.
TouchedBySome(batch) == {InterfaceOfPath(registrations[event.wd]) : event \in Registered(batch)}

Touched(batch) ==
    {InterfaceOfPath(registrations[event.wd]) : event \in Registered(batch)}
    \cup (IF Overflow \in ToSet(batch) THEN Interfaces ELSE {})

\* One read returns as many events as fit the buffer.
ReadEvents ==
    /\ pc = "read"
    /\ \E n \in 1..Len(queue) :
          LET batch == SubSeq(queue, 1, n)
              needs_pwm_resync == \E event \in Registered(batch) :
                                     InterfaceOfPath(registrations[event.wd]) = "Pwm"
              ignored == {registrations[event.wd] :
                             event \in {k \in Registered(batch) : k.ignored}}
          IN  /\ queue' = SubSeq(queue, n + 1, Len(queue))
              /\ touched' = Touched(batch)
              /\ SetMaps(Unwatched(Maps, ignored))
              /\ hidden' = hidden \cup
                    IF Overflow \in ToSet(batch) /\ ~ needs_pwm_resync
                    THEN {e \in PwmChips \cap Present : PathOf(e) \notin DOMAIN watched_paths'}
                    ELSE {}
              /\ \/ /\ needs_pwm_resync
                    /\ pc' = "relist"
                    /\ UNCHANGED <<unread, read, failed>>
                 \/ /\ ~ needs_pwm_resync /\ touched' # {}
                    /\ pc' = "refresh"
                    /\ BeginRefresh(touched')
                 \/ /\ ~ needs_pwm_resync /\ touched' = {}
                    /\ pc' = "idle"
                    /\ UNCHANGED <<unread, read, failed>>
    /\ UNCHANGED <<hardwareVars, changes, kernel, last_wd, chips, inventory, missed, unwatched>>

-----------------------------------------------------------------------------
(* The refresh that follows                                                 *)

\* An entry that comes while its directory is listed may be in the listing.
ListEntry(e) ==
    /\ pc = "refresh"
    /\ e \in Present \ (unread \cup DOMAIN read)
    /\ Refreshing(e.probe) /\ e.probe \notin failed
    /\ \A d \in DOMAIN read : d.root # e.root
    /\ unread' = unread \cup {e}
    /\ UNCHANGED <<hardwareVars, changes, kernelVars, watcherVars, pc, read, failed, inventory,
                   histories>>

\* A directory that is there cannot be listed: the probe fails.
ListingFails(p) ==
    /\ pc = "refresh"
    /\ Refreshing(p) /\ p \notin failed
    /\ \E r \in RootsOf[p] \cap roots : \A d \in DOMAIN read : d.root # r
    /\ Counted
    /\ failed' = failed \cup {p}
    /\ missed' = missed \cup {p}
    /\ UNCHANGED <<hardwareVars, kernelVars, watcherVars, pc, unread, read, inventory, unwatched,
                   hidden>>

\* A probe that gives up on an entry reads no other.
ReadEntry(e) ==
    /\ pc = "refresh"
    /\ e \in unread /\ e.probe \notin failed
    /\ unread' = unread \ {e}
    /\ \E outcome \in ReadOutcomes(e, files[e]) :
          LET refused == files[e] # "absent" /\ outcome = Refused(e) IN
          /\ IF refused THEN Counted ELSE UNCHANGED changes
          /\ read' = [d \in DOMAIN read \cup {e} |-> IF d = e THEN outcome ELSE read[d]]
          /\ failed' = IF outcome = "failed" THEN failed \cup {e.probe} ELSE failed
          /\ missed' = IF refused /\ outcome = "failed" THEN missed \cup {e.probe} ELSE missed
          /\ hidden' = IF \/ outcome = "failed"
                          \/ e \in PwmChips /\ kernel[PathOf(e)] = 0
                       THEN hidden
                       ELSE IF refused THEN hidden \cup {e} ELSE hidden \ {e}
    /\ UNCHANGED <<hardwareVars, kernelVars, watcherVars, pc, inventory, unwatched>>

\* The probes are done, and this is what each has found.
AllRead == pc = "refresh" /\ \A e \in unread : e.probe \in failed

Report(p) ==
    Discover(p, [e \in {d \in DOMAIN read : d.probe = p /\ read[d] # "skipped"} |-> read[e]])

Reporting == {p \in Probes : Refreshing(p) /\ p \notin failed}

IdsDiffer(devices) ==
    \A j, k \in DOMAIN devices : devices[j].id = devices[k].id => j = k

\* A probe that failed keeps what it had.
Commit ==
    /\ AllRead
    /\ \A p \in Reporting : IdsDiffer(Report(p))
    /\ inventory' = [p \in Probes |-> IF p \in Reporting THEN Report(p) ELSE inventory[p]]
    /\ missed' = missed \ Reporting
    /\ touched' = {}
    /\ unread' = {}
    /\ read' = <<>>
    /\ failed' = {}
    /\ pc' = "idle"
    /\ UNCHANGED <<hardwareVars, changes, kernelVars, watched_paths, registrations, chips,
                   unwatched, hidden>>

\* validate_devices refuses the whole run if an id is there twice.
Reject ==
    /\ AllRead
    /\ \E p \in Reporting : ~ IdsDiffer(Report(p))
    /\ missed' = missed \cup {p \in Probes : Refreshing(p)}
    /\ touched' = {}
    /\ unread' = {}
    /\ read' = <<>>
    /\ failed' = {}
    /\ pc' = "idle"
    /\ UNCHANGED <<hardwareVars, changes, kernelVars, watched_paths, registrations, chips,
                   inventory, unwatched, hidden>>

Poller ==
    \/ ListChips
    \/ ListFails
    \/ \E e \in PwmChips : WatchChip(e) \/ ChipGone(e) \/ WatchFails(e)
    \/ SyncDone
    \/ ReadNothing
    \/ ReadFails
    \/ ReadEvents
    \/ \E e \in world : ListEntry(e) \/ ReadEntry(e)
    \/ \E p \in Probes : ListingFails(p)
    \/ Commit
    \/ Reject

-----------------------------------------------------------------------------

\* The watcher has just been built: the roots that exist are watched, and so
\* are the chips.  The caller discovers everything once.
HotplugInit ==
    /\ world \in Worlds
    /\ files \in [world -> {"absent", "ready"}]
    /\ roots \in SUBSET {e.root : e \in world}
    /\ \A e \in Present : e.root \in roots /\ (e.on # "" => \E d \in Present : d.name = e.on)
    /\ \A d, e \in Present : ~ SameInterface(d, e)
    /\ registrations = SetToSeq(roots \cup {PathOf(e) : e \in PwmChips \cap Present})
    /\ watched_paths = [path \in Range(registrations) |->
                           CHOOSE wd \in DOMAIN registrations : registrations[wd] = path]
    /\ kernel = [path \in Paths |->
                    IF path \in DOMAIN watched_paths THEN watched_paths[path] ELSE 0]
    /\ last_wd = Len(registrations)
    /\ queue = <<>>
    /\ changes = 0
    /\ pc = "refresh"
    /\ chips = {}
    /\ touched = Interfaces
    /\ unread = Present
    /\ read = <<>>
    /\ failed = {}
    /\ inventory = [p \in Probes |-> <<>>]
    /\ missed = {}
    /\ unwatched = {}
    /\ hidden = {}

HotplugNext == Hardware \/ Poller

\* The application polls again and again; nobody promises that the hardware
\* ever changes.
HotplugSpec == HotplugInit /\ [][HotplugNext]_hotplugVars /\ WF_hotplugVars(Poller)

-----------------------------------------------------------------------------
(* Properties                                                               *)

\* The watcher's variables have their types, and its two maps are each
\* other's inverse: otherwise an event would be filed under a directory that
\* is not watched any more, or a chip would never be watched again.
HotplugTypeOK ==
    /\ files \in [world -> EntryStates \cup {"absent"}]
    /\ pc \in {"idle", "sync", "read", "relist", "resync", "refresh"}
    /\ touched \subseteq Interfaces
    /\ DOMAIN watched_paths \subseteq Paths
    /\ \A path \in DOMAIN watched_paths :
          /\ watched_paths[path] \in DOMAIN registrations
          /\ registrations[watched_paths[path]] = path
    /\ \A wd \in DOMAIN registrations :
          /\ registrations[wd] \in DOMAIN watched_paths
          /\ watched_paths[registrations[wd]] = wd

\* What the probe would find now.
Actual(p) == Discover(p, [e \in {d \in Present : d.probe = p} |-> files[e]])

\* The ways in which the watcher is known to lose a change.  Events were taken
\* from the queue and their refresh came to nothing: the poll failed after it
\* had read them, the kernel refused a directory or a file to the probe, or the
\* whole run was rejected.  The root was created after the watcher.  The files
\* of an entry changed, which nothing watches, or were skipped as unreadable.
\* The queue overflowed and took the end of a chip's watch or a new chip with
\* it, which does not make the poll look for chips again.
Excused(p) ==
    \/ p \in missed
    \/ \E r \in RootsOf[p] : r \in unwatched
    \/ \E e \in hidden : e.probe = p
    \/ \E e \in PwmChips : /\ e.probe = p
                           /\ PathOf(e) \in DOMAIN watched_paths
                           /\ kernel[PathOf(e)] # watched_paths[PathOf(e)]

\* An event in the queue that will make a poll report the probe's interface.
Announced(p) ==
    \E k \in DOMAIN queue :
        \/ queue[k] = Overflow
        \/ /\ queue[k].wd \in DOMAIN registrations
           /\ InterfaceOfPath(registrations[queue[k].wd]) = InterfaceOf[p]

\* Between two polls the inventory is what the probes would find, or an event
\* is waiting that will have it refreshed, whatever the hardware did between
\* the steps of earlier polls (poll, sync_pwm_chip_watches).
DivergenceIsPending ==
    pc = "idle" => \A p \in Probes :
                       inventory[p] # Actual(p) => Announced(p) \/ Excused(p)

\* Once the hardware leaves off changing, the inventory comes to be what the
\* probes would find.
InventoryConverges ==
    \A p \in Probes : <>[](inventory[p] = Actual(p) \/ Excused(p))

\* However the entries came and went while they were listed and read, what a
\* probe is about to commit has every parent link lead to a device found
\* before, and no id twice unless the listing caught one usb interface in two
\* configurations, whose number is not in the id: validate_devices rejects the
\* whole run then.
DescriptorsSound ==
    AllRead => \A p \in Reporting :
        LET devices == Report(p) IN
        /\ \/ IdsDiffer(devices)
           \/ \E d, e \in DOMAIN read : d.probe = p /\ SameInterface(d, e)
        /\ \A k \in DOMAIN devices :
              \/ devices[k].parent = NoParent
              \/ \E j \in 1..(k - 1) : devices[j].id = devices[k].parent
=============================================================================
