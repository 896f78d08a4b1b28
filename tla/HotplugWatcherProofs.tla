------------------------ MODULE HotplugWatcherProofs ------------------------
(***************************************************************************)
(* The two maps of the hotplug watcher stay each other's inverse, between    *)
(* polls the inventory is true, an event is waiting or the loss has a name,  *)
(* and what a refresh commits is sound, for any entries, queue limit and     *)
(* number of changes and refusals.                                           *)
(***************************************************************************)
EXTENDS HotplugWatcher, FiniteSetTheorems, SequenceTheorems, WellFoundedInduction, TLAPS

-----------------------------------------------------------------------------
(* Paths                                                                    *)

\* A root is a path of one name, and belongs to one probe.
LEMMA RootFacts ==
    /\ \A p \in Probes : \A r \in RootsOf[p] : \E name : r = <<name>>
    /\ \A p, q \in Probes : \A r \in RootsOf[p] : r \in RootsOf[q] => p = q
    /\ "pwm" \in Probes /\ InterfaceOf["pwm"] = "Pwm"
    /\ \A p \in Probes : InterfaceOf[p] \in Interfaces
BY DEF Probes, RootsOf, InterfaceOf, Interfaces

LEMMA SequencesEqual ==
    ASSUME NEW S, NEW s \in Seq(S), NEW t \in Seq(S), NEW n \in Nat,
           Len(s) = n, Len(t) = n, \A i \in 1 .. n : s[i] = t[i]
    PROVE  s = t
BY SeqEqual

LEMMA TupleFacts ==
    ASSUME NEW a, NEW b
    PROVE  /\ Append(<<a>>, b) = <<a, b>>
           /\ SubSeq(<<a>>, 1, 1) = <<a>>
           /\ SubSeq(<<a, b>>, 1, 1) = <<a>>
           /\ \A c : <<a, b>> # <<c>>
<1>1. <<a>> \in Seq({a, b}) /\ <<a, b>> \in Seq({a, b}) /\ b \in {a, b}
  OBVIOUS
<1>a. Len(<<a>>) = 1 /\ \A i \in 1 .. 1 : <<a>>[i] = a
  OBVIOUS
<1>b. Len(<<a, b>>) = 2 /\ \A i \in 1 .. 2 : <<a, b>>[i] = IF i = 1 THEN a ELSE b
  OBVIOUS
<1>2. Append(<<a>>, b) = <<a, b>>
  <2>1. Append(<<a>>, b) \in Seq({a, b}) /\ Len(Append(<<a>>, b)) = 2
    BY <1>1
  <2>2. \A i \in 1 .. 2 : Append(<<a>>, b)[i] = IF i = 1 THEN a ELSE b
    BY <1>1
  <2>3. \A i \in 1 .. 2 : Append(<<a>>, b)[i] = <<a, b>>[i]
    BY <2>2, <1>b
  <2> HIDE <2>2
  <2> DEFINE s == Append(<<a>>, b)
             t == <<a, b>>
  <2>4. s \in Seq({a, b}) /\ t \in Seq({a, b}) /\ Len(s) = 2 /\ Len(t) = 2
        /\ \A i \in 1 .. 2 : s[i] = t[i]
    BY <1>1, <1>b, <2>1, <2>3
  <2> HIDE DEF s, t
  <2>5. s = t
    BY <2>4, SequencesEqual
  <2> QED BY <2>5 DEF s, t
<1>3. ASSUME NEW u, u \in Seq({a, b}), Len(u) >= 1, u[1] = a
      PROVE  SubSeq(u, 1, 1) = <<a>>
  <2>1. \A i \in 1 .. 1 : u[i] \in {a, b}
    BY <1>3
  <2>2. /\ SubSeq(u, 1, 1) \in Seq({a, b})
        /\ Len(SubSeq(u, 1, 1)) = 1
        /\ SubSeq(u, 1, 1)[1] = u[1]
    BY <2>1, SubSeqProperties
  <2> DEFINE s == SubSeq(u, 1, 1)
             t == <<a>>
  <2>3. s \in Seq({a, b}) /\ t \in Seq({a, b}) /\ Len(s) = 1 /\ Len(t) = 1
        /\ \A i \in 1 .. 1 : s[i] = t[i]
    BY <1>1, <1>a, <1>3, <2>2
  <2> HIDE DEF s, t
  <2>4. s = t
    BY <2>3, SequencesEqual
  <2> QED BY <2>4 DEF s, t
<1>5. ASSUME NEW c PROVE <<a, b>> # <<c>>
  <2>1. Len(<<a, b>>) = 2 /\ Len(<<c>>) = 1
    OBVIOUS
  <2> QED BY <2>1
<1>6. SubSeq(<<a>>, 1, 1) = <<a>>
  <2>1. <<a>>[1] = a /\ Len(<<a>>) >= 1
    BY <1>a
  <2> QED BY <1>1, <1>3, <2>1
<1>7. SubSeq(<<a, b>>, 1, 1) = <<a>>
  <2>1. <<a, b>>[1] = a /\ Len(<<a, b>>) >= 1
    BY <1>b
  <2> QED BY <1>1, <1>3, <2>1
<1> QED BY <1>2, <1>5, <1>6, <1>7

LEMMA InterfaceOfRoot ==
    ASSUME NEW p \in Probes, NEW r \in RootsOf[p], NEW path, SubSeq(path, 1, 1) = r
    PROVE  InterfaceOfPath(path) = InterfaceOf[p]
BY RootFacts DEF InterfaceOfPath

\* Every entry hangs below the roots of its probe, and no two paths coincide.
LEMMA WorldFacts ==
    ASSUME world \in Worlds
    PROVE  /\ \A e \in world : /\ e.probe \in Probes
                               /\ e.root \in RootsOf[e.probe]
                               /\ e.root \in Paths
                               /\ PathOf(e) \in Paths
                               /\ InterfaceOfPath(PathOf(e)) = InterfaceOf[e.probe]
           /\ \A d, e \in world : PathOf(d) = PathOf(e) => d = e
           /\ \A p \in Probes : \A r \in RootsOf[p] :
                 /\ InterfaceOfPath(r) = InterfaceOf[p]
                 /\ \A e \in world : PathOf(e) # r
           /\ \A path \in Paths : InterfaceOfPath(path) \in Interfaces
           /\ \A e \in PwmChips : e \in world /\ e.probe = "pwm"
           /\ IsFiniteSet(Paths)
<1>1. \A e \in world : e.probe \in Probes /\ e.root \in RootsOf[e.probe]
  BY HotplugAssumption, ListingAssumption
<1>2. \A d, e \in world : PathOf(d) = PathOf(e) => d = e
  BY HotplugAssumption
<1>3. ASSUME NEW p \in Probes, NEW r \in RootsOf[p]
      PROVE  /\ InterfaceOfPath(r) = InterfaceOf[p]
             /\ \A name : /\ InterfaceOfPath(Append(r, name)) = InterfaceOf[p]
                          /\ \A q \in Probes : \A t \in RootsOf[q] : Append(r, name) # t
  <2>1. PICK n : r = <<n>>
    BY RootFacts
  <2>2. SubSeq(r, 1, 1) = r /\ \A name : SubSeq(Append(r, name), 1, 1) = r
    BY <2>1, TupleFacts
  <2>3. \A name : \A c : Append(r, name) # <<c>>
    BY <2>1, TupleFacts
  <2>4. InterfaceOfPath(r) = InterfaceOf[p]
    BY <2>2, InterfaceOfRoot
  <2>5. ASSUME NEW name PROVE InterfaceOfPath(Append(r, name)) = InterfaceOf[p]
    BY <2>2, InterfaceOfRoot
  <2>6. ASSUME NEW name, NEW q \in Probes, NEW t \in RootsOf[q] PROVE Append(r, name) # t
    <3>1. PICK c : t = <<c>>
      BY RootFacts
    <3> QED BY <2>3, <3>1
  <2> QED BY <2>4, <2>5, <2>6
<1>4. \A e \in world : e.root \in Paths /\ PathOf(e) \in Paths
  BY DEF Paths
<1>5. \A e \in world : InterfaceOfPath(PathOf(e)) = InterfaceOf[e.probe]
  BY <1>1, <1>3 DEF PathOf
<1>6. \A p \in Probes : \A r \in RootsOf[p] :
          InterfaceOfPath(r) = InterfaceOf[p] /\ \A e \in world : PathOf(e) # r
  <2>1. \A p \in Probes : \A r \in RootsOf[p] : InterfaceOfPath(r) = InterfaceOf[p]
    BY <1>3
  <2>2. ASSUME NEW p \in Probes, NEW r \in RootsOf[p], NEW e \in world
        PROVE  PathOf(e) # r
    <3>1. e.probe \in Probes /\ e.root \in RootsOf[e.probe]
      BY <1>1
    <3>2. \A name : Append(e.root, name) # r
      BY <1>3, <3>1
    <3> QED BY <3>2 DEF PathOf
  <2> QED BY <2>1, <2>2
<1>7. \A path \in Paths : InterfaceOfPath(path) \in Interfaces
  BY <1>1, <1>5, <1>6, RootFacts DEF Paths
<1>8. IsFiniteSet(Paths)
  <2>1. IsFiniteSet(Entries)
    <3> DEFINE f == [i \in 1 .. Len(Listing) |-> Listing[i]]
    <3>1. Entries = {Listing[i] : i \in 1 .. Len(Listing)}
      BY ListingAssumption DEF Entries, ToSet
    <3>2. f \in Surjection(1 .. Len(Listing), Entries)
      BY <3>1 DEF Surjection
    <3>3. IsFiniteSet(1 .. Len(Listing))
      BY ListingAssumption, FS_Interval
    <3> QED BY <3>2, <3>3, FS_Surjection
  <2>2. IsFiniteSet(world)
    BY <2>1, HotplugAssumption, FS_Subset
  <2>3. IsFiniteSet({e.root : e \in world})
    <3> DEFINE f == [e \in world |-> e.root]
    <3>1. f \in Surjection(world, {e.root : e \in world})
      BY DEF Surjection
    <3> QED BY <2>2, <3>1, FS_Surjection
  <2>4. IsFiniteSet({PathOf(e) : e \in world})
    <3> DEFINE f == [e \in world |-> PathOf(e)]
    <3>1. f \in Surjection(world, {PathOf(e) : e \in world})
      BY DEF Surjection
    <3> QED BY <2>2, <3>1, FS_Surjection
  <2> QED BY <2>3, <2>4, FS_Union DEF Paths
<1>9. \A e \in PwmChips : e \in world /\ e.probe = "pwm"
  BY DEF PwmChips
<1> QED BY <1>1, <1>2, <1>4, <1>5, <1>6, <1>7, <1>8, <1>9

-----------------------------------------------------------------------------
(* The queue                                                                *)

QueueEvents == [wd : Nat, ignored : BOOLEAN]

\* What is in the queue stays there; an event of a watched directory is in it
\* afterwards, or an overflow is.
Grown(q, new, event) ==
    /\ new \in Seq(QueueEvents)
    /\ \A k \in DOMAIN q : k \in DOMAIN new /\ new[k] = q[k]
    /\ \A k \in DOMAIN new : k \in DOMAIN q \/ (new[k] = event /\ event.wd # 0) \/ new[k] = Overflow
    /\ event.wd # 0 => \E k \in DOMAIN new : new[k] = event \/ new[k] = Overflow

LEMMA QueuedFacts ==
    ASSUME NEW q \in Seq(QueueEvents), NEW wd \in Nat, NEW ignored \in BOOLEAN
    PROVE  Grown(q, Queued(q, wd, ignored), [wd |-> wd, ignored |-> ignored])
<1> USE DEF Grown
<1> DEFINE event == [wd |-> wd, ignored |-> ignored]
<1>1. event \in QueueEvents /\ Overflow \in QueueEvents
  BY DEF QueueEvents, Overflow
<1>2. ASSUME NEW e \in QueueEvents
      PROVE  /\ Append(q, e) \in Seq(QueueEvents)
             /\ DOMAIN Append(q, e) = 1 .. Len(q) + 1
             /\ DOMAIN q = 1 .. Len(q) /\ Len(q) \in Nat
             /\ \A k \in 1 .. Len(q) : Append(q, e)[k] = q[k]
             /\ Append(q, e)[Len(q) + 1] = e
  OBVIOUS
<1>3. CASE wd = 0 \/ (q # <<>> /\ Last(q) = event)
  <2>1. Queued(q, wd, ignored) = q
    BY <1>3 DEF Queued
  <2>2. wd # 0 => Len(q) \in DOMAIN q /\ q[Len(q)] = event
    BY <1>3 DEF Last
  <2> QED BY <2>1, <2>2
<1>4. CASE ~ (wd = 0 \/ (q # <<>> /\ Last(q) = event)) /\ Len(q) < QueueLimit
  <2>1. Queued(q, wd, ignored) = Append(q, event)
    BY <1>4 DEF Queued
  <2> QED BY <1>1, <1>2, <1>4, <2>1
<1>5. CASE ~ (wd = 0 \/ (q # <<>> /\ Last(q) = event)) /\ ~ Len(q) < QueueLimit
  <2>1. CASE \E k \in DOMAIN q : q[k] = Overflow
    <3>1. Queued(q, wd, ignored) = q
      BY <1>5, <2>1 DEF Queued
    <3> QED BY <2>1, <3>1
  <2>2. CASE ~ \E k \in DOMAIN q : q[k] = Overflow
    <3>1. Queued(q, wd, ignored) = Append(q, Overflow)
      BY <1>5, <2>2 DEF Queued
    <3> QED BY <1>1, <1>2, <3>1
  <2> QED BY <2>1, <2>2
<1> QED BY <1>3, <1>4, <1>5

-----------------------------------------------------------------------------
(* The invariant                                                            *)

\* What is where in a poll.
PollerSound ==
    /\ pc \in {"idle", "sync", "read", "relist", "resync", "refresh"}
    /\ touched \subseteq Interfaces
    /\ pc \in {"idle", "sync", "read"} => touched = {}
    /\ pc \in {"relist", "resync"} => "Pwm" \in touched
    /\ chips \subseteq PwmChips
    /\ unread \subseteq world /\ DOMAIN read \subseteq world
    /\ unread \cap DOMAIN read = {}
    /\ pc # "refresh" => unread = {} /\ failed = {}
    /\ \A e \in unread : Refreshing(e.probe)

\* Registered and watched paths are inverse to each other, and numbered by
\* descriptors that were handed out.
MapsSound ==
    /\ last_wd \in Nat
    /\ DOMAIN watched_paths \subseteq Paths
    /\ \A path \in DOMAIN watched_paths :
          watched_paths[path] \in DOMAIN registrations /\ registrations[watched_paths[path]] = path
    /\ \A wd \in DOMAIN registrations :
          /\ wd \in 1 .. last_wd
          /\ registrations[wd] \in DOMAIN watched_paths
          /\ watched_paths[registrations[wd]] = wd

\* A watch of the kernel is one the watcher knows; its entries have roots, and
\* a root that is not watched was made after the watcher; an IGNORED event
\* speaks of a watch that is gone.
KernelSound ==
    /\ kernel \in [Paths -> 0 .. last_wd]
    /\ queue \in Seq(QueueEvents)
    /\ \A k \in DOMAIN queue : queue[k].wd <= last_wd
    /\ \A k \in DOMAIN queue : queue[k].ignored =>
          queue[k].wd # 0 /\ \A path \in Paths : kernel[path] # queue[k].wd
    /\ \A path \in Paths : kernel[path] # 0 =>
          path \in DOMAIN watched_paths /\ watched_paths[path] = kernel[path]
    /\ roots \subseteq {e.root : e \in world}
    /\ \A r \in roots : kernel[r] # 0 \/ r \in unwatched
    /\ files \in [world -> EntryStates \cup {"absent"}]
    /\ \A e \in world : IF files[e] = "absent" THEN kernel[PathOf(e)] = 0 ELSE e.root \in roots

Shape == world \in Worlds /\ PollerSound /\ MapsSound /\ KernelSound

\* A path whose registration outlives what else happens to the poll: a root,
\* or an entry that is there.
OwnPath(p, path) ==
    \/ path \in RootsOf[p]
    \/ \E e \in world : e.probe = p /\ files[e] # "absent" /\ PathOf(e) = path

\* An event that no step of a poll can make void.
Durable(p) ==
    \E k \in DOMAIN queue :
        \/ queue[k] = Overflow
        \/ queue[k].wd \in DOMAIN registrations /\ OwnPath(p, registrations[queue[k].wd])

RootUnwatched(p) == \E r \in RootsOf[p] : r \in unwatched

DeadWatch(e) ==
    /\ e \in PwmChips
    /\ files[e] # "absent"
    /\ PathOf(e) \in DOMAIN watched_paths
    /\ kernel[PathOf(e)] # watched_paths[PathOf(e)]

Told(p) == Durable(p) \/ RootUnwatched(p)

\* What a refresh under way does not take away.
Lasting(p) == Told(p) \/ \E e \in world : e.probe = p /\ DeadWatch(e)

StaysHidden(e) ==
    e \in hidden /\ (e \notin unread \/ (e \in PwmChips /\ kernel[PathOf(e)] = 0))

\* What the refresh has read of an entry, or will read, is how the entry is.
Agrees(e) ==
    /\ e \in unread => files[e] # "absent"
    /\ e \in DOMAIN read => files[e] # "absent" /\ read[e] = files[e]
    /\ files[e] # "absent" => e \in unread \cup DOMAIN read

KeptByRefresh(p) ==
    \/ Lasting(p)
    \/ p \notin failed /\ \A e \in world : e.probe = p => Agrees(e)
    \/ \E e \in world : e.probe = p /\ StaysHidden(e)
    \/ p \in failed /\ p \in missed

KeptByEvents(p) ==
    \/ inventory[p] = Actual(p)
    \/ Lasting(p)
    \/ p \in missed
    \/ \E e \in hidden : e.probe = p

Kept(p) ==
    /\ Refreshing(p) /\ pc = "refresh" => KeptByRefresh(p)
    /\ ~ Refreshing(p) => KeptByEvents(p)

\* An entry that a refresh has not listed came after the refresh began.
ListKnown(e) ==
    /\ pc = "refresh" /\ Refreshing(e.probe) /\ e.probe \notin failed
    /\ files[e] # "absent" /\ e \notin unread \cup DOMAIN read
    => Told(e.probe)

\* A refresh of the probe was lost, and none is under way that will read its entries.
Missing(p) == p \in missed /\ (~ Refreshing(p) \/ p \in failed)

\* A chip is watched, is about to be, or is known to be hidden.
ChipKnown(e) ==
    e \in PwmChips /\ files[e] # "absent" /\ PathOf(e) \notin DOMAIN watched_paths =>
        \/ e \in hidden
        \/ Told(e.probe)
        \/ Missing(e.probe)
        \/ pc = "relist"
        \/ pc = "resync" /\ e \in chips

EntryKnown(e) == ListKnown(e) /\ ChipKnown(e)

HotplugInv ==
    /\ Shape
    /\ \A p \in Probes : Kept(p)
    /\ \A e \in world : EntryKnown(e)

-----------------------------------------------------------------------------
(* Initial states                                                           *)

LEMMA InitShape ==
    HotplugInit => Shape /\ \A e \in PwmChips \cap Present : PathOf(e) \in DOMAIN watched_paths
<1> SUFFICES ASSUME HotplugInit
             PROVE  Shape /\ \A e \in PwmChips \cap Present : PathOf(e) \in DOMAIN watched_paths
  OBVIOUS
<1> DEFINE S == roots \cup {PathOf(e) : e \in PwmChips \cap Present}
           n == Cardinality(S)
<1>0. /\ world \in Worlds /\ roots \subseteq {e.root : e \in world}
      /\ files \in [world -> {"absent", "ready"}]
      /\ \A e \in Present : e.root \in roots
      /\ registrations = SetToSeq(S)
      /\ watched_paths = [path \in Range(registrations) |->
                             CHOOSE wd \in DOMAIN registrations : registrations[wd] = path]
      /\ kernel = [path \in Paths |->
                      IF path \in DOMAIN watched_paths THEN watched_paths[path] ELSE 0]
      /\ last_wd = Len(registrations) /\ queue = <<>>
      /\ pc = "refresh" /\ chips = {} /\ touched = Interfaces
      /\ unread = Present /\ read = <<>>
  BY DEF HotplugInit
<1>1. S \subseteq Paths
  BY <1>0 DEF Paths, PwmChips
<1>2. IsFiniteSet(S)
  BY <1>0, <1>1, WorldFacts, FS_Subset
<1>3. n \in Nat /\ \E f \in [1 .. n -> S] : IsInjective(f)
  <2>1. n \in Nat /\ ExistsBijection(1 .. n, S)
    BY <1>2, FS_CardinalityType
  <2> QED BY <2>1 DEF ExistsBijection, Bijection, Injection, IsInjective
<1>4. registrations \in [1 .. n -> S] /\ IsInjective(registrations)
  BY <1>0, <1>3 DEF SetToSeq
<1> HIDE DEF n, S
<1>5. last_wd = n
  <2>1. registrations \in Seq(S) /\ DOMAIN registrations = 1 .. n
    BY <1>3, <1>4
  <2>2. Len(registrations) \in Nat /\ 1 .. Len(registrations) = 1 .. n
    BY <2>1, LenProperties
  <2> QED BY <1>0, <1>3, <2>2
<1>6. /\ DOMAIN watched_paths = {registrations[wd] : wd \in 1 .. n}
      /\ DOMAIN registrations = 1 .. n
  BY <1>0, <1>4 DEF Range
<1>a. \A path \in DOMAIN watched_paths :
          watched_paths[path] \in 1 .. n /\ registrations[watched_paths[path]] = path
  <2> SUFFICES ASSUME NEW path \in DOMAIN watched_paths
               PROVE  watched_paths[path] \in 1 .. n /\ registrations[watched_paths[path]] = path
    OBVIOUS
  <2>1. watched_paths[path] = CHOOSE wd \in DOMAIN registrations : registrations[wd] = path
    BY <1>0
  <2> QED BY <1>6, <2>1
<1>b. S \subseteq DOMAIN watched_paths
  <2>1. registrations \in Injection(1 .. n, S) /\ Cardinality(1 .. n) = n
    BY <1>3, <1>4, FS_Interval DEF Injection, IsInjective
  <2>2. registrations \in Surjection(1 .. n, S)
    BY <1>2, <2>1, FS_Injection DEF n
  <2> QED BY <1>6, <2>2 DEF Surjection
<1>7. MapsSound
  <2>1. DOMAIN watched_paths \subseteq Paths
    BY <1>1, <1>4, <1>6
  <2>2. \A wd \in 1 .. n : registrations[wd] \in DOMAIN watched_paths
    BY <1>6
  <2>3. \A wd \in 1 .. n : watched_paths[registrations[wd]] = wd
    BY <1>4, <1>6, <1>a, <2>2 DEF IsInjective
  <2> QED BY <1>3, <1>5, <1>6, <1>a, <2>1, <2>2, <2>3 DEF MapsSound
<1>8. KernelSound
  <2>1. kernel \in [Paths -> 0 .. last_wd]
    BY <1>0, <1>3, <1>5, <1>a
  <2>2. queue \in Seq(QueueEvents) /\ DOMAIN queue = {}
    BY <1>0
  <2>3. \A path \in Paths : kernel[path] # 0 =>
            path \in DOMAIN watched_paths /\ watched_paths[path] = kernel[path]
    BY <1>0
  <2>4. \A r \in roots : kernel[r] # 0
    <3>1. \A r \in roots : r \in S /\ r \in Paths
      BY <1>0 DEF S, Paths
    <3> QED BY <1>0, <1>3, <1>a, <1>b, <3>1
  <2>5. files \in [world -> EntryStates \cup {"absent"}]
    BY <1>0 DEF EntryStates
  <2>6. ASSUME NEW e \in world
        PROVE  IF files[e] = "absent" THEN kernel[PathOf(e)] = 0 ELSE e.root \in roots
    <3>1. CASE files[e] = "absent"
      <4>1. PathOf(e) \notin S
        BY <1>0, <3>1, WorldFacts DEF S, Present
      <4>2. PathOf(e) \notin DOMAIN watched_paths
        BY <1>4, <1>6, <4>1
      <4> QED BY <1>0, <3>1, <4>2, WorldFacts
    <3>2. CASE files[e] # "absent"
      BY <1>0, <3>2 DEF Present
    <3> QED BY <3>1, <3>2
  <2> QED BY <1>0, <2>1, <2>2, <2>3, <2>4, <2>5, <2>6 DEF KernelSound
<1>9. PollerSound
  <2>1. \A e \in world : Refreshing(e.probe)
    BY <1>0, WorldFacts, RootFacts DEF Refreshing
  <2>2. unread \subseteq world /\ DOMAIN read = {}
    BY <1>0 DEF Present
  <2> QED BY <1>0, <2>1, <2>2 DEF PollerSound
<1> QED BY <1>0, <1>7, <1>8, <1>9, <1>b DEF Shape, S

LEMMA InitInv == HotplugInit => HotplugInv
<1> SUFFICES ASSUME HotplugInit PROVE HotplugInv
  OBVIOUS
<1>1. Shape /\ \A e \in PwmChips \cap Present : PathOf(e) \in DOMAIN watched_paths
  BY InitShape
<1>2. /\ world \in Worlds /\ files \in [world -> {"absent", "ready"}]
      /\ touched = Interfaces /\ unread = Present /\ read = <<>> /\ failed = {}
  BY DEF HotplugInit
<1>3. ASSUME NEW p \in Probes PROVE Kept(p)
  <2>1. Refreshing(p)
    BY <1>2, RootFacts DEF Refreshing
  <2>2. ASSUME NEW e \in world PROVE Agrees(e)
    <3>1. DOMAIN read = {}
      BY <1>2
    <3>2. e \in unread <=> files[e] # "absent"
      BY <1>2 DEF Present
    <3> QED BY <3>1, <3>2 DEF Agrees
  <2> QED BY <1>2, <2>1, <2>2 DEF Kept, KeptByRefresh
<1>4. ASSUME NEW e \in world PROVE EntryKnown(e)
  <2>1. files[e] # "absent" => e \in unread
    BY <1>2 DEF Present
  <2>2. e \in PwmChips /\ files[e] # "absent" => PathOf(e) \in DOMAIN watched_paths
    BY <1>1 DEF Present
  <2> QED BY <2>1, <2>2 DEF EntryKnown, ListKnown, ChipKnown
<1> QED BY <1>1, <1>3, <1>4 DEF HotplugInv

-----------------------------------------------------------------------------
(* Hardware                                                                 *)

\* The files of an entry change where nothing sees it: a chip that is not
\* watched, or another entry, which is hidden then.
Unseen(e) ==
    /\ files[e] # "absent" /\ files'[e] # "absent"
    /\ kernel'[PathOf(e)] = 0 /\ kernel[PathOf(e)] = 0
    /\ \/ e \in PwmChips /\ hidden' = hidden
       \/ e \notin PwmChips /\ hidden' = hidden \cup {e}

\* A change of an entry, or of its root, between two steps of the poller: the
\* probe is told, or nothing changed for it, or its files changed unseen.
HardwareOn(e) ==
    /\ UNCHANGED <<world, last_wd, watched_paths, registrations, pc, chips, touched,
                   unread, read, failed, inventory, missed>>
    /\ unwatched \subseteq unwatched'
    /\ \A k \in DOMAIN queue : k \in DOMAIN queue' /\ queue'[k] = queue[k]
    /\ \A d \in world \ {e} : files'[d] = files[d] /\ kernel'[PathOf(d)] = kernel[PathOf(d)]
    /\ kernel'[PathOf(e)] \in {0, kernel[PathOf(e)]}
    /\ \A d \in hidden : d # e => d \in hidden'
    /\ \/ Told(e.probe)'
       \/ /\ files'[e] = files[e] /\ kernel'[PathOf(e)] = kernel[PathOf(e)]
          /\ hidden' = hidden
       \/ Unseen(e)

LEMMA LastingStays ==
    ASSUME HotplugInv, NEW e \in world, HardwareOn(e), NEW p \in Probes
    PROVE  /\ Told(p) => Told(p)'
           /\ Lasting(p) => Lasting(p)'
<1> USE DEF HardwareOn, Unseen
<1>1. CASE p = e.probe /\ Told(e.probe)'
  BY <1>1 DEF Lasting
<1>2. CASE p # e.probe \/ ~ Told(e.probe)'
  <2>1. \A d \in world : d.probe = p /\ files[d] # "absent" => files'[d] # "absent"
    BY <1>2
  <2>2. \A path : OwnPath(p, path) => OwnPath(p, path)'
    BY <2>1 DEF OwnPath
  <2>3. Durable(p) => Durable(p)'
    BY <2>2 DEF Durable
  <2>4. RootUnwatched(p) => RootUnwatched(p)'
    BY DEF RootUnwatched
  <2>5. \A d \in world : d.probe = p /\ DeadWatch(d) => DeadWatch(d)'
    BY <1>2, <2>1 DEF DeadWatch, PwmChips
  <2> QED BY <2>3, <2>4, <2>5 DEF Told, Lasting
<1> QED BY <1>1, <1>2

LEMMA HardwareKeeps ==
    ASSUME HotplugInv, NEW e \in world, HardwareOn(e)
    PROVE  /\ \A p \in Probes : Kept(p)'
           /\ \A d \in world : EntryKnown(d)'
<1> USE DEF HardwareOn
<1>0. /\ Shape /\ e.probe \in Probes /\ world' = world
      /\ PwmChips' = PwmChips
      /\ \A d \in world : d.probe \in Probes
  BY WorldFacts DEF HotplugInv, Shape, PwmChips
<1>1. \A p \in Probes : (Told(p) => Told(p)') /\ (Lasting(p) => Lasting(p)')
  BY LastingStays
<1>2. \A p \in Probes : (Refreshing(p)' <=> Refreshing(p)) /\ (Missing(p)' <=> Missing(p))
  BY DEF Refreshing, Missing
<1>3. \A d \in world : StaysHidden(d) => StaysHidden(d)' \/ (d = e /\ Told(e.probe)')
  BY <1>0 DEF StaysHidden, PwmChips, Unseen
<1>4. ASSUME NEW p \in Probes,
             Told(p)' \/ \A d \in world : d.probe = p => files'[d] = files[d]
      PROVE  Kept(p)'
  <2>1. CASE Told(p)'
    BY <2>1 DEF Kept, KeptByRefresh, KeptByEvents, Lasting
  <2>2. CASE ~ Told(p)' /\ \A d \in world : d.probe = p => files'[d] = files[d]
    <3>1. Actual(p)' = Actual(p)
      <4>1. {d \in Present : d.probe = p}' = {d \in Present : d.probe = p}
        BY <2>2 DEF Present
      <4>2. [d \in {d \in Present : d.probe = p} |-> files[d]]'
            = [d \in {d \in Present : d.probe = p} |-> files[d]]
        BY <2>2, <4>1 DEF Present
      <4> QED BY <4>2 DEF Actual
    <3>2. \A d \in world : d.probe = p => (Agrees(d) => Agrees(d)')
      BY <2>2 DEF Agrees
    <3>3. \A d \in hidden : d.probe = p => d \in hidden'
      BY <2>2 DEF Unseen
    <3>4. \A d \in world : d.probe = p => (StaysHidden(d) => StaysHidden(d)')
      BY <1>3, <2>2
    <3> QED BY <1>1, <1>2, <3>1, <3>2, <3>3, <3>4
            DEF HotplugInv, Kept, KeptByRefresh, KeptByEvents
  <2> QED BY <1>4, <2>1, <2>2
<1>5. ASSUME NEW d \in world,
             Told(d.probe)' \/ (files'[d] = files[d] /\ (d \in hidden => d \in hidden'))
      PROVE  EntryKnown(d)'
  BY <1>0, <1>1, <1>2, <1>5 DEF HotplugInv, EntryKnown, ListKnown, ChipKnown
<1>a. \A d \in world \ {e} : EntryKnown(d)'
  <2>1. \A d \in world \ {e} : files'[d] = files[d] /\ (d \in hidden => d \in hidden')
    OBVIOUS
  <2> QED BY <1>5, <2>1
<1>b. \A p \in Probes : p # e.probe => Kept(p)'
  BY <1>4
<1>6. CASE Told(e.probe)'
  BY <1>4, <1>5, <1>6, <1>a, <1>b
<1>7. CASE files'[e] = files[e] /\ hidden' = hidden
  BY <1>4, <1>5, <1>7, <1>a, <1>b
<1>8. CASE Unseen(e)
  <2>0. /\ files[e] # "absent" /\ files'[e] # "absent"
        /\ kernel'[PathOf(e)] = 0 /\ kernel[PathOf(e)] = 0
        /\ hidden \subseteq hidden' /\ (e \notin PwmChips => e \in hidden')
        /\ e \in hidden => e \in hidden'
    BY <1>8 DEF Unseen
  <2>1. \/ Lasting(e.probe)
        \/ e \in hidden' /\ (e \in PwmChips \/ e \notin unread \/ ~ Refreshing(e.probe))
        \/ Missing(e.probe)
        \/ Refreshing(e.probe) /\ (pc # "refresh" \/ e \in unread)
    <3>1. CASE e \in PwmChips /\ PathOf(e) \in DOMAIN watched_paths
      <4>1. watched_paths[PathOf(e)] # 0
        BY <1>0, <3>1 DEF Shape, MapsSound
      <4>2. DeadWatch(e)
        BY <2>0, <3>1, <4>1 DEF DeadWatch
      <4> QED BY <4>2 DEF Lasting
    <3>2. CASE e \in PwmChips /\ PathOf(e) \notin DOMAIN watched_paths
      <4>1. e.probe = "pwm" /\ InterfaceOf["pwm"] = "Pwm"
        BY <3>2, RootFacts DEF PwmChips
      <4>2. pc \in {"relist", "resync"} => Refreshing(e.probe)
        BY <1>0, <4>1 DEF Shape, PollerSound, Refreshing
      <4> QED BY <2>0, <3>2, <4>2 DEF HotplugInv, EntryKnown, ChipKnown, Lasting
    <3>3. CASE e \notin PwmChips
      BY <2>0, <3>3
    <3> QED BY <3>1, <3>2, <3>3
  <2>2. Kept(e.probe)'
    <3>1. CASE Lasting(e.probe)
      BY <1>0, <1>1, <3>1 DEF Kept, KeptByRefresh, KeptByEvents
    <3>2. CASE ~ Lasting(e.probe) /\ ~ Refreshing(e.probe)
      <4>1. e.probe \in missed \/ e \in hidden'
        BY <2>1, <3>2 DEF Missing
      <4> QED BY <1>0, <1>2, <3>2, <4>1 DEF Kept, KeptByEvents
    <3>3. CASE ~ Lasting(e.probe) /\ Refreshing(e.probe)
      <4>1. CASE pc # "refresh"
        BY <1>0, <1>2, <3>3, <4>1 DEF Kept
      <4>2. CASE e \in hidden' /\ (e \in PwmChips \/ e \notin unread)
        <5>1. StaysHidden(e)'
          BY <1>0, <2>0, <4>2 DEF StaysHidden
        <5> QED BY <1>0, <1>2, <3>3, <5>1 DEF Kept, KeptByRefresh
      <4>3. CASE Missing(e.probe)
        BY <1>0, <1>2, <3>3, <4>3 DEF Missing, Kept, KeptByRefresh
      <4>4. CASE pc = "refresh" /\ e \in unread
        <5>1. KeptByRefresh(e.probe)
          BY <1>0, <3>3, <4>4 DEF HotplugInv, Kept
        <5>2. CASE \E d \in world : d.probe = e.probe /\ StaysHidden(d)
          <6>1. \A d \in world : StaysHidden(d) => StaysHidden(d)'
            BY <1>0, <2>0 DEF StaysHidden, PwmChips
          <6> QED BY <1>0, <1>2, <3>3, <5>2, <6>1 DEF Kept, KeptByRefresh
        <5>3. CASE e.probe \notin failed /\ \A d \in world : d.probe = e.probe => Agrees(d)
          <6>1. e \notin DOMAIN read
            BY <1>0, <4>4 DEF Shape, PollerSound
          <6>2. Agrees(e)'
            BY <2>0, <4>4, <6>1 DEF Agrees
          <6>3. \A d \in world \ {e} : d.probe = e.probe => Agrees(d)'
            BY <5>3 DEF Agrees
          <6> QED BY <1>0, <1>2, <3>3, <5>3, <6>2, <6>3 DEF Kept, KeptByRefresh
        <5>4. CASE e.probe \in failed /\ e.probe \in missed
          BY <1>0, <1>2, <3>3, <5>4 DEF Kept, KeptByRefresh
        <5> QED BY <3>3, <5>1, <5>2, <5>3, <5>4 DEF KeptByRefresh
      <4> QED BY <2>1, <3>3, <4>1, <4>2, <4>3, <4>4
    <3> QED BY <3>1, <3>2, <3>3
  <2>3. EntryKnown(e)'
    BY <1>0, <1>1, <1>2, <2>0 DEF HotplugInv, EntryKnown, ListKnown, ChipKnown
  <2> QED BY <1>a, <1>b, <2>2, <2>3
<1> QED BY <1>6, <1>7, <1>8

\* An event of a watched directory, as the watcher will see it.
Seen(q, new, path, ignored) ==
    /\ new \in Seq(QueueEvents)
    /\ \A k \in DOMAIN new : new[k].wd <= last_wd
    /\ \A k \in DOMAIN q : k \in DOMAIN new /\ new[k] = q[k]
    /\ \A k \in DOMAIN new : new[k].ignored =>
          \/ k \in DOMAIN q /\ new[k] = q[k]
          \/ ignored /\ kernel[path] # 0 /\ new[k].wd = kernel[path]
    /\ kernel[path] # 0 =>
          \E k \in DOMAIN new :
              \/ new[k] = Overflow
              \/ new[k].wd \in DOMAIN registrations /\ registrations[new[k].wd] = path

LEMMA EventQueued ==
    ASSUME Shape, NEW q \in Seq(QueueEvents), \A k \in DOMAIN q : q[k].wd <= last_wd,
           NEW path \in Paths, NEW ignored \in BOOLEAN
    PROVE  Seen(q, Queued(q, kernel[path], ignored), path, ignored)
<1> DEFINE new == Queued(q, kernel[path], ignored)
<1> DEFINE event == [wd |-> kernel[path], ignored |-> ignored]
<1>1. /\ kernel[path] \in 0 .. last_wd /\ last_wd \in Nat /\ kernel[path] \in Nat
      /\ kernel[path] # 0 =>
            kernel[path] \in DOMAIN registrations /\ registrations[kernel[path]] = path
  BY DEF Shape, MapsSound, KernelSound
<1>2. Grown(q, new, event)
  <2>1. kernel[path] \in Nat
    BY <1>1
  <2> QED BY <2>1, QueuedFacts
<1> HIDE DEF new
<1>3. Overflow.wd = 0 /\ Overflow.ignored = FALSE
      /\ event.wd = kernel[path] /\ event.ignored = ignored
  BY DEF Overflow
<1> HIDE DEF event
<1>4. \A k \in DOMAIN new : new[k].wd <= last_wd
  BY <1>1, <1>2, <1>3 DEF Grown
<1>5. ASSUME NEW k \in DOMAIN new, new[k].ignored
      PROVE  \/ k \in DOMAIN q /\ new[k] = q[k]
             \/ ignored /\ kernel[path] # 0 /\ new[k].wd = kernel[path]
  <2>1. CASE k \in DOMAIN q
    BY <1>2, <2>1 DEF Grown
  <2>2. CASE new[k] = event /\ kernel[path] # 0
    BY <1>3, <1>5, <2>2
  <2>3. CASE new[k] = Overflow
    BY <1>3, <1>5, <2>3
  <2> QED BY <1>2, <1>3, <2>1, <2>2, <2>3 DEF Grown
<1>6. kernel[path] # 0 =>
          \E k \in DOMAIN new :
              \/ new[k] = Overflow
              \/ new[k].wd \in DOMAIN registrations /\ registrations[new[k].wd] = path
  BY <1>1, <1>2, <1>3 DEF Grown
<1> QED BY <1>2, <1>4, <1>5, <1>6 DEF Grown, Seen, new

LEMMA CreateKeeps == ASSUME HotplugInv, NEW e \in world, Create(e) PROVE Shape' /\ HardwareOn(e)
<1> USE DEF Create, HardwareStep, Counted, watcherVars, refreshVars
<1>0. /\ Shape /\ e.root \in Paths /\ e.root \in RootsOf[e.probe] /\ e.probe \in Probes
      /\ queue \in Seq(QueueEvents) /\ \A k \in DOMAIN queue : queue[k].wd <= last_wd
  BY WorldFacts DEF HotplugInv, Shape, KernelSound
<1>1. Seen(queue, queue', e.root, FALSE)
  BY <1>0, EventQueued
<1>2. Shape'
  <2>1. PollerSound'
    BY <1>0 DEF Shape, PollerSound, PwmChips, Refreshing
  <2>2. MapsSound'
    BY <1>0 DEF Shape, MapsSound, Paths
  <2>3. KernelSound'
    <3>1. files' \in [world -> EntryStates \cup {"absent"}]
      BY <1>0 DEF Shape, KernelSound, EntryStates
    <3>2. \A d \in world :
              IF files'[d] = "absent" THEN kernel[PathOf(d)] = 0 ELSE d.root \in roots
      BY <1>0 DEF Shape, KernelSound
    <3>3. ASSUME NEW k \in DOMAIN queue', queue'[k].ignored
          PROVE  queue'[k].wd # 0 /\ \A path \in Paths : kernel[path] # queue'[k].wd
      <4>1. k \in DOMAIN queue /\ queue'[k] = queue[k]
        BY <1>1, <3>3 DEF Seen
      <4>2. queue[k].ignored
        BY <3>3, <4>1
      <4> QED BY <1>0, <4>1, <4>2 DEF Shape, KernelSound
    <3>4. /\ kernel \in [Paths -> 0 .. last_wd]
          /\ \A path \in Paths : kernel[path] # 0 =>
                path \in DOMAIN watched_paths /\ watched_paths[path] = kernel[path]
          /\ roots \subseteq {d.root : d \in world}
          /\ \A r \in roots : kernel[r] # 0 \/ r \in unwatched
      BY <1>0 DEF Shape, KernelSound
    <3> QED BY <1>1, <3>1, <3>2, <3>3, <3>4 DEF Seen, KernelSound, Paths
  <2> QED BY <1>0, <2>1, <2>2, <2>3 DEF Shape
<1>3. Told(e.probe)'
  <2>1. kernel[e.root] # 0 \/ e.root \in unwatched
    BY <1>0 DEF Shape, KernelSound
  <2> QED BY <1>0, <1>1, <2>1 DEF Seen, Told, Durable, OwnPath, RootUnwatched
<1>4. \A d \in world \ {e} : files'[d] = files[d] /\ kernel'[PathOf(d)] = kernel[PathOf(d)]
  BY <1>0 DEF Shape, KernelSound
<1> QED BY <1>1, <1>2, <1>3, <1>4 DEF Seen, HardwareOn

\* Populate and Alter: the files of an entry change, and its own watch, if it
\* has one, sees it.
LEMMA FilesKeep ==
    ASSUME HotplugInv, NEW e \in world, files[e] # "absent",
           NEW to \in EntryStates, Changed(e, to)
    PROVE  Shape' /\ HardwareOn(e)
<1> USE DEF Changed, watcherVars, refreshVars
<1>0. /\ Shape /\ PathOf(e) \in Paths /\ e.probe \in Probes
      /\ queue \in Seq(QueueEvents) /\ \A k \in DOMAIN queue : queue[k].wd <= last_wd
  BY WorldFacts DEF HotplugInv, Shape, KernelSound
<1>1. Seen(queue, queue', PathOf(e), FALSE)
  BY <1>0, EventQueued
<1>2. Shape'
  <2>1. PollerSound'
    BY <1>0 DEF Shape, PollerSound, PwmChips, Refreshing
  <2>2. MapsSound'
    BY <1>0 DEF Shape, MapsSound, Paths
  <2>3. KernelSound'
    <3>1. files' \in [world -> EntryStates \cup {"absent"}]
      BY <1>0 DEF Shape, KernelSound
    <3>2. \A d \in world :
              IF files'[d] = "absent" THEN kernel[PathOf(d)] = 0 ELSE d.root \in roots
      BY <1>0 DEF Shape, KernelSound, EntryStates
    <3>3. ASSUME NEW k \in DOMAIN queue', queue'[k].ignored
          PROVE  queue'[k].wd # 0 /\ \A path \in Paths : kernel[path] # queue'[k].wd
      <4>1. k \in DOMAIN queue /\ queue'[k] = queue[k]
        BY <1>1, <3>3 DEF Seen
      <4>2. queue[k].ignored
        BY <3>3, <4>1
      <4> QED BY <1>0, <4>1, <4>2 DEF Shape, KernelSound
    <3>4. /\ kernel \in [Paths -> 0 .. last_wd]
          /\ \A path \in Paths : kernel[path] # 0 =>
                path \in DOMAIN watched_paths /\ watched_paths[path] = kernel[path]
          /\ roots \subseteq {d.root : d \in world}
          /\ \A r \in roots : kernel[r] # 0 \/ r \in unwatched
      BY <1>0 DEF Shape, KernelSound
    <3> QED BY <1>1, <3>1, <3>2, <3>3, <3>4 DEF Seen, KernelSound, Paths
  <2> QED BY <1>0, <2>1, <2>2, <2>3 DEF Shape
<1>3. files'[e] = to /\ files'[e] # "absent"
  BY <1>0 DEF Shape, KernelSound, EntryStates
<1>4. \/ Told(e.probe)'
      \/ kernel[PathOf(e)] = 0
  <2>1. OwnPath(e.probe, PathOf(e))'
    BY <1>3 DEF OwnPath
  <2> QED BY <1>1, <2>1 DEF Seen, Told, Durable
<1>5. \A d \in world \ {e} : files'[d] = files[d] /\ kernel'[PathOf(d)] = kernel[PathOf(d)]
  BY <1>0 DEF Shape, KernelSound
<1>6. kernel' = kernel /\ kernel[PathOf(e)] = 0 => Unseen(e)
  BY <1>3 DEF Unseen
<1> QED BY <1>1, <1>2, <1>3, <1>4, <1>5, <1>6 DEF Seen, HardwareOn

LEMMA UnplugKeeps == ASSUME HotplugInv, NEW e \in world, Unplug(e) PROVE Shape' /\ HardwareOn(e)
<1> USE DEF Unplug, HardwareStep, Counted, watcherVars, refreshVars
<1> DEFINE path == PathOf(e)
           between == Queued(queue, kernel[e.root], FALSE)
<1>0. /\ Shape /\ path \in Paths /\ e.root \in Paths /\ e.root # path
      /\ e.root \in RootsOf[e.probe] /\ e.probe \in Probes
      /\ queue \in Seq(QueueEvents) /\ \A k \in DOMAIN queue : queue[k].wd <= last_wd
  BY WorldFacts DEF HotplugInv, Shape, KernelSound
<1>1. Seen(queue, between, e.root, FALSE)
  BY <1>0, EventQueued
<1>2. Seen(between, queue', path, TRUE)
  <2>1. between \in Seq(QueueEvents) /\ \A k \in DOMAIN between : between[k].wd <= last_wd
    BY <1>1 DEF Seen
  <2>2. queue' = Queued(between, kernel[path], TRUE)
    OBVIOUS
  <2> QED BY <1>0, <2>1, <2>2, EventQueued
<1> HIDE DEF between
<1>3. Shape'
  <2>1. PollerSound'
    BY <1>0 DEF Shape, PollerSound, PwmChips, Refreshing
  <2>2. MapsSound'
    BY <1>0 DEF Shape, MapsSound, Paths
  <2>3. KernelSound'
    <3>1. kernel' \in [Paths -> 0 .. last_wd] /\ files' \in [world -> EntryStates \cup {"absent"}]
      BY <1>0 DEF Shape, MapsSound, KernelSound
    <3>2. \A d \in world :
              IF files'[d] = "absent" THEN kernel'[PathOf(d)] = 0 ELSE d.root \in roots
      BY <1>0 DEF Shape, KernelSound
    <3>3. ASSUME NEW k \in DOMAIN queue', queue'[k].ignored, NEW other \in Paths
          PROVE  queue'[k].wd # 0 /\ kernel'[other] # queue'[k].wd
      <4>1. kernel'[other] = IF other = path THEN 0 ELSE kernel[other]
        BY <1>0 DEF Shape, KernelSound
      <4>2. CASE k \in DOMAIN between /\ queue'[k] = between[k]
        <5>1. k \in DOMAIN queue /\ between[k] = queue[k]
          BY <1>1, <3>3, <4>2 DEF Seen
        <5>2. queue[k].ignored
          BY <3>3, <4>2, <5>1
        <5>3. kernel[other] # queue[k].wd /\ queue[k].wd # 0
          BY <1>0, <5>1, <5>2 DEF Shape, KernelSound
        <5> QED BY <4>1, <4>2, <5>1, <5>3
      <4>3. CASE kernel[path] # 0 /\ queue'[k].wd = kernel[path]
        <5>1. other # path => kernel[other] # kernel[path]
          BY <1>0, <4>3 DEF Shape, MapsSound, KernelSound
        <5> QED BY <4>1, <4>3, <5>1
      <4> QED BY <1>2, <3>3, <4>2, <4>3 DEF Seen
    <3>4. /\ \A other \in Paths : kernel'[other] # 0 =>
                other \in DOMAIN watched_paths /\ watched_paths[other] = kernel'[other]
          /\ roots \subseteq {d.root : d \in world}
      BY <1>0 DEF Shape, KernelSound
    <3>5. ASSUME NEW r \in roots PROVE kernel'[r] # 0 \/ r \in unwatched
      <4>1. r \in Paths /\ r # path
        BY <1>0, WorldFacts DEF Shape, KernelSound
      <4> QED BY <1>0, <4>1 DEF Shape, KernelSound
    <3> QED BY <1>2, <3>1, <3>2, <3>3, <3>4, <3>5 DEF Seen, KernelSound, Paths, histories
  <2> QED BY <1>0, <2>1, <2>2, <2>3 DEF Shape
<1>4. Told(e.probe)'
  <2>1. kernel[e.root] # 0 \/ e.root \in unwatched
    BY <1>0 DEF Shape, KernelSound
  <2>2. CASE e.root \in unwatched
    BY <1>0, <2>2 DEF Told, RootUnwatched
  <2>3. CASE kernel[e.root] # 0
    <3>1. PICK k \in DOMAIN between :
              \/ between[k] = Overflow
              \/ between[k].wd \in DOMAIN registrations /\ registrations[between[k].wd] = e.root
      BY <1>1, <2>3 DEF Seen
    <3>2. k \in DOMAIN queue' /\ queue'[k] = between[k]
      BY <1>2 DEF Seen
    <3> QED BY <1>0, <3>1, <3>2 DEF Told, Durable, OwnPath
  <2> QED BY <2>1, <2>2, <2>3
<1>5. \A d \in world \ {e} : files'[d] = files[d] /\ kernel'[PathOf(d)] = kernel[PathOf(d)]
  BY <1>0, WorldFacts DEF Shape, KernelSound
<1>6. kernel'[path] = 0
  BY <1>0 DEF Shape, KernelSound
<1>7. \A k \in DOMAIN queue : k \in DOMAIN queue' /\ queue'[k] = queue[k]
  BY <1>1, <1>2 DEF Seen
<1> QED BY <1>3, <1>4, <1>5, <1>6, <1>7 DEF HardwareOn

LEMMA RemoveRootKeeps ==
    ASSUME HotplugInv, NEW e \in world, RemoveRoot(e.root) PROVE Shape' /\ HardwareOn(e)
<1> USE DEF RemoveRoot, HardwareStep, Counted, watcherVars, refreshVars
<1> DEFINE r == e.root
<1>0. /\ Shape /\ r \in Paths /\ r \in RootsOf[e.probe] /\ e.probe \in Probes
      /\ \A d \in world : PathOf(d) # r /\ PathOf(d) \in Paths
      /\ queue \in Seq(QueueEvents) /\ \A k \in DOMAIN queue : queue[k].wd <= last_wd
  BY WorldFacts DEF HotplugInv, Shape, KernelSound
<1>1. Seen(queue, queue', r, TRUE)
  BY <1>0, EventQueued
<1>2. \A d \in world : kernel'[PathOf(d)] = kernel[PathOf(d)]
  BY <1>0 DEF Shape, KernelSound
<1>3. Shape'
  <2>1. PollerSound'
    BY <1>0 DEF Shape, PollerSound, PwmChips, Refreshing
  <2>2. MapsSound'
    BY <1>0 DEF Shape, MapsSound, Paths
  <2>3. KernelSound'
    <3>1. kernel' \in [Paths -> 0 .. last_wd]
      BY <1>0 DEF Shape, MapsSound, KernelSound
    <3>2. \A d \in world :
              IF files[d] = "absent" THEN kernel'[PathOf(d)] = 0 ELSE d.root \in roots'
      BY <1>0, <1>2 DEF Shape, KernelSound, Present
    <3>3. ASSUME NEW k \in DOMAIN queue', queue'[k].ignored, NEW other \in Paths
          PROVE  queue'[k].wd # 0 /\ kernel'[other] # queue'[k].wd
      <4>1. kernel'[other] = IF other = r THEN 0 ELSE kernel[other]
        BY <1>0 DEF Shape, KernelSound
      <4>2. CASE k \in DOMAIN queue /\ queue'[k] = queue[k]
        <5>1. queue[k].ignored
          BY <3>3, <4>2
        <5>2. kernel[other] # queue[k].wd /\ queue[k].wd # 0
          BY <1>0, <4>2, <5>1 DEF Shape, KernelSound
        <5> QED BY <4>1, <4>2, <5>2
      <4>3. CASE kernel[r] # 0 /\ queue'[k].wd = kernel[r]
        <5>1. other # r => kernel[other] # kernel[r]
          BY <1>0, <4>3 DEF Shape, MapsSound, KernelSound
        <5> QED BY <4>1, <4>3, <5>1
      <4> QED BY <1>1, <3>3, <4>2, <4>3 DEF Seen
    <3>4. /\ \A other \in Paths : kernel'[other] # 0 =>
                other \in DOMAIN watched_paths /\ watched_paths[other] = kernel'[other]
          /\ roots' \subseteq {d.root : d \in world}
          /\ \A t \in roots' : kernel'[t] # 0 \/ t \in unwatched
          /\ files \in [world -> EntryStates \cup {"absent"}]
      BY <1>0 DEF Shape, KernelSound, Paths
    <3> QED BY <1>1, <3>1, <3>2, <3>3, <3>4 DEF Seen, KernelSound, Paths
  <2> QED BY <1>0, <2>1, <2>2, <2>3 DEF Shape
<1>4. \A k \in DOMAIN queue : k \in DOMAIN queue' /\ queue'[k] = queue[k]
  BY <1>1 DEF Seen
<1> QED BY <1>2, <1>3, <1>4 DEF HardwareOn

LEMMA CreateRootKeeps ==
    ASSUME HotplugInv, NEW e \in world, CreateRoot(e.root) PROVE Shape' /\ HardwareOn(e)
<1> USE DEF CreateRoot, HardwareStep, Counted, watcherVars, refreshVars
<1>1. Shape
  BY DEF HotplugInv
<1>2. PollerSound'
  BY <1>1 DEF Shape, PollerSound, PwmChips, Refreshing
<1>3. MapsSound'
  BY <1>1 DEF Shape, MapsSound, Paths
<1>4. KernelSound'
  <2>1. \A d \in world :
            IF files[d] = "absent" THEN kernel[PathOf(d)] = 0 ELSE d.root \in roots'
    BY <1>1 DEF Shape, KernelSound
  <2> QED BY <1>1, <2>1 DEF Shape, KernelSound, Paths
<1> QED BY <1>1, <1>2, <1>3, <1>4 DEF Shape, HardwareOn

LEMMA HardwareInv == HotplugInv /\ Hardware => HotplugInv'
<1> SUFFICES ASSUME HotplugInv, Hardware PROVE HotplugInv'
  OBVIOUS
<1>1. \E e \in world : Shape' /\ HardwareOn(e)
  <2>1. ASSUME NEW e \in world, Create(e) PROVE Shape' /\ HardwareOn(e)
    BY <2>1, CreateKeeps
  <2>2. ASSUME NEW e \in world, Unplug(e) PROVE Shape' /\ HardwareOn(e)
    BY <2>2, UnplugKeeps
  <2>3. ASSUME NEW e \in world, Populate(e) PROVE Shape' /\ HardwareOn(e)
    BY <2>3, FilesKeep DEF Populate, EntryStates
  <2>4. ASSUME NEW e \in world, Alter(e) PROVE Shape' /\ HardwareOn(e)
    <3> DEFINE to == IF files[e] = "ready" THEN "altered" ELSE "ready"
    <3>1. to \in EntryStates /\ files[e] # "absent" /\ Changed(e, to)
      BY <2>4 DEF Alter, EntryStates
    <3> HIDE DEF to
    <3> QED BY <3>1, FilesKeep
  <2>5. ASSUME NEW e \in world, RemoveRoot(e.root) PROVE Shape' /\ HardwareOn(e)
    BY <2>5, RemoveRootKeeps
  <2>6. ASSUME NEW e \in world, CreateRoot(e.root) PROVE Shape' /\ HardwareOn(e)
    BY <2>6, CreateRootKeeps
  <2> QED BY <2>1, <2>2, <2>3, <2>4, <2>5, <2>6 DEF Hardware
<1>2. PICK e \in world : Shape' /\ HardwareOn(e)
  BY <1>1
<1>3. world' = world
  BY <1>2 DEF HardwareOn
<1> QED BY <1>2, <1>3, HardwareKeeps DEF HotplugInv

-----------------------------------------------------------------------------
(* Keeping the watches                                                      *)

LEMMA UnwatchedSound ==
    ASSUME Shape, NEW paths, SetMaps(Unwatched(Maps, paths)), UNCHANGED <<world, last_wd>>
    PROVE  /\ MapsSound'
           /\ DOMAIN watched_paths' = DOMAIN watched_paths \ paths
           /\ \A path \in DOMAIN watched_paths' : watched_paths'[path] = watched_paths[path]
           /\ \A wd \in DOMAIN registrations : registrations[wd] \notin paths =>
                 wd \in DOMAIN registrations' /\ registrations'[wd] = registrations[wd]
<1>1. /\ watched_paths' = [path \in DOMAIN watched_paths \ paths |-> watched_paths[path]]
      /\ registrations' = [wd \in {w \in DOMAIN registrations : registrations[w] \notin paths} |->
                              registrations[wd]]
  BY DEF SetMaps, Unwatched, Maps
<1>2. MapsSound
  BY DEF Shape
<1>3. MapsSound'
  BY <1>1, <1>2 DEF MapsSound, Paths
<1> QED BY <1>1, <1>3

\* A step of the poller that leaves the registrations of own paths alone.
LEMMA PollerLasting ==
    ASSUME UNCHANGED <<world, files, queue, unwatched>>,
           \A wd \in DOMAIN registrations :
               (\E p \in Probes : OwnPath(p, registrations[wd])) =>
                   wd \in DOMAIN registrations' /\ registrations'[wd] = registrations[wd],
           \A d \in world : DeadWatch(d) => DeadWatch(d)',
           NEW p \in Probes
    PROVE  /\ Told(p) => Told(p)'
           /\ Lasting(p) => Lasting(p)'
<1>1. \A path : OwnPath(p, path) => OwnPath(p, path)'
  BY DEF OwnPath
<1>2. Durable(p) => Durable(p)'
  <2> SUFFICES ASSUME Durable(p) PROVE Durable(p)'
    OBVIOUS
  <2>1. PICK k \in DOMAIN queue :
            \/ queue[k] = Overflow
            \/ queue[k].wd \in DOMAIN registrations /\ OwnPath(p, registrations[queue[k].wd])
    BY DEF Durable
  <2>2. CASE queue[k] = Overflow
    BY <2>2 DEF Durable
  <2>3. CASE queue[k].wd \in DOMAIN registrations /\ OwnPath(p, registrations[queue[k].wd])
    <3>1. /\ queue[k].wd \in DOMAIN registrations'
          /\ registrations'[queue[k].wd] = registrations[queue[k].wd]
      BY <2>3
    <3> QED BY <1>1, <2>3, <3>1 DEF Durable
  <2> QED BY <2>1, <2>2, <2>3
<1>3. RootUnwatched(p) => RootUnwatched(p)'
  BY DEF RootUnwatched
<1> QED BY <1>2, <1>3 DEF Told, Lasting

LEMMA ActualSame ==
    ASSUME UNCHANGED <<world, files>>, NEW p PROVE Actual(p)' = Actual(p)
BY DEF Actual, Present

LEMMA ListChipsInv == HotplugInv /\ ListChips => HotplugInv'
<1> SUFFICES ASSUME HotplugInv, ListChips PROVE HotplugInv'
  OBVIOUS
<1> USE DEF ListChips, hardwareVars, kernelVars, refreshVars, histories
<1> DEFINE gone == Stale
<1>0. /\ Shape /\ world' = world /\ files' = files
      /\ PwmChips' = PwmChips /\ \A e \in PwmChips : e \in world /\ e.probe = "pwm"
      /\ \A e \in world : e.probe \in Probes /\ PathOf(e) \in Paths
      /\ \A d, e \in world : PathOf(d) = PathOf(e) => d = e
      /\ \A p \in Probes : \A r \in RootsOf[p] : r \notin gone
  BY WorldFacts DEF HotplugInv, Shape, PwmChips, Stale
<1>1. \A e \in world : files[e] # "absent" => PathOf(e) \notin gone
  BY <1>0 DEF Present, Stale
<1>2. /\ MapsSound'
      /\ DOMAIN watched_paths' = DOMAIN watched_paths \ gone
      /\ \A path \in DOMAIN watched_paths' : watched_paths'[path] = watched_paths[path]
      /\ \A wd \in DOMAIN registrations : registrations[wd] \notin gone =>
            wd \in DOMAIN registrations' /\ registrations'[wd] = registrations[wd]
  BY <1>0, UnwatchedSound
<1>3. \A path \in gone : path \in Paths /\ kernel[path] = 0
  BY <1>0 DEF Shape, KernelSound, Present, Stale
<1> HIDE DEF gone
<1>4. Shape'
  <2>1. PollerSound'
    BY <1>0 DEF Shape, PollerSound, Present, Refreshing
  <2>2. KernelSound'
    BY <1>0, <1>2, <1>3 DEF Shape, KernelSound, Paths
  <2> QED BY <1>0, <1>2, <2>1, <2>2 DEF Shape
<1>5. ASSUME NEW p \in Probes PROVE (Told(p) => Told(p)') /\ (Lasting(p) => Lasting(p)')
  <2>1. \A q \in Probes : \A path : OwnPath(q, path) => path \notin gone
    BY <1>0, <1>1 DEF OwnPath
  <2>2. \A d \in world : DeadWatch(d) => DeadWatch(d)'
    BY <1>0, <1>1, <1>2 DEF DeadWatch
  <2> QED BY <1>0, <1>2, <2>1, <2>2, PollerLasting
<1>6. \A p : Refreshing(p)' <=> Refreshing(p)
  BY DEF Refreshing
<1>7. ASSUME NEW p \in Probes PROVE Kept(p)'
  BY <1>0, <1>5, <1>6, ActualSame DEF HotplugInv, Kept, KeptByEvents
<1>8. ASSUME NEW e \in world PROVE EntryKnown(e)'
  <2>1. Missing(e.probe)' <=> Missing(e.probe)
    BY <1>6 DEF Missing
  <2>2. ListKnown(e)'
    BY DEF ListKnown
  <2>3. ChipKnown(e)'
    <3> SUFFICES ASSUME e \in PwmChips, files[e] # "absent", PathOf(e) \notin DOMAIN watched_paths'
                 PROVE  ChipKnown(e)'
      BY <1>0 DEF ChipKnown
    <3>1. PathOf(e) \notin DOMAIN watched_paths
      BY <1>1, <1>2
    <3>2. CASE pc = "relist"
      BY <3>2 DEF ChipKnown, Present
    <3>3. CASE pc = "idle"
      BY <1>0, <1>5, <2>1, <3>1, <3>3 DEF HotplugInv, EntryKnown, ChipKnown
    <3> QED BY <3>2, <3>3
  <2> QED BY <2>2, <2>3 DEF EntryKnown
<1> QED BY <1>0, <1>4, <1>7, <1>8 DEF HotplugInv

LEMMA WatchChipInv == ASSUME HotplugInv, NEW e \in PwmChips, WatchChip(e) PROVE HotplugInv'
<1> USE DEF WatchChip, hardwareVars, refreshVars, histories
<1> DEFINE path == PathOf(e)
<1>0. /\ Shape /\ world' = world /\ files' = files /\ e \in world
      /\ PwmChips' = PwmChips /\ path \in Paths
      /\ \A d \in world : d.probe \in Probes /\ PathOf(d) \in Paths
      /\ \A d, c \in world : PathOf(d) = PathOf(c) => d = c
      /\ pc \in {"sync", "resync"} /\ pc' = pc /\ touched' = touched
  BY WorldFacts DEF HotplugInv, Shape, PwmChips
<1>1. /\ MapsSound /\ last_wd \in Nat /\ last_wd' = last_wd + 1
      /\ path \notin DOMAIN watched_paths /\ last_wd' \notin DOMAIN registrations
  BY <1>0 DEF Shape, MapsSound
<1>2. /\ DOMAIN watched_paths' = DOMAIN watched_paths \cup {path}
      /\ watched_paths'[path] = last_wd'
      /\ \A other \in DOMAIN watched_paths : watched_paths'[other] = watched_paths[other]
  BY <1>1
<1>3. /\ DOMAIN registrations' = DOMAIN registrations \cup {last_wd'}
      /\ registrations'[last_wd'] = path
      /\ \A wd \in DOMAIN registrations : registrations'[wd] = registrations[wd]
  BY <1>1
<1>4. /\ kernel' \in [Paths -> 0 .. last_wd'] /\ kernel'[path] = last_wd'
      /\ \A other \in Paths \ {path} : kernel'[other] = kernel[other]
  BY <1>0, <1>1 DEF Shape, KernelSound
<1>5. Shape'
  <2>1. PollerSound'
    BY <1>0 DEF Shape, PollerSound, Refreshing
  <2>2. MapsSound'
    <3>1. \A other \in DOMAIN watched_paths' :
              /\ watched_paths'[other] \in DOMAIN registrations'
              /\ registrations'[watched_paths'[other]] = other
      BY <1>1, <1>2, <1>3 DEF MapsSound
    <3>2. \A wd \in DOMAIN registrations' :
              /\ wd \in 1 .. last_wd'
              /\ registrations'[wd] \in DOMAIN watched_paths'
              /\ watched_paths'[registrations'[wd]] = wd
      BY <1>1, <1>2, <1>3 DEF MapsSound
    <3>3. DOMAIN watched_paths' \subseteq Paths'
      BY <1>0, <1>1, <1>2 DEF MapsSound, Paths
    <3> QED BY <1>1, <3>1, <3>2, <3>3 DEF MapsSound
  <2>3. KernelSound'
    <3>1. \A k \in DOMAIN queue : queue[k].wd <= last_wd' /\ queue[k].wd # last_wd'
      <4>1. queue \in Seq(QueueEvents) /\ \A k \in DOMAIN queue : queue[k].wd <= last_wd
        BY <1>0 DEF Shape, KernelSound
      <4>2. \A k \in DOMAIN queue : queue[k] \in QueueEvents
        BY <4>1
      <4>3. \A k \in DOMAIN queue : queue[k].wd \in Nat
        BY <4>2 DEF QueueEvents
      <4> QED BY <1>1, <4>1, <4>3
    <3>2. \A k \in DOMAIN queue : queue[k].ignored =>
              queue[k].wd # 0 /\ \A other \in Paths : kernel'[other] # queue[k].wd
      BY <1>0, <1>4, <3>1 DEF Shape, KernelSound
    <3>3. \A other \in Paths : kernel'[other] # 0 =>
              other \in DOMAIN watched_paths' /\ watched_paths'[other] = kernel'[other]
      BY <1>0, <1>2, <1>4 DEF Shape, KernelSound
    <3>4. roots \subseteq Paths /\ \A r \in roots : kernel'[r] # 0 \/ r \in unwatched
      BY <1>0, <1>1, <1>4 DEF Shape, KernelSound, Paths
    <3>5. \A d \in world :
              IF files[d] = "absent" THEN kernel'[PathOf(d)] = 0 ELSE d.root \in roots
      BY <1>0, <1>4 DEF Shape, KernelSound
    <3> QED BY <1>0, <1>4, <3>1, <3>2, <3>3, <3>4, <3>5 DEF Shape, KernelSound, Paths
  <2> QED BY <1>0, <2>1, <2>2, <2>3 DEF Shape
<1>6. ASSUME NEW p \in Probes PROVE (Told(p) => Told(p)') /\ (Lasting(p) => Lasting(p)')
  <2>1. \A d \in world : DeadWatch(d) => DeadWatch(d)'
    BY <1>0, <1>1, <1>2, <1>4 DEF DeadWatch
  <2> QED BY <1>0, <1>3, <2>1, PollerLasting
<1>7. \A p : (Refreshing(p)' <=> Refreshing(p)) /\ (Missing(p)' <=> Missing(p))
  BY DEF Refreshing, Missing
<1>8. ASSUME NEW p \in Probes PROVE Kept(p)'
  BY <1>0, <1>6, <1>7, ActualSame DEF HotplugInv, Kept, KeptByEvents
<1>9. ASSUME NEW d \in world PROVE EntryKnown(d)'
  <2>1. ListKnown(d)'
    BY <1>0 DEF ListKnown
  <2>2. ChipKnown(d)'
    BY <1>0, <1>2, <1>6, <1>7 DEF HotplugInv, EntryKnown, ChipKnown
  <2> QED BY <2>1, <2>2 DEF EntryKnown
<1> QED BY <1>0, <1>5, <1>8, <1>9 DEF HotplugInv

LEMMA ChipGoneInv == ASSUME HotplugInv, NEW e \in PwmChips, ChipGone(e) PROVE HotplugInv'
<1> USE DEF ChipGone, hardwareVars, kernelVars, refreshVars, histories
<1>0. /\ Shape /\ world' = world /\ files' = files
      /\ PwmChips' = PwmChips /\ files[e] = "absent"
      /\ \A d \in world : d.probe \in Probes
      /\ pc \in {"sync", "resync"} /\ pc' = pc
      /\ registrations' = registrations /\ watched_paths' = watched_paths
  BY WorldFacts DEF HotplugInv, Shape, PwmChips
<1>2. Shape'
  <2>1. PollerSound'
    BY <1>0 DEF Shape, PollerSound, Refreshing
  <2>2. MapsSound'
    BY <1>0 DEF Shape, MapsSound, Paths
  <2>3. KernelSound'
    BY <1>0 DEF Shape, KernelSound, Paths
  <2> QED BY <1>0, <2>1, <2>2, <2>3 DEF Shape
<1>3. ASSUME NEW p \in Probes PROVE (Told(p) => Told(p)') /\ (Lasting(p) => Lasting(p)')
  <2>1. \A d \in world : DeadWatch(d) => DeadWatch(d)'
    BY <1>0 DEF DeadWatch
  <2> QED BY <1>0, <2>1, PollerLasting
<1>4. \A p : (Refreshing(p)' <=> Refreshing(p)) /\ (Missing(p)' <=> Missing(p))
  BY DEF Refreshing, Missing
<1>5. ASSUME NEW p \in Probes PROVE Kept(p)'
  BY <1>0, <1>3, <1>4, ActualSame DEF HotplugInv, Kept, KeptByEvents
<1>6. ASSUME NEW d \in world PROVE EntryKnown(d)'
  <2>1. ListKnown(d)'
    BY <1>0 DEF ListKnown
  <2>2. ChipKnown(d)'
    BY <1>0, <1>3, <1>4 DEF HotplugInv, EntryKnown, ChipKnown
  <2> QED BY <2>1, <2>2 DEF EntryKnown
<1> QED BY <1>0, <1>2, <1>5, <1>6 DEF HotplugInv

\* The registrations are what they were, but for some of stale chips.
StaleOnly ==
    /\ MapsSound'
    /\ DOMAIN watched_paths' \subseteq DOMAIN watched_paths
    /\ \A path \in DOMAIN watched_paths' : watched_paths'[path] = watched_paths[path]
    /\ \A path \in DOMAIN watched_paths : path \in DOMAIN watched_paths' \/ path \in Stale
    /\ \A wd \in DOMAIN registrations : registrations[wd] \notin Stale =>
          wd \in DOMAIN registrations' /\ registrations'[wd] = registrations[wd]

\* A poll that fails loses what it has read, and nothing else.
LEMMA PollFailsInv == HotplugInv /\ PollFails /\ StaleOnly /\ pc # "refresh" => HotplugInv'
<1> SUFFICES ASSUME HotplugInv, PollFails, StaleOnly, pc # "refresh" PROVE HotplugInv'
  OBVIOUS
<1> USE DEF PollFails, hardwareVars, kernelVars, refreshVars
<1>0. /\ Shape /\ world' = world /\ files' = files /\ kernel' = kernel
      /\ PwmChips' = PwmChips /\ \A e \in PwmChips : e \in world /\ e.probe = "pwm"
      /\ \A e \in world : e.probe \in Probes /\ PathOf(e) \in Paths
      /\ \A p \in Probes : \A r \in RootsOf[p] : r \notin Stale
      /\ \A d, e \in world : PathOf(d) = PathOf(e) => d = e
  BY WorldFacts DEF HotplugInv, Shape, PwmChips, Stale
<1>1. \A e \in world : files[e] # "absent" => PathOf(e) \notin Stale
  BY <1>0 DEF Present, Stale
<1>2. \A path \in Stale : path \in Paths /\ kernel[path] = 0
  BY <1>0 DEF Shape, KernelSound, Present, Stale
<1>3. Shape'
  <2>1. PollerSound'
    BY <1>0 DEF Shape, PollerSound
  <2>2. KernelSound'
    BY <1>0, <1>2 DEF Shape, KernelSound, Paths, StaleOnly
  <2> QED BY <1>0, <2>1, <2>2 DEF Shape, StaleOnly
<1>4. ASSUME NEW p \in Probes PROVE (Told(p) => Told(p)') /\ (Lasting(p) => Lasting(p)')
  <2>1. \A q \in Probes : \A path : OwnPath(q, path) => path \notin Stale
    BY <1>0, <1>1 DEF OwnPath
  <2>2. \A d \in world : DeadWatch(d) => DeadWatch(d)'
    BY <1>0, <1>1 DEF DeadWatch, StaleOnly
  <2>3. \A wd \in DOMAIN registrations : registrations[wd] \notin Stale =>
            wd \in DOMAIN registrations' /\ registrations'[wd] = registrations[wd]
    BY DEF StaleOnly
  <2> QED BY <1>0, <2>1, <2>2, <2>3, PollerLasting
<1>5. ASSUME NEW p \in Probes
      PROVE  /\ ~ Refreshing(p)'
             /\ p \in missed \/ Refreshing(p) => p \in missed'
             /\ Missing(p) => Missing(p)'
  BY DEF Refreshing, Missing
<1>6. ASSUME NEW p \in Probes PROVE Kept(p)'
  <2>1. CASE Refreshing(p)
    BY <1>5, <2>1 DEF Kept, KeptByEvents
  <2>2. CASE ~ Refreshing(p)
    BY <1>0, <1>4, <1>5, <2>2, ActualSame DEF HotplugInv, Kept, KeptByEvents
  <2> QED BY <2>1, <2>2
<1>7. ASSUME NEW d \in world PROVE EntryKnown(d)'
  <2>1. ListKnown(d)'
    BY DEF ListKnown
  <2>2. ChipKnown(d)'
    <3> SUFFICES ASSUME d \in PwmChips, files[d] # "absent", PathOf(d) \notin DOMAIN watched_paths'
                 PROVE  ChipKnown(d)'
      BY <1>0 DEF ChipKnown
    <3>1. d.probe = "pwm" /\ PathOf(d) \notin DOMAIN watched_paths
      BY <1>0, <1>1 DEF StaleOnly
    <3>2. pc \in {"relist", "resync"} => Missing(d.probe)'
      <4>1. pc \in {"relist", "resync"} => Refreshing(d.probe)
        BY <1>0, <3>1, RootFacts DEF Shape, PollerSound, Refreshing
      <4> QED BY <1>0, <1>5, <4>1 DEF Missing
    <3> QED BY <1>0, <1>4, <1>5, <3>1, <3>2 DEF HotplugInv, EntryKnown, ChipKnown
  <2> QED BY <2>1, <2>2 DEF EntryKnown
<1> QED BY <1>0, <1>3, <1>6, <1>7 DEF HotplugInv

LEMMA MapsStay ==
    ASSUME HotplugInv, UNCHANGED <<world, last_wd, watched_paths, registrations>>
    PROVE  StaleOnly
<1>1. MapsSound'
  BY DEF HotplugInv, Shape, MapsSound, Paths
<1> QED BY <1>1 DEF StaleOnly

LEMMA ListFailsInv == HotplugInv /\ ListFails => HotplugInv'
<1> SUFFICES ASSUME HotplugInv, ListFails PROVE HotplugInv'
  OBVIOUS
<1>1. PollFails /\ pc # "refresh" /\ UNCHANGED <<world, last_wd>>
  BY DEF ListFails, PollFails, hardwareVars, kernelVars
<1>2. PICK paths \in SUBSET (Stale \cap DOMAIN watched_paths) : SetMaps(Unwatched(Maps, paths))
  BY DEF ListFails
<1>3. /\ MapsSound'
      /\ DOMAIN watched_paths' = DOMAIN watched_paths \ paths
      /\ \A path \in DOMAIN watched_paths' : watched_paths'[path] = watched_paths[path]
      /\ \A wd \in DOMAIN registrations : registrations[wd] \notin paths =>
            wd \in DOMAIN registrations' /\ registrations'[wd] = registrations[wd]
  BY <1>1, <1>2, UnwatchedSound DEF HotplugInv
<1>4. StaleOnly
  BY <1>2, <1>3 DEF StaleOnly
<1> QED BY <1>1, <1>4, PollFailsInv

LEMMA WatchFailsInv == ASSUME HotplugInv, NEW e \in PwmChips, WatchFails(e) PROVE HotplugInv'
<1>1. PollFails /\ pc # "refresh"
  BY DEF WatchFails
<1>2. UNCHANGED <<world, last_wd, watched_paths, registrations>>
  BY DEF WatchFails, PollFails, hardwareVars, kernelVars
<1> QED BY <1>1, <1>2, MapsStay, PollFailsInv

LEMMA SyncDoneInv == HotplugInv /\ SyncDone => HotplugInv'
<1> SUFFICES ASSUME HotplugInv, SyncDone PROVE HotplugInv'
  OBVIOUS
<1> USE DEF SyncDone, hardwareVars, kernelVars, histories
<1>0. /\ Shape /\ world' = world /\ files' = files
      /\ PwmChips' = PwmChips
      /\ \A d \in world : d.probe \in Probes
      /\ \A d \in PwmChips : d.probe = "pwm"
      /\ registrations' = registrations /\ watched_paths' = watched_paths
  BY WorldFacts DEF HotplugInv, Shape, PwmChips
<1>1. /\ touched \subseteq Interfaces /\ unread = {} /\ failed = {} /\ failed' = {}
      /\ pc = "sync" => touched = {}
      /\ pc = "resync" => "Pwm" \in touched
  BY <1>0 DEF Shape, PollerSound, BeginRefresh
<1>2. Shape'
  <2>1. PollerSound'
    BY <1>0, <1>1 DEF Shape, PollerSound, BeginRefresh, Present, Refreshing
  <2>2. MapsSound'
    BY <1>0 DEF Shape, MapsSound, Paths
  <2>3. KernelSound'
    BY <1>0 DEF Shape, KernelSound, Paths
  <2> QED BY <1>0, <2>1, <2>2, <2>3 DEF Shape
<1>3. ASSUME NEW p \in Probes PROVE (Told(p) => Told(p)') /\ (Lasting(p) => Lasting(p)')
  <2>1. \A d \in world : DeadWatch(d) => DeadWatch(d)'
    BY <1>0 DEF DeadWatch
  <2> QED BY <1>0, <2>1, PollerLasting
<1>4. \A p : (Refreshing(p)' <=> Refreshing(p)) /\ (Missing(p)' <=> Missing(p))
  BY <1>1 DEF Refreshing, Missing
<1>5. ASSUME NEW p \in Probes PROVE Kept(p)'
  <2>1. ASSUME Refreshing(p), pc' = "refresh" PROVE KeptByRefresh(p)'
    <3>1. unread' = {e \in Present : InterfaceOf[e.probe] \in touched} /\ read' = <<>>
      BY <2>1 DEF BeginRefresh
    <3>2. \A d \in world : d.probe = p => Agrees(d)'
      BY <1>0, <2>1, <3>1 DEF Agrees, Present, Refreshing
    <3> QED BY <1>0, <1>1, <3>2 DEF KeptByRefresh
  <2>2. ASSUME ~ Refreshing(p) PROVE KeptByEvents(p)'
    BY <1>0, <1>3, <2>2, ActualSame DEF HotplugInv, Kept, KeptByEvents
  <2> QED BY <1>4, <2>1, <2>2 DEF Kept
<1>6. ASSUME NEW d \in world PROVE EntryKnown(d)'
  <2>1. ListKnown(d)'
    <3>1. CASE pc = "sync"
      BY <3>1 DEF ListKnown
    <3>2. CASE pc = "resync"
      <4>1. unread' = {c \in Present : InterfaceOf[c.probe] \in touched}
        BY <3>2 DEF BeginRefresh
      <4>2. files[d] # "absent" /\ Refreshing(d.probe) => d \in unread'
        BY <4>1 DEF Present, Refreshing
      <4> QED BY <1>0, <1>4, <4>2 DEF ListKnown
    <3> QED BY <3>1, <3>2
  <2>2. ChipKnown(d)'
    BY <1>0, <1>3, <1>4 DEF HotplugInv, EntryKnown, ChipKnown
  <2> QED BY <2>1, <2>2 DEF EntryKnown
<1> QED BY <1>0, <1>2, <1>5, <1>6 DEF HotplugInv

-----------------------------------------------------------------------------
(* Reading the events                                                       *)

LEMMA ReadNothingInv == HotplugInv /\ ReadNothing => HotplugInv'
<1> SUFFICES ASSUME HotplugInv, ReadNothing PROVE HotplugInv'
  OBVIOUS
<1> USE DEF ReadNothing, hardwareVars, kernelVars, watcherVars, refreshVars, histories
<1>0. /\ Shape /\ world' = world /\ PwmChips' = PwmChips
      /\ \A d \in world : d.probe \in Probes
  BY WorldFacts DEF HotplugInv, Shape, PwmChips
<1>1. Shape'
  <2>1. PollerSound'
    BY <1>0 DEF Shape, PollerSound, Refreshing
  <2>2. MapsSound'
    BY <1>0 DEF Shape, MapsSound, Paths
  <2>3. KernelSound'
    BY <1>0 DEF Shape, KernelSound, Paths
  <2> QED BY <1>0, <2>1, <2>2, <2>3 DEF Shape
<1>2. ASSUME NEW p \in Probes PROVE (Told(p) => Told(p)') /\ (Lasting(p) => Lasting(p)')
  <2>1. \A d \in world : DeadWatch(d) => DeadWatch(d)'
    BY <1>0 DEF DeadWatch
  <2> QED BY <1>0, <2>1, PollerLasting
<1>3. \A p : /\ Refreshing(p)' = Refreshing(p) /\ ~ Refreshing(p)
             /\ Missing(p)' <=> Missing(p)
  BY <1>0 DEF Refreshing, Missing, Shape, PollerSound
<1>4. ASSUME NEW p \in Probes PROVE Kept(p)'
  BY <1>0, <1>2, <1>3, ActualSame DEF HotplugInv, Kept, KeptByEvents
<1>5. ASSUME NEW d \in world PROVE EntryKnown(d)'
  <2>1. ListKnown(d)'
    BY DEF ListKnown
  <2>2. ChipKnown(d)'
    BY <1>0, <1>2, <1>3 DEF HotplugInv, EntryKnown, ChipKnown
  <2> QED BY <2>1, <2>2 DEF EntryKnown
<1> QED BY <1>0, <1>1, <1>4, <1>5 DEF HotplugInv

LEMMA ReadFailsInv == HotplugInv /\ ReadFails => HotplugInv'
<1> SUFFICES ASSUME HotplugInv, ReadFails PROVE HotplugInv'
  OBVIOUS
<1>1. PollFails /\ pc # "refresh"
  BY DEF ReadFails
<1>2. UNCHANGED <<world, last_wd, watched_paths, registrations>>
  BY DEF ReadFails, PollFails, hardwareVars, kernelVars
<1> QED BY <1>1, <1>2, MapsStay, PollFailsInv

\* The events of a queue are either taken or left.
LEMMA BatchFacts ==
    ASSUME NEW S, NEW q \in Seq(S), NEW n \in 1 .. Len(q)
    PROVE  LET batch == SubSeq(q, 1, n)
               rest  == SubSeq(q, n + 1, Len(q))
           IN  /\ rest \in Seq(S)
               /\ \A k \in DOMAIN batch : k \in DOMAIN q /\ batch[k] = q[k]
               /\ \A j \in DOMAIN rest : \E k \in DOMAIN q : rest[j] = q[k]
               /\ \A k \in DOMAIN q : \/ k \in DOMAIN batch /\ batch[k] = q[k]
                                      \/ \E j \in DOMAIN rest : rest[j] = q[k]
<1> DEFINE batch == SubSeq(q, 1, n)
           rest  == SubSeq(q, n + 1, Len(q))
<1>1. Len(q) \in Nat /\ DOMAIN q = 1 .. Len(q) /\ \A k \in 1 .. Len(q) : q[k] \in S
  OBVIOUS
<1>2. DOMAIN batch = 1 .. n /\ \A k \in 1 .. n : batch[k] = q[k]
  <2>1. n \in Int /\ 1 <= n /\ n <= Len(q)
    BY <1>1
  <2> QED BY <1>1, <2>1
<1>3. /\ rest \in Seq(S) /\ DOMAIN rest = 1 .. (Len(q) - n)
      /\ \A k \in 1 .. (Len(q) - n) : rest[k] = q[n + k]
  <2>1. n \in Int /\ 1 <= n /\ n <= Len(q)
    BY <1>1
  <2> QED BY <1>1, <2>1
<1> HIDE DEF batch, rest
<1>4. \A j \in DOMAIN rest : \E k \in DOMAIN q : rest[j] = q[k]
  <2>1. \A j \in 1 .. (Len(q) - n) : n + j \in 1 .. Len(q)
    BY <1>1
  <2> QED BY <1>1, <1>3, <2>1
<1>5. ASSUME NEW k \in DOMAIN q
      PROVE  \/ k \in DOMAIN batch /\ batch[k] = q[k]
             \/ \E j \in DOMAIN rest : rest[j] = q[k]
  <2>1. CASE k <= n
    BY <1>1, <1>2, <2>1
  <2>2. CASE ~ k <= n
    <3>1. k - n \in 1 .. (Len(q) - n) /\ n + (k - n) = k
      BY <1>1, <2>2
    <3> QED BY <1>3, <3>1
  <2> QED BY <2>1, <2>2
<1>6. \A k \in DOMAIN batch : k \in DOMAIN q /\ batch[k] = q[k]
  BY <1>1, <1>2
<1> QED BY <1>3, <1>4, <1>5, <1>6 DEF batch, rest

\* What reading a batch does to the queue, the maps and the interfaces.
EventsTaken(batch) ==
    /\ world' = world /\ files' = files /\ missed' = missed /\ unwatched' = unwatched
    /\ kernel' = kernel /\ inventory' = inventory /\ hidden \subseteq hidden'
    /\ pc = "read" /\ touched = {} /\ unread = {} /\ failed = {}
    /\ \A k \in DOMAIN batch : k \in DOMAIN queue /\ batch[k] = queue[k]
    /\ queue' \in Seq(QueueEvents)
    /\ \A j \in DOMAIN queue' : \E k \in DOMAIN queue : queue'[j] = queue[k]
    /\ \A k \in DOMAIN queue : \/ k \in DOMAIN batch /\ batch[k] = queue[k]
                               \/ \E j \in DOMAIN queue' : queue'[j] = queue[k]
    /\ touched' \subseteq Interfaces
    /\ \A k \in DOMAIN batch : batch[k].wd \in DOMAIN registrations =>
          InterfaceOfPath(registrations[batch[k].wd]) \in touched'
    /\ \A k \in DOMAIN batch : batch[k] = Overflow => touched' = Interfaces
    /\ "Pwm" \in touched' =>
          \/ pc' = "relist"
          \/ \A d \in PwmChips : files[d] # "absent" /\ PathOf(d) \notin DOMAIN watched_paths' =>
                d \in hidden'
    /\ \/ pc' = "relist" /\ "Pwm" \in touched' /\ UNCHANGED <<unread, read, failed>>
       \/ pc' = "refresh" /\ BeginRefresh(touched')
       \/ pc' = "idle" /\ touched' = {} /\ UNCHANGED <<unread, read, failed>>
    /\ MapsSound'
    /\ \A path \in Paths : kernel[path] # 0 /\ path \in DOMAIN watched_paths =>
          path \in DOMAIN watched_paths'
    /\ DOMAIN watched_paths' \subseteq DOMAIN watched_paths
    /\ \A path \in DOMAIN watched_paths' : watched_paths'[path] = watched_paths[path]
    /\ \A path \in DOMAIN watched_paths : InterfaceOfPath(path) \notin touched' =>
          path \in DOMAIN watched_paths'
    /\ \A wd \in DOMAIN registrations : InterfaceOfPath(registrations[wd]) \notin touched' =>
          wd \in DOMAIN registrations' /\ registrations'[wd] = registrations[wd]

LEMMA EventsAreTaken ==
    ASSUME HotplugInv, ReadEvents PROVE \E n \in 1 .. Len(queue) : EventsTaken(SubSeq(queue, 1, n))
<1>0. /\ Shape /\ pc = "read" /\ touched = {} /\ unread = {} /\ failed = {}
      /\ queue \in Seq(QueueEvents)
      /\ \A k \in DOMAIN queue : queue[k].ignored =>
            queue[k].wd # 0 /\ \A path \in Paths : kernel[path] # queue[k].wd
      /\ \A path \in Paths : kernel[path] # 0 =>
            path \in DOMAIN watched_paths /\ watched_paths[path] = kernel[path]
      /\ MapsSound
      /\ \A path \in Paths : InterfaceOfPath(path) \in Interfaces
      /\ \A e \in PwmChips : e \in world
  BY WorldFacts DEF HotplugInv, Shape, PollerSound, KernelSound, ReadEvents
<1>1. PICK n \in 1 .. Len(queue) :
          LET batch == SubSeq(queue, 1, n)
              needs_pwm_resync == \E event \in Registered(batch) :
                                     InterfaceOfPath(registrations[event.wd]) = "Pwm"
              ignored == {registrations[event.wd] :
                             event \in {k \in Registered(batch) : k.ignored}}
          IN  /\ queue' = SubSeq(queue, n + 1, Len(queue))
              /\ touched' = Touched(batch)
              /\ SetMaps(Unwatched(Maps, ignored))
              /\ hidden' = hidden \cup
                    IF Overflow \in ToSet(batch) /\ ~ needs_pwm_resync
                    THEN {e \in PwmChips \cap Present : PathOf(e) \notin DOMAIN watched_paths'}
                    ELSE {}
              /\ \/ /\ needs_pwm_resync
                    /\ pc' = "relist"
                    /\ UNCHANGED <<unread, read, failed>>
                 \/ /\ ~ needs_pwm_resync /\ touched' # {}
                    /\ pc' = "refresh"
                    /\ BeginRefresh(touched')
                 \/ /\ ~ needs_pwm_resync /\ touched' = {}
                    /\ pc' = "idle"
                    /\ UNCHANGED <<unread, read, failed>>
  BY DEF ReadEvents
<1>2. UNCHANGED <<world, files, roots, changes, kernel, last_wd, chips, inventory, missed, unwatched>>
  BY DEF ReadEvents, hardwareVars
<1> DEFINE batch == SubSeq(queue, 1, n)
           needs == \E event \in Registered(batch) :
                       InterfaceOfPath(registrations[event.wd]) = "Pwm"
           ignored == {registrations[event.wd] :
                          event \in {k \in Registered(batch) : k.ignored}}
<1>3. /\ queue' \in Seq(QueueEvents)
      /\ \A k \in DOMAIN batch : k \in DOMAIN queue /\ batch[k] = queue[k]
      /\ \A j \in DOMAIN queue' : \E k \in DOMAIN queue : queue'[j] = queue[k]
      /\ \A k \in DOMAIN queue : \/ k \in DOMAIN batch /\ batch[k] = queue[k]
                                 \/ \E j \in DOMAIN queue' : queue'[j] = queue[k]
  <2>1. queue' = SubSeq(queue, n + 1, Len(queue))
    BY <1>1
  <2> QED BY <1>0, <2>1, BatchFacts
<1>4. /\ touched' = Touched(batch)
      /\ SetMaps(Unwatched(Maps, ignored))
      /\ hidden' = hidden \cup
            IF Overflow \in ToSet(batch) /\ ~ needs
            THEN {e \in PwmChips \cap Present : PathOf(e) \notin DOMAIN watched_paths'}
            ELSE {}
      /\ \/ needs /\ pc' = "relist" /\ UNCHANGED <<unread, read, failed>>
         \/ ~ needs /\ pc' = "refresh" /\ BeginRefresh(touched')
         \/ ~ needs /\ touched' = {} /\ pc' = "idle" /\ UNCHANGED <<unread, read, failed>>
  BY <1>1
<1> HIDE DEF batch
<1>5. \A event : event \in Registered(batch) <=>
          \E k \in DOMAIN batch : event = batch[k] /\ batch[k].wd \in DOMAIN registrations
  BY DEF Registered
<1>6. Overflow \in ToSet(batch) <=> \E k \in DOMAIN batch : batch[k] = Overflow
  BY DEF ToSet
<1>7. touched' = {InterfaceOfPath(registrations[event.wd]) : event \in Registered(batch)}
                 \cup (IF Overflow \in ToSet(batch) THEN Interfaces ELSE {})
  BY <1>4 DEF Touched
<1>8. \A wd \in DOMAIN registrations : registrations[wd] \in Paths
  BY <1>0 DEF MapsSound
<1>9. touched' \subseteq Interfaces
  BY <1>0, <1>5, <1>7, <1>8
<1>10. \A event \in Registered(batch) : InterfaceOfPath(registrations[event.wd]) \in touched'
  BY <1>7
<1>11. \A k \in DOMAIN batch : batch[k] = Overflow => touched' = Interfaces
  BY <1>6, <1>7, <1>9
<1>12. ASSUME NEW path \in ignored
       PROVE  path \in Paths /\ kernel[path] = 0 /\ InterfaceOfPath(path) \in touched'
  <2>1. PICK event \in Registered(batch) : event.ignored /\ path = registrations[event.wd]
    OBVIOUS
  <2>2. PICK k \in DOMAIN queue : event = queue[k] /\ queue[k].wd \in DOMAIN registrations
    BY <1>3, <1>5
  <2>3. path \in DOMAIN watched_paths /\ watched_paths[path] = event.wd
    BY <1>0, <2>1, <2>2 DEF MapsSound
  <2> QED BY <1>0, <1>8, <1>10, <2>1, <2>2, <2>3
<1>13. /\ MapsSound'
       /\ DOMAIN watched_paths' = DOMAIN watched_paths \ ignored
       /\ \A path \in DOMAIN watched_paths' : watched_paths'[path] = watched_paths[path]
       /\ \A wd \in DOMAIN registrations : registrations[wd] \notin ignored =>
             wd \in DOMAIN registrations' /\ registrations'[wd] = registrations[wd]
  BY <1>0, <1>2, <1>4, UnwatchedSound
<1>14. needs => "Pwm" \in touched'
  BY <1>10
<1> HIDE DEF ignored
<1>15. "Pwm" \in touched' =>
          \/ pc' = "relist"
          \/ \A d \in PwmChips : files[d] # "absent" /\ PathOf(d) \notin DOMAIN watched_paths' =>
                d \in hidden'
  <2>1. "Pwm" \in touched' /\ ~ needs => Overflow \in ToSet(batch)
    BY <1>7
  <2> HIDE DEF needs
  <2> QED BY <1>0, <1>4, <2>1 DEF Present
<1>16. hidden \subseteq hidden'
  BY <1>4
<1>17. \/ pc' = "relist" /\ "Pwm" \in touched' /\ UNCHANGED <<unread, read, failed>>
       \/ pc' = "refresh" /\ BeginRefresh(touched')
       \/ pc' = "idle" /\ touched' = {} /\ UNCHANGED <<unread, read, failed>>
  BY <1>4, <1>14
<1>18. \A k \in DOMAIN batch : batch[k].wd \in DOMAIN registrations =>
          InterfaceOfPath(registrations[batch[k].wd]) \in touched'
  BY <1>5, <1>10
<1>19. EventsTaken(batch)
  BY <1>0, <1>2, <1>3, <1>9, <1>11, <1>12, <1>13, <1>15, <1>16, <1>17, <1>18 DEF EventsTaken
<1> QED BY <1>19 DEF batch

LEMMA ReadEventsInv == HotplugInv /\ ReadEvents => HotplugInv'
<1> SUFFICES ASSUME HotplugInv, ReadEvents PROVE HotplugInv'
  OBVIOUS
<1>1. PICK batch : EventsTaken(batch)
  BY EventsAreTaken
<1> USE <1>1
<1>0. /\ Shape /\ world' = world /\ files' = files
      /\ PwmChips' = PwmChips
      /\ \A d \in world : d.probe \in Probes /\ InterfaceOfPath(PathOf(d)) = InterfaceOf[d.probe]
      /\ \A d \in PwmChips : d \in world /\ d.probe = "pwm"
      /\ \A p \in Probes : \A r \in RootsOf[p] : InterfaceOfPath(r) = InterfaceOf[p]
      /\ \A p : ~ Refreshing(p)
  BY WorldFacts DEF HotplugInv, Shape, PwmChips, EventsTaken, Refreshing
<1>2. roots' = roots /\ last_wd' = last_wd /\ chips' = chips
  BY DEF ReadEvents, hardwareVars
<1>3. Shape'
  <2>1. PollerSound'
    <3>1. /\ touched' \subseteq Interfaces /\ unread = {} /\ failed = {} /\ chips' \subseteq PwmChips'
          /\ DOMAIN read \subseteq world
      BY <1>0, <1>2 DEF EventsTaken, Shape, PollerSound
    <3>2. CASE pc' = "refresh" /\ BeginRefresh(touched')
      <4>1. /\ unread' = {e \in Present : InterfaceOf[e.probe] \in touched'} /\ read' = <<>>
            /\ failed' = {}
        BY <3>2 DEF BeginRefresh
      <4> QED BY <1>0, <3>1, <3>2, <4>1 DEF PollerSound, Present, Refreshing
    <3>3. CASE pc' = "relist" /\ "Pwm" \in touched' /\ UNCHANGED <<unread, read, failed>>
      BY <1>0, <3>1, <3>3 DEF PollerSound
    <3>4. CASE pc' = "idle" /\ touched' = {} /\ UNCHANGED <<unread, read, failed>>
      BY <1>0, <3>1, <3>4 DEF PollerSound
    <3> QED BY <3>2, <3>3, <3>4 DEF EventsTaken
  <2>2. MapsSound'
    BY DEF EventsTaken
  <2>3. KernelSound'
    <3>1. kernel' = kernel /\ unwatched' = unwatched /\ queue' \in Seq(QueueEvents)
      BY DEF EventsTaken
    <3>2. \A k \in DOMAIN queue' :
              /\ queue'[k].wd <= last_wd
              /\ queue'[k].ignored =>
                    queue'[k].wd # 0 /\ \A path \in Paths : kernel[path] # queue'[k].wd
      BY <1>0 DEF Shape, KernelSound, EventsTaken
    <3>3. \A path \in Paths : kernel[path] # 0 =>
              path \in DOMAIN watched_paths' /\ watched_paths'[path] = kernel[path]
      BY <1>0 DEF Shape, KernelSound, EventsTaken
    <3> QED BY <1>0, <1>2, <3>1, <3>2, <3>3 DEF Shape, KernelSound, Paths
  <2> QED BY <1>0, <2>1, <2>2, <2>3 DEF Shape
<1>4. ASSUME NEW p \in Probes, ~ Refreshing(p)'
      PROVE  (Told(p) => Told(p)') /\ (Lasting(p) => Lasting(p)')
  <2>1. InterfaceOf[p] \notin touched' /\ InterfaceOf[p] \in Interfaces
    BY <1>4, RootFacts DEF Refreshing
  <2>2. \A path : OwnPath(p, path) => OwnPath(p, path)' /\ InterfaceOfPath(path) = InterfaceOf[p]
    BY <1>0 DEF OwnPath
  <2>3. ASSUME Durable(p) PROVE Durable(p)'
    <3>1. PICK k \in DOMAIN queue :
              \/ queue[k] = Overflow
              \/ queue[k].wd \in DOMAIN registrations /\ OwnPath(p, registrations[queue[k].wd])
      BY <2>3 DEF Durable
    <3>2. ~ (k \in DOMAIN batch /\ batch[k] = queue[k])
      BY <2>1, <2>2, <3>1 DEF EventsTaken
    <3>3. PICK j \in DOMAIN queue' : queue'[j] = queue[k]
      BY <3>2 DEF EventsTaken
    <3>4. CASE queue[k] = Overflow
      BY <3>3, <3>4 DEF Durable
    <3>5. CASE queue[k].wd \in DOMAIN registrations /\ OwnPath(p, registrations[queue[k].wd])
      <4>1. /\ queue[k].wd \in DOMAIN registrations'
            /\ registrations'[queue[k].wd] = registrations[queue[k].wd]
        BY <2>1, <2>2, <3>5 DEF EventsTaken
      <4> QED BY <2>2, <3>3, <3>5, <4>1 DEF Durable
    <3> QED BY <3>1, <3>4, <3>5
  <2>4. RootUnwatched(p) => RootUnwatched(p)'
    BY DEF RootUnwatched, EventsTaken
  <2>5. ASSUME NEW d \in world, d.probe = p, DeadWatch(d) PROVE DeadWatch(d)'
    <3>1. PathOf(d) \in DOMAIN watched_paths'
      BY <1>0, <2>1, <2>5 DEF DeadWatch, EventsTaken
    <3> QED BY <1>0, <2>5, <3>1 DEF DeadWatch, EventsTaken
  <2> QED BY <1>0, <2>3, <2>4, <2>5 DEF Told, Lasting
<1>5. ASSUME NEW p \in Probes PROVE Kept(p)'
  <2>1. ASSUME Refreshing(p)', pc' = "refresh" PROVE KeptByRefresh(p)'
    <3>1. /\ unread' = {e \in Present : InterfaceOf[e.probe] \in touched'} /\ read' = <<>>
          /\ failed' = {}
      BY <2>1 DEF BeginRefresh, EventsTaken
    <3>2. \A d \in world : d.probe = p => Agrees(d)'
      BY <1>0, <2>1, <3>1 DEF Agrees, Present, Refreshing
    <3> QED BY <1>0, <3>1, <3>2 DEF KeptByRefresh
  <2>2. ASSUME ~ Refreshing(p)' PROVE KeptByEvents(p)'
    <3>1. KeptByEvents(p)
      BY <1>0 DEF HotplugInv, Kept
    <3>2. Actual(p)' = Actual(p)
      BY <1>0, ActualSame
    <3>3. inventory' = inventory /\ missed' = missed /\ hidden \subseteq hidden'
      BY DEF EventsTaken
    <3> QED BY <1>4, <2>2, <3>1, <3>2, <3>3 DEF KeptByEvents
  <2> QED BY <2>1, <2>2 DEF Kept
<1>6. ASSUME NEW d \in world PROVE EntryKnown(d)'
  <2>0. /\ d.probe \in Probes /\ missed' = missed /\ hidden \subseteq hidden' /\ pc = "read"
        /\ ~ Refreshing(d.probe)' => (Told(d.probe) => Told(d.probe)')
    BY <1>0, <1>4 DEF EventsTaken
  <2>1. ListKnown(d)'
    <3>1. files[d] # "absent" /\ Refreshing(d.probe)' => pc' # "refresh" \/ d \in unread'
      BY DEF EventsTaken, BeginRefresh, Present, Refreshing
    <3> QED BY <1>0, <3>1 DEF ListKnown
  <2>2. ChipKnown(d)'
    <3>0. \/ ChipKnown(d)'
          \/ d \in PwmChips /\ files[d] # "absent" /\ PathOf(d) \notin DOMAIN watched_paths'
      BY <1>0 DEF ChipKnown
    <3> SUFFICES ASSUME d \in PwmChips, files[d] # "absent", PathOf(d) \notin DOMAIN watched_paths'
                 PROVE  ChipKnown(d)'
      BY <3>0
    <3>1. d.probe = "pwm" /\ InterfaceOf[d.probe] = "Pwm"
      BY <1>0, RootFacts
    <3>2. CASE "Pwm" \in touched'
      BY <3>2 DEF EventsTaken, ChipKnown
    <3>3. CASE "Pwm" \notin touched'
      <4>1. PathOf(d) \notin DOMAIN watched_paths /\ ~ Refreshing(d.probe)'
        BY <1>0, <3>1, <3>3 DEF EventsTaken, Refreshing
      <4>2. Missing(d.probe) => Missing(d.probe)'
        BY <2>0, <4>1 DEF Missing
      <4> QED BY <2>0, <4>1, <4>2 DEF HotplugInv, EntryKnown, ChipKnown
    <3> QED BY <3>2, <3>3
  <2> QED BY <2>1, <2>2 DEF EntryKnown
<1> QED BY <1>0, <1>3, <1>5, <1>6 DEF HotplugInv

-----------------------------------------------------------------------------
(* The refresh                                                              *)

\* A step of a refresh that leaves the hardware, the kernel and the watcher alone.
RefreshStep ==
    /\ UNCHANGED <<world, files, roots, kernel, queue, last_wd, watched_paths, registrations,
                   chips, unwatched>>
    /\ pc = "refresh"

LEMMA RefreshKeeps ==
    ASSUME HotplugInv, RefreshStep
    PROVE  /\ PwmChips' = PwmChips
           /\ MapsSound' /\ KernelSound'
           /\ \A p \in Probes : /\ Told(p) => Told(p)'
                                /\ Lasting(p) => Lasting(p)'
                                /\ Actual(p)' = Actual(p)
           /\ \A d \in world : d.probe \in Probes /\ PathOf(d) \in Paths
<1> USE DEF RefreshStep
<1>1. PwmChips' = PwmChips /\ \A d \in world : d.probe \in Probes /\ PathOf(d) \in Paths
  BY WorldFacts DEF HotplugInv, Shape, PwmChips
<1>2. MapsSound'
  BY DEF HotplugInv, Shape, MapsSound, Paths
<1>3. KernelSound'
  BY DEF HotplugInv, Shape, KernelSound, Paths
<1>4. ASSUME NEW p \in Probes
      PROVE  (Told(p) => Told(p)') /\ (Lasting(p) => Lasting(p)') /\ Actual(p)' = Actual(p)
  <2>1. \A d \in world : DeadWatch(d) => DeadWatch(d)'
    BY <1>1 DEF DeadWatch
  <2> QED BY <2>1, PollerLasting, ActualSame
<1> QED BY <1>1, <1>2, <1>3, <1>4

\* A step within a refresh: what was lost stays lost and what failed stays failed.
Within ==
    /\ RefreshStep
    /\ pc' = pc /\ touched' = touched /\ inventory' = inventory
    /\ failed \subseteq failed' /\ missed \subseteq missed'
    /\ \A d \in hidden : d \notin hidden' =>
          d \in unread /\ ~ (d \in PwmChips /\ kernel[PathOf(d)] = 0)

\* What such a step has to keep for itself.
LEMMA WithinKeeps ==
    ASSUME HotplugInv, Within, PollerSound',
           \A p \in Probes : Refreshing(p) /\ KeptByRefresh(p) => KeptByRefresh(p)',
           \A d \in world : d \in unread \cup DOMAIN read => d \in unread' \cup DOMAIN read'
    PROVE  HotplugInv'
<1> USE DEF Within
<1>0. /\ Shape /\ world' = world /\ files' = files /\ kernel' = kernel /\ pc = "refresh"
      /\ chips' = chips /\ watched_paths' = watched_paths
      /\ \A d \in unread : Refreshing(d.probe)
  BY DEF RefreshStep, HotplugInv, Shape, PollerSound
<1>1. /\ PwmChips' = PwmChips
      /\ \A p \in Probes : /\ Told(p) => Told(p)'
                           /\ Lasting(p) => Lasting(p)'
                           /\ Actual(p)' = Actual(p)
      /\ \A d \in world : d.probe \in Probes /\ PathOf(d) \in Paths
  BY RefreshKeeps
<1>2. Shape'
  BY <1>0, RefreshKeeps DEF Shape
<1>3. \A p : (Refreshing(p)' <=> Refreshing(p)) /\ (Missing(p) => Missing(p)')
  BY DEF Refreshing, Missing
<1>4. ASSUME NEW p \in Probes PROVE Kept(p)'
  <2>1. CASE Refreshing(p)
    BY <1>0, <1>3, <2>1 DEF HotplugInv, Kept
  <2>2. CASE ~ Refreshing(p)
    <3>1. KeptByEvents(p)
      BY <2>2 DEF HotplugInv, Kept
    <3>2. \A d \in hidden : d.probe = p => d \in hidden'
      BY <1>0, <2>2
    <3> QED BY <1>1, <1>3, <2>2, <3>1, <3>2 DEF Kept, KeptByEvents
  <2> QED BY <2>1, <2>2
<1>5. ASSUME NEW d \in world PROVE EntryKnown(d)'
  <2>1. ListKnown(d)'
    BY <1>0, <1>1, <1>3 DEF HotplugInv, EntryKnown, ListKnown
  <2>2. ChipKnown(d)'
    <3>1. PathOf(d) \notin DOMAIN watched_paths => kernel[PathOf(d)] = 0
      BY <1>0, <1>1 DEF Shape, KernelSound
    <3>2. d \in PwmChips /\ kernel[PathOf(d)] = 0 /\ d \in hidden => d \in hidden'
      OBVIOUS
    <3> QED BY <1>0, <1>1, <1>3, <3>1, <3>2 DEF HotplugInv, EntryKnown, ChipKnown
  <2> QED BY <2>1, <2>2 DEF EntryKnown
<1> QED BY <1>0, <1>2, <1>4, <1>5 DEF HotplugInv

LEMMA ListEntryInv == ASSUME HotplugInv, NEW e \in world, ListEntry(e) PROVE HotplugInv'
<1> USE DEF hardwareVars, kernelVars, watcherVars, histories
<1>0. /\ Within /\ Refreshing(e.probe) /\ files[e] # "absent" /\ pc = "refresh"
      /\ e \notin unread \cup DOMAIN read /\ unread' = unread \cup {e}
      /\ read' = read /\ failed' = failed /\ missed' = missed /\ hidden' = hidden
      /\ UNCHANGED <<files, kernel, touched, pc>>
      /\ e.probe \notin failed /\ e.probe \in Probes
  BY WorldFacts DEF ListEntry, Within, RefreshStep, Present, HotplugInv, Shape
<1>1. PollerSound'
  <2>1. PollerSound /\ \A d \in unread' : Refreshing(d.probe)
    BY <1>0 DEF HotplugInv, Shape, PollerSound
  <2> QED BY <1>0, <2>1, RefreshKeeps DEF PollerSound, Refreshing, Within, RefreshStep
<1>2. Lasting(e.probe)'
  <2>1. Told(e.probe)
    BY <1>0 DEF HotplugInv, EntryKnown, ListKnown
  <2> QED BY <1>0, <2>1, RefreshKeeps DEF Within, Lasting
<1>3. ASSUME NEW p \in Probes, KeptByRefresh(p) PROVE KeptByRefresh(p)'
  <2>1. CASE p = e.probe
    BY <1>2, <2>1 DEF KeptByRefresh
  <2>2. CASE p # e.probe
    <3>1. world' = world /\ PwmChips' = PwmChips /\ (Lasting(p) => Lasting(p)')
      BY <1>0, RefreshKeeps DEF Within, RefreshStep
    <3>2. \A d \in world : d.probe = p => (Agrees(d) => Agrees(d)')
      BY <1>0, <2>2 DEF Agrees
    <3>3. \A d \in world : d.probe = p => (StaysHidden(d) => StaysHidden(d)')
      BY <1>0, <2>2, <3>1 DEF StaysHidden
    <3> QED BY <1>0, <1>3, <3>1, <3>2, <3>3 DEF KeptByRefresh
  <2> QED BY <2>1, <2>2
<1> QED BY <1>0, <1>1, <1>3, WithinKeeps

LEMMA ListingFailsInv ==
    ASSUME HotplugInv, NEW q \in Probes, ListingFails(q) PROVE HotplugInv'
<1> USE DEF hardwareVars, kernelVars, watcherVars, Counted
<1>0. /\ Within /\ pc = "refresh" /\ unread' = unread /\ read' = read /\ hidden' = hidden
      /\ failed' = failed \cup {q} /\ missed' = missed \cup {q}
      /\ UNCHANGED <<files, kernel, touched, pc>>
  BY DEF ListingFails, Within, RefreshStep
<1>1. PollerSound'
  BY <1>0, RefreshKeeps DEF HotplugInv, Shape, PollerSound, Refreshing, Within, RefreshStep
<1>2. ASSUME NEW p \in Probes, KeptByRefresh(p) PROVE KeptByRefresh(p)'
  <2>1. world' = world /\ PwmChips' = PwmChips /\ (Lasting(p) => Lasting(p)')
    BY <1>0, RefreshKeeps DEF Within, RefreshStep
  <2>2. \A d \in world : (Agrees(d) => Agrees(d)') /\ (StaysHidden(d) => StaysHidden(d)')
    BY <1>0, <2>1 DEF Agrees, StaysHidden
  <2> QED BY <1>0, <1>2, <2>1, <2>2 DEF KeptByRefresh
<1> QED BY <1>0, <1>1, <1>2, WithinKeeps

LEMMA ReadEntryInv == ASSUME HotplugInv, NEW e \in world, ReadEntry(e) PROVE HotplugInv'
<1> USE DEF hardwareVars, kernelVars, watcherVars
<1> DEFINE refused(outcome) == files[e] # "absent" /\ outcome = Refused(e)
<1>0. /\ Shape /\ pc = "refresh" /\ e \in unread /\ e.probe \notin failed
      /\ unread' = unread \ {e}
      /\ UNCHANGED <<world, files, roots, kernel, queue, last_wd, watched_paths, registrations,
                     chips, unwatched, touched, pc, inventory>>
  BY DEF ReadEntry, HotplugInv
<1>1. PICK outcome \in ReadOutcomes(e, files[e]) :
          /\ read' = [d \in DOMAIN read \cup {e} |-> IF d = e THEN outcome ELSE read[d]]
          /\ failed' = IF outcome = "failed" THEN failed \cup {e.probe} ELSE failed
          /\ missed' = IF refused(outcome) /\ outcome = "failed"
                       THEN missed \cup {e.probe} ELSE missed
          /\ hidden' = IF \/ outcome = "failed"
                          \/ e \in PwmChips /\ kernel[PathOf(e)] = 0
                       THEN hidden
                       ELSE IF refused(outcome) THEN hidden \cup {e} ELSE hidden \ {e}
  BY DEF ReadEntry
<1>2. /\ DOMAIN read' = DOMAIN read \cup {e} /\ read'[e] = outcome
      /\ \A d \in DOMAIN read : d # e => read'[d] = read[d]
  BY <1>1
<1>3. files[e] # "absent" => outcome = files[e] \/ refused(outcome)
  BY <1>1 DEF ReadOutcomes
<1>4. /\ files[e] \in EntryStates \cup {"absent"}
      /\ e \in PwmChips => Refused(e) = "failed"
      /\ Refused(e) \in {"failed", "skipped"}
  BY <1>0 DEF Shape, KernelSound, PwmChips, Refused, GivesUp
<1>5. /\ \A d \in hidden : d # e => d \in hidden'
      /\ e \in PwmChips /\ kernel[PathOf(e)] = 0 => hidden' = hidden
  BY <1>1
<1>6. Within
  BY <1>0, <1>1, <1>5 DEF Within, RefreshStep
<1>7. PwmChips' = PwmChips /\ \A p \in Probes : Lasting(p) => Lasting(p)'
  BY <1>6, RefreshKeeps DEF Within
<1>8. PollerSound'
  BY <1>0, <1>2, <1>7 DEF Shape, PollerSound, Refreshing
<1>9. ASSUME NEW p \in Probes, KeptByRefresh(p) PROVE KeptByRefresh(p)'
  <2>1. CASE Lasting(p)
    BY <1>7, <2>1 DEF KeptByRefresh
  <2>2. CASE p \notin failed /\ \A d \in world : d.probe = p => Agrees(d)
    <3>1. CASE p # e.probe
      <4>1. \A d \in world : d.probe = p => Agrees(d)'
        BY <1>0, <1>2, <2>2, <3>1 DEF Agrees
      <4> QED BY <1>0, <1>1, <2>2, <3>1, <4>1 DEF KeptByRefresh
    <3>2. CASE p = e.probe /\ refused(outcome) /\ outcome = "failed"
      BY <1>1, <3>2 DEF KeptByRefresh
    <3>3. CASE p = e.probe /\ refused(outcome) /\ outcome # "failed"
      <4>1. e \in hidden'
        BY <1>1, <1>4, <3>3
      <4>2. StaysHidden(e)'
        BY <1>0, <4>1 DEF StaysHidden
      <4> QED BY <1>0, <3>3, <4>2 DEF KeptByRefresh
    <3>4. CASE p = e.probe /\ ~ refused(outcome)
      <4>1. files[e] # "absent"
        BY <1>0, <2>2, <3>4 DEF Agrees
      <4>2. outcome = files[e] /\ outcome # "failed"
        BY <1>3, <1>4, <3>4, <4>1 DEF EntryStates
      <4>3. Agrees(e)'
        BY <1>0, <1>2, <4>1, <4>2 DEF Agrees
      <4>4. \A d \in world : d.probe = p => Agrees(d)'
        BY <1>0, <1>2, <2>2, <4>3 DEF Agrees
      <4> QED BY <1>0, <1>1, <2>2, <4>2, <4>4 DEF KeptByRefresh
    <3> QED BY <3>1, <3>2, <3>3, <3>4
  <2>3. CASE \E d \in world : d.probe = p /\ StaysHidden(d)
    <3>1. ASSUME NEW d \in world, StaysHidden(d) PROVE StaysHidden(d)'
      <4>1. CASE d = e
        BY <1>0, <1>5, <1>7, <3>1, <4>1 DEF StaysHidden
      <4>2. CASE d # e
        BY <1>0, <1>5, <1>7, <3>1, <4>2 DEF StaysHidden
      <4> QED BY <4>1, <4>2
    <3> QED BY <1>0, <2>3, <3>1 DEF KeptByRefresh
  <2>4. CASE p \in failed /\ p \in missed
    BY <1>6, <2>4 DEF Within, KeptByRefresh
  <2> QED BY <1>9, <2>1, <2>2, <2>3, <2>4 DEF KeptByRefresh
<1> QED BY <1>0, <1>2, <1>6, <1>8, <1>9, WithinKeeps

\* The end of a refresh, which leaves nothing to be read.
RefreshDone ==
    /\ RefreshStep
    /\ pc' = "idle" /\ touched' = {} /\ unread' = {} /\ read' = <<>> /\ failed' = {}
    /\ hidden' = hidden
    /\ \A p \in Probes : Missing(p) => p \in missed'
    /\ \A p \in Probes : ~ Refreshing(p) => inventory'[p] = inventory[p]

LEMMA DoneKeeps ==
    ASSUME HotplugInv, RefreshDone,
           \A p \in Probes : Refreshing(p) => KeptByEvents(p)'
    PROVE  HotplugInv'
<1> USE DEF RefreshDone
<1>0. /\ Shape /\ world' = world /\ files' = files /\ pc = "refresh"
      /\ chips' = chips /\ watched_paths' = watched_paths
  BY DEF RefreshStep, HotplugInv
<1>1. /\ PwmChips' = PwmChips
      /\ \A p \in Probes : /\ Told(p) => Told(p)'
                           /\ Lasting(p) => Lasting(p)'
                           /\ Actual(p)' = Actual(p)
      /\ \A d \in world : d.probe \in Probes /\ PathOf(d) \in Paths
  BY RefreshKeeps
<1>2. Shape'
  <2>1. PollerSound'
    BY <1>0, <1>1 DEF Shape, PollerSound
  <2> QED BY <1>0, <2>1, RefreshKeeps DEF Shape
<1>3. \A p \in Probes : ~ Refreshing(p)' /\ (Missing(p) => Missing(p)')
  BY DEF Refreshing, Missing
<1>4. ASSUME NEW p \in Probes PROVE Kept(p)'
  <2>1. CASE Refreshing(p)
    BY <1>3, <2>1 DEF Kept
  <2>2. CASE ~ Refreshing(p)
    <3>1. p \in missed => p \in missed'
      BY <2>2 DEF Missing
    <3> QED BY <1>1, <1>3, <2>2, <3>1 DEF HotplugInv, Kept, KeptByEvents
  <2> QED BY <2>1, <2>2
<1>5. ASSUME NEW d \in world PROVE EntryKnown(d)'
  <2>1. ListKnown(d)'
    BY DEF ListKnown
  <2>2. ChipKnown(d)'
    BY <1>0, <1>1, <1>3 DEF HotplugInv, EntryKnown, ChipKnown
  <2> QED BY <2>1, <2>2 DEF EntryKnown
<1> QED BY <1>0, <1>2, <1>4, <1>5 DEF HotplugInv

LEMMA CommitInv == HotplugInv /\ Commit => HotplugInv'
<1> SUFFICES ASSUME HotplugInv, Commit PROVE HotplugInv'
  OBVIOUS
<1> USE DEF hardwareVars, kernelVars
<1>0. /\ Shape /\ AllRead
      /\ \A p \in Probes : inventory'[p] = IF p \in Reporting THEN Report(p) ELSE inventory[p]
      /\ missed' = missed \ Reporting
  BY DEF Commit, HotplugInv
<1>1. RefreshDone
  BY <1>0 DEF Commit, AllRead, RefreshDone, RefreshStep, Missing, Reporting
<1>2. ASSUME NEW p \in Probes, Refreshing(p) PROVE KeptByEvents(p)'
  <2>1. /\ pc = "refresh" /\ world' = world /\ hidden' = hidden
        /\ Actual(p)' = Actual(p) /\ (Lasting(p) => Lasting(p)')
    BY <1>1, RefreshKeeps DEF RefreshDone, RefreshStep
  <2>2. KeptByRefresh(p)
    BY <1>2, <2>1 DEF HotplugInv, Kept
  <2>3. CASE p \notin failed /\ \A e \in world : e.probe = p => Agrees(e)
    <3>1. /\ unread \subseteq world /\ DOMAIN read \subseteq world
          /\ files \in [world -> EntryStates \cup {"absent"}]
      BY <1>0 DEF Shape, PollerSound, KernelSound
    <3>2. \A e \in DOMAIN read : e.probe = p =>
              files[e] # "absent" /\ read[e] = files[e] /\ read[e] \in EntryStates
      BY <2>3, <3>1 DEF Agrees
    <3>3. {d \in DOMAIN read : d.probe = p /\ read[d] # "skipped"} = {d \in Present : d.probe = p}
      <4>1. \A d \in world : d.probe = p /\ files[d] # "absent" => d \in DOMAIN read
        BY <1>0, <2>3 DEF Agrees, AllRead
      <4> QED BY <3>1, <3>2, <4>1 DEF Present, EntryStates
    <3>4. [e \in {d \in DOMAIN read : d.probe = p /\ read[d] # "skipped"} |-> read[e]]
             = [e \in {d \in Present : d.probe = p} |-> files[e]]
      <4>1. \A e \in {d \in Present : d.probe = p} : read[e] = files[e]
        BY <3>2, <3>3
      <4> QED BY <3>3, <4>1
    <3>5. inventory'[p] = Actual(p)
      <4>1. p \in Reporting
        BY <1>2, <2>3 DEF Reporting
      <4> QED BY <1>0, <3>4, <4>1 DEF Actual, Report
    <3> QED BY <2>1, <3>5 DEF KeptByEvents
  <2>4. CASE Lasting(p)
    BY <2>1, <2>4 DEF KeptByEvents
  <2>5. CASE \E e \in world : e.probe = p /\ StaysHidden(e)
    BY <2>1, <2>5 DEF KeptByEvents, StaysHidden
  <2>6. CASE p \in failed /\ p \in missed
    BY <1>0, <2>6 DEF Reporting, KeptByEvents
  <2> QED BY <2>2, <2>3, <2>4, <2>5, <2>6 DEF KeptByRefresh
<1> QED BY <1>1, <1>2, DoneKeeps

LEMMA RejectInv == HotplugInv /\ Reject => HotplugInv'
<1> SUFFICES ASSUME HotplugInv, Reject PROVE HotplugInv'
  OBVIOUS
<1> USE DEF hardwareVars, kernelVars
<1>1. RefreshDone /\ missed' = missed \cup {p \in Probes : Refreshing(p)}
  BY DEF Reject, AllRead, RefreshDone, RefreshStep, Missing
<1>2. ASSUME NEW p \in Probes, Refreshing(p) PROVE KeptByEvents(p)'
  BY <1>1, <1>2 DEF KeptByEvents
<1> QED BY <1>1, <1>2, DoneKeeps

-----------------------------------------------------------------------------
(* The theorems                                                             *)

LEMMA PollerInv == HotplugInv /\ Poller => HotplugInv'
<1>1. PwmChips \subseteq world
  BY DEF PwmChips
<1> QED BY <1>1, ListChipsInv, ListFailsInv, WatchChipInv, ChipGoneInv, WatchFailsInv,
           SyncDoneInv, ReadNothingInv, ReadFailsInv, ReadEventsInv, ListEntryInv, ReadEntryInv,
           ListingFailsInv, CommitInv, RejectInv DEF Poller

LEMMA HotplugStutters == HotplugInv /\ UNCHANGED hotplugVars => HotplugInv'
<1> SUFFICES ASSUME HotplugInv, UNCHANGED hotplugVars PROVE HotplugInv'
  OBVIOUS
<1>0. UNCHANGED <<world, files, roots, changes, kernel, queue, last_wd, watched_paths,
                  registrations, chips, touched, pc, unread, read, failed, inventory,
                  missed, unwatched, hidden>>
  BY DEF hotplugVars, hardwareVars, kernelVars, watcherVars, refreshVars, histories
<1>1. Shape'
  BY <1>0 DEF HotplugInv, Shape, PollerSound, MapsSound, KernelSound, Paths, PwmChips,
                Refreshing
<1>2. \A p \in Probes : /\ Told(p) => Told(p)'
                        /\ Lasting(p) => Lasting(p)'
                        /\ Refreshing(p)' <=> Refreshing(p)
                        /\ Missing(p)' <=> Missing(p)
                        /\ Actual(p)' = Actual(p)
  <2>1. \A d \in world : DeadWatch(d) => DeadWatch(d)'
    BY <1>0 DEF DeadWatch, PwmChips
  <2> QED BY <1>0, <2>1, PollerLasting, ActualSame DEF Refreshing, Missing
<1>3. \A d \in world : (Agrees(d) => Agrees(d)') /\ (StaysHidden(d) => StaysHidden(d)')
  BY <1>0 DEF Agrees, StaysHidden, PwmChips
<1>4. ASSUME NEW p \in Probes PROVE Kept(p)'
  <2>1. KeptByRefresh(p) => KeptByRefresh(p)'
    BY <1>0, <1>2, <1>3 DEF KeptByRefresh
  <2>2. KeptByEvents(p) => KeptByEvents(p)'
    BY <1>0, <1>2 DEF KeptByEvents
  <2> QED BY <1>0, <1>2, <2>1, <2>2 DEF HotplugInv, Kept
<1>5. ASSUME NEW d \in world PROVE EntryKnown(d)'
  <2>0. d.probe \in Probes
    BY WorldFacts DEF HotplugInv, Shape
  <2>1. ListKnown(d)'
    BY <1>0, <1>2, <2>0 DEF HotplugInv, EntryKnown, ListKnown
  <2>2. ChipKnown(d)'
    BY <1>0, <1>2, <2>0 DEF HotplugInv, EntryKnown, ChipKnown, PwmChips
  <2> QED BY <2>1, <2>2 DEF EntryKnown
<1> QED BY <1>0, <1>1, <1>4, <1>5 DEF HotplugInv

\* What the watcher knows of the hardware, kept by every step of the hardware
\* and of the poller.
THEOREM HotplugInductive == HotplugSpec => []HotplugInv
<1>1. HotplugInit => HotplugInv
  BY InitInv
<1>2. HotplugInv /\ [HotplugNext]_hotplugVars => HotplugInv'
  BY HardwareInv, PollerInv, HotplugStutters DEF HotplugNext
<1> QED BY <1>1, <1>2, PTL DEF HotplugSpec

\* The maps of LinuxHotplugWatcher are each other's inverse after any sequence
\* of hardware changes and of the steps of poll, the failing ones included.
THEOREM WatchesAreInverse == HotplugSpec => []HotplugTypeOK
<1>1. HotplugInv => HotplugTypeOK
  BY DEF HotplugInv, Shape, PollerSound, MapsSound, KernelSound, HotplugTypeOK
<1> QED BY <1>1, HotplugInductive, PTL

\* Between two polls an inventory that differs from the hardware has an event
\* waiting in the queue, or the watcher lost the change in one of the named
\* ways: nothing is lost between the steps of a poll.
THEOREM DivergenceIsAnnounced == HotplugSpec => []DivergenceIsPending
<1>1. HotplugInv => DivergenceIsPending
  <2> SUFFICES ASSUME HotplugInv, pc = "idle", NEW p \in Probes, inventory[p] # Actual(p)
               PROVE  Announced(p) \/ Excused(p)
    BY DEF DivergenceIsPending
  <2>0. /\ \A e \in world : InterfaceOfPath(PathOf(e)) = InterfaceOf[e.probe]
        /\ \A r \in RootsOf[p] : InterfaceOfPath(r) = InterfaceOf[p]
    BY WorldFacts DEF HotplugInv, Shape
  <2>1. ~ Refreshing(p)
    BY DEF HotplugInv, Shape, PollerSound, Refreshing
  <2>2. KeptByEvents(p)
    BY <2>1 DEF HotplugInv, Kept
  <2>3. CASE Durable(p)
    <3>1. \A path : OwnPath(p, path) => InterfaceOfPath(path) = InterfaceOf[p]
      BY <2>0 DEF OwnPath
    <3> QED BY <2>3, <3>1 DEF Durable, Announced
  <2>4. CASE RootUnwatched(p) \/ \E e \in world : e.probe = p /\ DeadWatch(e)
    BY <2>4 DEF RootUnwatched, DeadWatch, Excused
  <2>5. CASE p \in missed \/ \E e \in hidden : e.probe = p
    BY <2>5 DEF Excused
  <2> QED BY <2>2, <2>3, <2>4, <2>5 DEF KeptByEvents, Lasting, Told
<1> QED BY <1>1, HotplugInductive, PTL

-----------------------------------------------------------------------------
(* What the probes make of their entries                                    *)

\* A set of numbers that has zero and every successor has all of them.
LEMMA CountingUp ==
    ASSUME NEW T \in SUBSET Nat, 0 \in T, \A m \in T : m + 1 \in T
    PROVE  T = Nat
<1>. DEFINE R == {ss \in Nat \X Nat : ss[1] < ss[2]}
            U == Nat \ T
<1>. SUFFICES ASSUME U # {} PROVE FALSE
  OBVIOUS
<1>1. OpToRel(<, Nat) = R
  BY DEF OpToRel
<1>2. \A k, m \in Nat : <<k, m>> \in R <=> k < m
  OBVIOUS
<1>. HIDE DEF R
<1>3. IsWellFoundedOn(R, Nat)
  BY <1>1, NatLessThanWellFounded
<1>4. PICK m \in U : \A k \in U : ~ <<k, m>> \in R
  <2>1. U \in SUBSET Nat
    OBVIOUS
  <2>. HIDE DEF U
  <2>. QED  BY <1>3, <2>1, WFMin
<1>5. m \in Nat /\ m # 0 /\ m \notin T
  OBVIOUS
<1>6. m - 1 \in Nat /\ m - 1 < m
  BY <1>5
<1>7. m - 1 \in T
  BY <1>2, <1>4, <1>5, <1>6
<1>. QED  BY <1>5, <1>6, <1>7

\* An entry that the probe p has read, at the k-th place of the listing.
Chosen(p, report, k) == Listing[k].probe = p /\ Listing[k] \in DOMAIN report

\* What is found once it is read.
AfterEntry(p, report, found, k) ==
    IF Chosen(p, report, k) THEN EntryDescriptors(found, Listing[k], report[Listing[k]]) ELSE found

\* What is found after each entry of the listing, up to the m-th.
IsFound(F, p, report, m) ==
    F = [k \in 0 .. m |-> IF k = 0 THEN NothingFound ELSE AfterEntry(p, report, F[k - 1], k)]

LEMMA FoundExists ==
    ASSUME NEW p, NEW report
    PROVE  \A m \in Nat : \E F : IsFound(F, p, report, m)
<1>. DEFINE T == {m \in Nat : \E F : IsFound(F, p, report, m)}
<1>1. 0 \in T
  <2>. DEFINE F == [k \in 0 .. 0 |-> NothingFound]
  <2>1. F = [k \in 0 .. 0 |-> IF k = 0 THEN NothingFound ELSE AfterEntry(p, report, F[k - 1], k)]
    OBVIOUS
  <2>2. IsFound(F, p, report, 0)
    BY <2>1 DEF IsFound
  <2>. QED  BY <2>2
<1>2. ASSUME NEW m \in T
      PROVE  m + 1 \in T
  <2>1. PICK F : IsFound(F, p, report, m)
    OBVIOUS
  <2>. DEFINE G == [k \in 0 .. m + 1 |-> IF k = m + 1 THEN AfterEntry(p, report, F[m], k) ELSE F[k]]
              next(H, k) == IF k = 0 THEN NothingFound ELSE AfterEntry(p, report, H[k - 1], k)
  <2>2. ASSUME NEW k \in 0 .. m + 1
        PROVE  G[k] = next(G, k)
    <3>1. CASE k = m + 1
      <4>1. G[k] = AfterEntry(p, report, F[m], k) /\ G[m] = F[m] /\ k - 1 = m /\ k # 0
        BY <3>1
      <4>. QED  BY <4>1
    <3>2. CASE k \in 1 .. m
      <4>1. k \in 0 .. m /\ k - 1 \in 0 .. m /\ k # m + 1 /\ k - 1 # m + 1
        BY <3>2
      <4>2. F[k] = next(F, k)
        BY <2>1, <4>1 DEF IsFound
      <4>3. G[k] = F[k] /\ G[k - 1] = F[k - 1]
        BY <4>1
      <4>. QED  BY <4>2, <4>3
    <3>3. CASE k = 0
      <4>1. 0 \in 0 .. m /\ 0 # m + 1
        OBVIOUS
      <4>2. F[0] = next(F, 0)
        BY <2>1, <4>1 DEF IsFound
      <4>. QED  BY <3>3, <4>1, <4>2
    <3>. QED  BY <3>1, <3>2, <3>3
  <2>3. G = [k \in 0 .. m + 1 |-> G[k]]
    OBVIOUS
  <2>. HIDE DEF G
  <2>4. G = [k \in 0 .. m + 1 |-> next(G, k)]
    BY <2>2, <2>3
  <2>5. IsFound(G, p, report, m + 1)
    BY <2>4 DEF IsFound
  <2>. QED  BY <2>5
<1>3. T = Nat
  <2>1. T \in SUBSET Nat
    OBVIOUS
  <2>. HIDE DEF T
  <2>. QED  BY <1>1, <1>2, <2>1, CountingUp
<1>. QED  BY <1>3

LEMMA FoundFacts ==
    ASSUME NEW p, NEW report
    PROVE  \E F : /\ IsFound(F, p, report, Len(Listing))
                  /\ Discover(p, report) = F[Len(Listing)].devices
<1>. DEFINE n == Len(Listing)
            Body(F) == [k \in 0 .. n |->
                            IF k = 0 THEN NothingFound
                            ELSE IF Listing[k].probe = p /\ Listing[k] \in DOMAIN report
                            THEN EntryDescriptors(F[k - 1], Listing[k], report[Listing[k]])
                            ELSE F[k - 1]]
            W == CHOOSE F : F = Body(F)
<1>1. n \in Nat
  BY ListingAssumption
<1>2. \A F : IsFound(F, p, report, n) <=> F = Body(F)
  BY DEF IsFound, AfterEntry, Chosen
<1>3. \E F : F = Body(F)
  BY <1>1, <1>2, FoundExists
<1>4. W = Body(W)
  BY <1>3
<1>5. Discover(p, report) = W[n].devices
  BY DEF Discover
<1>. QED  BY <1>2, <1>4, <1>5

-----------------------------------------------------------------------------
(* Descriptors that are sound                                               *)

\* No id twice, if the entries allow it; a device is found after its parent.
NoTwice(ds) == \A i, j \in DOMAIN ds : ds[i].id = ds[j].id => i = j
Linked(ds) ==
    \A i \in DOMAIN ds :
        \/ ds[i].parent = NoParent
        \/ \E j \in 1 .. (i - 1) : ds[j].id = ds[i].parent
Sound(q, ds) == (q => NoTwice(ds)) /\ Linked(ds)

IdsOf(ds) == {ds[i].id : i \in DOMAIN ds}

LEMMA PushIsSound ==
    ASSUME NEW D, NEW q \in BOOLEAN, NEW ds \in Seq(D), Sound(q, ds), NEW d \in D,
           q => d.id \notin IdsOf(ds), d.parent = NoParent \/ d.parent \in IdsOf(ds)
    PROVE  /\ Append(ds, d) \in Seq(D) /\ Sound(q, Append(ds, d))
           /\ IdsOf(Append(ds, d)) = IdsOf(ds) \cup {d.id}
<1>. DEFINE n == Len(ds)
            e == Append(ds, d)
<1>1. /\ n \in Nat /\ DOMAIN ds = 1 .. n /\ DOMAIN e = 1 .. n + 1 /\ e \in Seq(D)
      /\ e[n + 1] = d /\ \A i \in 1 .. n : e[i] = ds[i]
  OBVIOUS
<1>. HIDE DEF e, n
<1>2. \A i \in 1 .. n + 1 : i \in 1 .. n \/ i = n + 1
  BY <1>1
<1>3. q => \A i \in 1 .. n : ds[i].id # d.id
  BY <1>1 DEF IdsOf
<1>4. q => NoTwice(e)
  BY <1>1, <1>2, <1>3 DEF NoTwice, Sound
<1>5. ASSUME NEW i \in 1 .. n + 1
      PROVE  e[i].parent = NoParent \/ \E j \in 1 .. (i - 1) : e[j].id = e[i].parent
  <2>1. CASE i \in 1 .. n
    <3>1. \A j \in 1 .. (i - 1) : j \in 1 .. n
      BY <1>1, <2>1
    <3>. QED  BY <1>1, <2>1, <3>1 DEF Linked, Sound
  <2>2. CASE i = n + 1
    <3>1. i - 1 = n
      BY <1>1, <2>2
    <3>. QED  BY <1>1, <2>2, <3>1 DEF IdsOf
  <2>. QED  BY <1>2, <2>1, <2>2
<1>6. Linked(e)
  BY <1>1, <1>5 DEF Linked
<1>7. IdsOf(e) = IdsOf(ds) \cup {d.id}
  BY <1>1, <1>2 DEF IdsOf
<1>. QED  BY <1>1, <1>4, <1>6, <1>7 DEF Sound, e

LEMMA PartsAreSound ==
    ASSUME NEW D, NEW q \in BOOLEAN, NEW ds \in Seq(D), Sound(q, ds), NEW ps \in Seq(D),
           NoTwice(ps), \A i \in DOMAIN ps : ps[i].parent \in IdsOf(ds),
           q => \A i \in DOMAIN ps : ps[i].id \notin IdsOf(ds)
    PROVE  /\ ds \o ps \in Seq(D) /\ Sound(q, ds \o ps)
           /\ IdsOf(ds \o ps) = IdsOf(ds) \cup IdsOf(ps)
<1>. DEFINE n == Len(ds)
            m == Len(ps)
            e == ds \o ps
<1>1. /\ n \in Nat /\ m \in Nat /\ DOMAIN ds = 1 .. n /\ DOMAIN ps = 1 .. m /\ DOMAIN e = 1 .. n + m
      /\ e \in Seq(D)
      /\ \A i \in 1 .. n : e[i] = ds[i]
      /\ \A i \in 1 .. m : e[n + i] = ps[i]
  OBVIOUS
<1>. HIDE DEF e, n, m
<1>2. \A i \in 1 .. n + m : i \in 1 .. n \/ \E k \in 1 .. m : i = n + k
  <2>. TAKE i \in 1 .. n + m
  <2>1. CASE i > n
    <3>1. i - n \in 1 .. m /\ i = n + (i - n)
      BY <1>1, <2>1
    <3>. QED  BY <3>1
  <2>2. CASE ~ i > n
    BY <1>1, <2>2
  <2>. QED  BY <2>1, <2>2
<1>3. q => \A i \in 1 .. n, k \in 1 .. m : ds[i].id # ps[k].id
  BY <1>1 DEF IdsOf
<1>4. \A i \in 1 .. m : n + i \in 1 .. n + m
  BY <1>1
<1>5. q => NoTwice(e)
  <2>. SUFFICES ASSUME q, NEW i \in 1 .. n + m, NEW j \in 1 .. n + m, e[i].id = e[j].id
                PROVE  i = j
    BY <1>1 DEF NoTwice
  <2>1. CASE i \in 1 .. n /\ j \in 1 .. n
    <3>1. \A a, b \in 1 .. n : ds[a].id = ds[b].id => a = b
      BY <1>1 DEF NoTwice, Sound
    <3>2. e[i] = ds[i] /\ e[j] = ds[j]
      BY <1>1, <2>1
    <3>. QED  BY <2>1, <3>1, <3>2
  <2>2. ASSUME NEW k \in 1 .. m, NEW l \in 1 .. m, i = n + k, j = n + l
        PROVE  i = j
    <3>1. \A a, b \in 1 .. m : ps[a].id = ps[b].id => a = b
      BY <1>1 DEF NoTwice
    <3>2. e[i] = ps[k] /\ e[j] = ps[l]
      BY <1>1, <2>2
    <3>. QED  BY <2>2, <3>1, <3>2
  <2>3. \A b \in 1 .. n, k \in 1 .. m : e[b].id # e[n + k].id
    BY <1>1, <1>3
  <2>. QED  BY <1>2, <2>1, <2>2, <2>3
<1>6. ASSUME NEW i \in 1 .. n + m
      PROVE  e[i].parent = NoParent \/ \E j \in 1 .. (i - 1) : e[j].id = e[i].parent
  <2>1. CASE i \in 1 .. n
    <3>1. \A j \in 1 .. (i - 1) : j \in 1 .. n
      BY <1>1, <2>1
    <3>. QED  BY <1>1, <2>1, <3>1 DEF Linked, Sound
  <2>2. ASSUME NEW k \in 1 .. m, i = n + k
        PROVE  \E j \in 1 .. (i - 1) : e[j].id = e[i].parent
    <3>0. ps[k].parent \in IdsOf(ds) /\ IdsOf(ds) = {ds[j].id : j \in 1 .. n}
      BY <1>1 DEF IdsOf
    <3>1. PICK j \in 1 .. n : ds[j].id = ps[k].parent
      BY <3>0
    <3>2. j \in 1 .. (i - 1) /\ e[j] = ds[j] /\ e[i] = ps[k]
      BY <1>1, <2>2
    <3>. QED  BY <3>1, <3>2
  <2>. QED  BY <1>2, <2>1, <2>2
<1>7. Linked(e)
  BY <1>1, <1>6 DEF Linked
<1>8. IdsOf(e) = IdsOf(ds) \cup IdsOf(ps)
  <2>1. ASSUME NEW x \in IdsOf(e)
        PROVE  x \in IdsOf(ds) \cup IdsOf(ps)
    <3>1. IdsOf(e) = {e[i].id : i \in 1 .. n + m}
      BY <1>1 DEF IdsOf
    <3>2. PICK i \in 1 .. n + m : x = e[i].id
      BY <3>1
    <3>3. CASE i \in 1 .. n
      BY <1>1, <3>2, <3>3 DEF IdsOf
    <3>4. ASSUME NEW k \in 1 .. m, i = n + k
          PROVE  x \in IdsOf(ps)
      BY <1>1, <3>2, <3>4 DEF IdsOf
    <3>. QED  BY <1>2, <3>3, <3>4
  <2>2. ASSUME NEW x \in IdsOf(ds)
        PROVE  x \in IdsOf(e)
    <3>1. PICK i \in 1 .. n : x = ds[i].id
      BY <1>1 DEF IdsOf
    <3>2. i \in 1 .. n + m
      BY <1>1
    <3>. QED  BY <1>1, <3>1, <3>2 DEF IdsOf
  <2>3. ASSUME NEW x \in IdsOf(ps)
        PROVE  x \in IdsOf(e)
    <3>1. PICK i \in 1 .. m : x = ps[i].id
      BY <1>1 DEF IdsOf
    <3>. QED  BY <1>1, <1>4, <3>1 DEF IdsOf
  <2>. QED  BY <2>1, <2>2, <2>3
<1>. QED  BY <1>1, <1>5, <1>7, <1>8 DEF Sound, e

-----------------------------------------------------------------------------
(* What the probe p has found                                               *)

\* The ids that entries may give, and what a descriptor may be built from.
Ids(p) ==
    {BusId(p, e.bus) : e \in Entries} \cup {<<p, "entry", e.name>> : e \in Entries}
    \cup {<<p, "part", <<e.name, i>>>> : e \in Entries, i \in 1 .. LineCount}
    \cup {<<p, "entry", e.on>> : e \in Entries}
    \cup {<<p, "interface", <<e.on, e.number>>>> : e \in Entries}
Sources(report) == {report[e] : e \in DOMAIN report} \cup {"number", "bare", "ready"}
Descriptors(p, report) ==
    {Descriptor(id, parent, from) :
        id \in Ids(p), parent \in Ids(p) \cup {NoParent}, from \in Sources(report)}

\* The id of an entry that is no bus, and all the ids that it gives.
OwnId(p, e) ==
    IF e.kind = "interface" THEN <<p, "interface", <<e.on, e.number>>>> ELSE <<p, "entry", e.name>>
OwnIds(p, e) == {OwnId(p, e)} \cup {<<p, "part", <<e.name, i>>>> : i \in 1 .. LineCount}

\* The entries, up to the k-th, that may have given some.
Named(p, report, k) ==
    {Listing[i] : i \in {j \in 1 .. k : Chosen(p, report, j) /\ Listing[j].kind # "bus"}}

\* No usb interface was read in two configurations.
Apart(p, report) ==
    \A d, e \in Entries \cap DOMAIN report : d.probe = p => ~ SameInterface(d, e)

\* The devices found are sound; every bus with an id is among them, and
\* nothing has an id but those buses and what the entries gave.
SoundTo(p, report, k, found) ==
    /\ found = [devices |-> found.devices, bus_ids |-> found.bus_ids]
    /\ found.devices \in Seq(Descriptors(p, report))
    /\ Sound(Apart(p, report), found.devices)
    /\ \A b \in found.bus_ids : BusId(p, b) \in IdsOf(found.devices)
    /\ \A id \in IdsOf(found.devices) :
        \/ \E b \in found.bus_ids : id = BusId(p, b)
        \/ \E e \in Named(p, report, k) : id \in OwnIds(p, e)

\* Entries of the probe other than buses have different names.
NamesDiffer(p, report) ==
    \A d, e \in Entries \cap DOMAIN report :
        d.probe = p /\ e.probe = p /\ d.kind # "bus" /\ e.kind # "bus" /\ d.name = e.name => d = e

LEMMA IdFacts ==
    ASSUME NEW p, NEW e, NEW d, NEW b, NEW c
    PROVE  /\ BusId(p, b) = BusId(p, c) => b = c
           /\ BusId(p, b) \notin OwnIds(p, e)
           /\ OwnId(p, e) \in OwnIds(p, e)
           /\ \A i \in 1 .. LineCount : /\ <<p, "part", <<e.name, i>>>> \in OwnIds(p, e)
                                        /\ <<p, "part", <<e.name, i>>>> # OwnId(p, e)
           /\ \A i, j : <<p, "part", <<e.name, i>>>> = <<p, "part", <<e.name, j>>>> => i = j
BY DEF BusId, OwnIds, OwnId

LEMMA SharedId ==
    ASSUME NEW p, NEW e, NEW d, NEW id, id \in OwnIds(p, e), id \in OwnIds(p, d)
    PROVE  \/ d.name = e.name
           \/ /\ d.kind = "interface" /\ e.kind = "interface"
              /\ d.on = e.on /\ d.number = e.number
BY DEF OwnIds, OwnId

LEMMA NamedGrows ==
    ASSUME NEW p, NEW report, NEW k \in Nat
    PROVE  Named(p, report, k) \subseteq Named(p, report, k + 1)
BY DEF Named

LEMMA SoundGrows ==
    ASSUME NEW p, NEW report, NEW k \in Nat, NEW found, SoundTo(p, report, k, found)
    PROVE  SoundTo(p, report, k + 1, found)
BY NamedGrows DEF SoundTo

LEMMA NothingIsSound ==
    ASSUME NEW p, NEW report
    PROVE  SoundTo(p, report, 0, NothingFound)
<1>1. NothingFound.devices = <<>> /\ NothingFound.bus_ids = {}
      /\ NothingFound = [devices |-> NothingFound.devices, bus_ids |-> NothingFound.bus_ids]
  BY DEF NothingFound
<1>2. <<>> \in Seq(Descriptors(p, report)) /\ DOMAIN <<>> = {}
  OBVIOUS
<1>3. Sound(Apart(p, report), <<>>) /\ IdsOf(<<>>) = {}
  BY <1>2 DEF Sound, NoTwice, Linked, IdsOf
<1>. QED  BY <1>1, <1>2, <1>3 DEF SoundTo

\* An entry that is read gives ids that nothing has.
LEMMA OwnIdsAreFresh ==
    ASSUME NEW p, NEW report, NamesDiffer(p, report), NEW k \in Nat, k + 1 \in 1 .. Len(Listing),
           Chosen(p, report, k + 1), Listing[k + 1].kind # "bus",
           NEW found, SoundTo(p, report, k, found)
    PROVE  /\ Apart(p, report) => OwnIds(p, Listing[k + 1]) \cap IdsOf(found.devices) = {}
           /\ Listing[k + 1] \in Named(p, report, k + 1) /\ Listing[k + 1] \in Entries
<1>. DEFINE e == Listing[k + 1]
<1>1. e \in Entries /\ e \in DOMAIN report /\ e.probe = p /\ e.kind # "bus"
  BY ListingAssumption DEF Entries, ToSet, Chosen
<1>2. e \in Named(p, report, k + 1)
  BY DEF Named
<1>3. ASSUME NEW d \in Named(p, report, k)
      PROVE  /\ d.name # e.name
             /\ Apart(p, report) => ~ SameInterface(d, e) /\ d # e /\ d.probe = p
  <2>1. PICK i \in 1 .. k : d = Listing[i] /\ Chosen(p, report, i) /\ d.kind # "bus"
    BY DEF Named
  <2>2. i \in DOMAIN Listing /\ k + 1 \in DOMAIN Listing /\ i # k + 1
    BY ListingAssumption
  <2>3. d # e
    BY <2>1, <2>2, ListingAssumption DEF IsInjective
  <2>4. d \in Entries \cap DOMAIN report /\ d.probe = p
    BY <2>1, <2>2 DEF Entries, ToSet, Chosen
  <2>. QED  BY <1>1, <2>1, <2>3, <2>4 DEF NamesDiffer, Apart
<1>. HIDE DEF e
<1>4. ASSUME Apart(p, report), NEW id \in IdsOf(found.devices), id \in OwnIds(p, e)
      PROVE  FALSE
  <2>1. ~ \E b \in found.bus_ids : id = BusId(p, b)
    <3>1. \A b : BusId(p, b) \notin OwnIds(p, e)
      BY IdFacts
    <3>. QED  BY <1>4, <3>1
  <2>2. PICK d \in Named(p, report, k) : id \in OwnIds(p, d)
    BY <2>1 DEF SoundTo
  <2>3. \/ d.name = e.name
        \/ /\ d.kind = "interface" /\ e.kind = "interface"
           /\ d.on = e.on /\ d.number = e.number
    BY <1>4, <2>2, SharedId
  <2>. QED  BY <1>1, <1>3, <1>4, <2>3 DEF SameInterface
<1>. QED  BY <1>1, <1>2, <1>4 DEF e

LEMMA DescriptorFacts ==
    ASSUME NEW p, NEW report, NEW id, NEW parent, NEW from,
           id \in Ids(p), parent \in Ids(p) \/ parent = NoParent, from \in Sources(report)
    PROVE  /\ Descriptor(id, parent, from) \in Descriptors(p, report)
           /\ Descriptor(id, parent, from).id = id /\ Descriptor(id, parent, from).parent = parent
BY DEF Descriptor, Descriptors

LEMMA FoundIdsAreIds ==
    ASSUME NEW p, NEW report, NEW ds \in Seq(Descriptors(p, report))
    PROVE  IdsOf(ds) \subseteq Ids(p)
<1>1. \A d \in Descriptors(p, report) : d.id \in Ids(p)
  BY DEF Descriptors, Descriptor
<1>2. \A i \in DOMAIN ds : ds[i] \in Descriptors(p, report)
  OBVIOUS
<1>. QED  BY <1>1, <1>2 DEF IdsOf

\* A bus that has no id yet.
LEMMA BusIsSound ==
    ASSUME NEW p, NEW report, NEW k \in Nat, NEW found, SoundTo(p, report, k, found),
           NEW e \in Entries, e.bus \notin found.bus_ids, NEW from \in Sources(report), NEW after,
           after = [Push(found, Descriptor(BusId(p, e.bus), NoParent, from))
                        EXCEPT !.bus_ids = @ \cup {e.bus}]
    PROVE  SoundTo(p, report, k, after) /\ e.bus \in after.bus_ids
<1>. DEFINE b == e.bus
            d == Descriptor(BusId(p, b), NoParent, from)
            ds == found.devices
            D == Descriptors(p, report)
<1>1. BusId(p, b) \in Ids(p)
  BY DEF Ids
<1>2. d \in D /\ d.id = BusId(p, b) /\ d.parent = NoParent
  BY <1>1, DescriptorFacts
<1>3. after = [devices |-> Append(ds, d), bus_ids |-> found.bus_ids \cup {b}]
  <2>1. found = [devices |-> ds, bus_ids |-> found.bus_ids]
    BY DEF SoundTo
  <2>2. Push(found, d) = [devices |-> Append(ds, d), bus_ids |-> found.bus_ids]
    BY <2>1 DEF Push
  <2>3. after = [Push(found, d) EXCEPT !.bus_ids = @ \cup {b}]
    OBVIOUS
  <2>. DEFINE q == Append(ds, d)
  <2>4. after = [[devices |-> q, bus_ids |-> found.bus_ids] EXCEPT !.bus_ids = @ \cup {b}]
    BY <2>2, <2>3
  <2>. HIDE DEF q, b
  <2>5. after = [devices |-> q, bus_ids |-> found.bus_ids \cup {b}]
    BY <2>4
  <2>. QED  BY <2>5 DEF q
<1>4. BusId(p, b) \notin IdsOf(ds)
  <2>1. ASSUME BusId(p, b) \in IdsOf(ds)
        PROVE  FALSE
    <3>1. \/ \E c \in found.bus_ids : BusId(p, b) = BusId(p, c)
          \/ \E x \in Named(p, report, k) : BusId(p, b) \in OwnIds(p, x)
      BY <2>1 DEF SoundTo
    <3>. QED  BY <3>1, IdFacts
  <2>. QED  BY <2>1
<1>. DEFINE q == Apart(p, report)
<1>5. ds \in Seq(D) /\ Sound(q, ds) /\ q \in BOOLEAN
  BY DEF SoundTo, Apart
<1>. HIDE DEF d, D, q
<1>6. /\ Append(ds, d) \in Seq(D) /\ Sound(q, Append(ds, d))
      /\ IdsOf(Append(ds, d)) = IdsOf(ds) \cup {BusId(p, b)}
  BY <1>2, <1>4, <1>5, PushIsSound
<1>7. after.devices = Append(ds, d) /\ after.bus_ids = found.bus_ids \cup {b}
  BY <1>3
<1>8. \A c \in after.bus_ids : BusId(p, c) \in IdsOf(after.devices)
  BY <1>6, <1>7 DEF SoundTo
<1>9. ASSUME NEW id \in IdsOf(after.devices)
      PROVE  \/ \E c \in after.bus_ids : id = BusId(p, c)
             \/ \E x \in Named(p, report, k) : id \in OwnIds(p, x)
  BY <1>6, <1>7 DEF SoundTo
<1>. QED  BY <1>3, <1>6, <1>7, <1>8, <1>9 DEF SoundTo, D, q

\* What an entry is itself.
EntryLeaves(p, report, k, found, from, parent) ==
    LET after == Push(found, Descriptor(EntryId(Listing[k + 1]), parent, from))
    IN  /\ SoundTo(p, report, k + 1, after) /\ after.bus_ids = found.bus_ids
        /\ IdsOf(after.devices) = IdsOf(found.devices) \cup {EntryId(Listing[k + 1])}

LEMMA EntryIsSound ==
    ASSUME NEW p, NEW report, NamesDiffer(p, report), NEW k \in Nat, k + 1 \in 1 .. Len(Listing),
           Chosen(p, report, k + 1), Listing[k + 1].kind # "bus",
           NEW found, SoundTo(p, report, k, found), NEW from \in Sources(report),
           NEW parent, parent = NoParent \/ parent \in IdsOf(found.devices)
    PROVE  EntryLeaves(p, report, k, found, from, parent)
<1>. DEFINE e == Listing[k + 1]
            d == Descriptor(EntryId(e), parent, from)
            ds == found.devices
            D == Descriptors(p, report)
            after == Push(found, d)
<1>. DEFINE q == Apart(p, report)
<1>1. /\ q => OwnIds(p, e) \cap IdsOf(ds) = {}
      /\ e \in Named(p, report, k + 1) /\ e \in Entries
  BY OwnIdsAreFresh
<1>2. EntryId(e) = OwnId(p, e)
  BY DEF EntryId, OwnId, Chosen
<1>3. EntryId(e) \in Ids(p) /\ EntryId(e) \in OwnIds(p, e) /\ (q => EntryId(e) \notin IdsOf(ds))
  <2>1. OwnId(p, e) \in Ids(p)
    BY <1>1 DEF Ids, OwnId
  <2>2. OwnId(p, e) \in OwnIds(p, e)
    BY DEF OwnIds
  <2>. QED  BY <1>1, <1>2, <2>1, <2>2
<1>4. ds \in Seq(D) /\ Sound(q, ds) /\ q \in BOOLEAN
  BY DEF SoundTo, Apart
<1>5. parent \in Ids(p) \/ parent = NoParent
  BY <1>4, FoundIdsAreIds
<1>6. d \in D /\ d.id = EntryId(e) /\ d.parent = parent
  <2>. DEFINE id == EntryId(e)
  <2>1. id \in Ids(p)
    BY <1>3
  <2>. HIDE DEF id
  <2>2. /\ Descriptor(id, parent, from) \in Descriptors(p, report)
        /\ Descriptor(id, parent, from).id = id /\ Descriptor(id, parent, from).parent = parent
    BY <1>5, <2>1, DescriptorFacts
  <2>. QED  BY <2>2 DEF id
<1>7. after = [devices |-> Append(ds, d), bus_ids |-> found.bus_ids]
  <2>1. found = [devices |-> ds, bus_ids |-> found.bus_ids]
    BY DEF SoundTo
  <2>. QED  BY <2>1 DEF Push
<1>8. \A id \in IdsOf(ds) :
            \/ \E b \in found.bus_ids : id = BusId(p, b)
            \/ \E x \in Named(p, report, k + 1) : id \in OwnIds(p, x)
  BY NamedGrows DEF SoundTo
<1>9. \A b \in found.bus_ids : BusId(p, b) \in IdsOf(ds)
  BY DEF SoundTo
<1>. HIDE DEF d, D, e, q
<1>10. /\ Append(ds, d) \in Seq(D) /\ Sound(q, Append(ds, d))
       /\ IdsOf(Append(ds, d)) = IdsOf(ds) \cup {EntryId(e)}
  BY <1>3, <1>4, <1>6, PushIsSound
<1>11. after.devices = Append(ds, d) /\ after.bus_ids = found.bus_ids
  BY <1>7
<1>. HIDE DEF after
<1>12. \A id \in IdsOf(after.devices) :
            \/ \E b \in after.bus_ids : id = BusId(p, b)
            \/ \E x \in Named(p, report, k + 1) : id \in OwnIds(p, x)
  BY <1>1, <1>3, <1>8, <1>10, <1>11
<1>13. SoundTo(p, report, k + 1, after)
  BY <1>7, <1>9, <1>10, <1>11, <1>12 DEF SoundTo, D, q
<1>14. IdsOf(after.devices) = IdsOf(ds) \cup {EntryId(e)}
  BY <1>10, <1>11
<1>. QED  BY <1>11, <1>13, <1>14 DEF after, d, e, EntryLeaves

\* A chip and its parts.
LEMMA ChipIsSound ==
    ASSUME NEW p, NEW report, NamesDiffer(p, report), NEW k \in Nat, k + 1 \in 1 .. Len(Listing),
           Chosen(p, report, k + 1), Listing[k + 1].kind \notin {"bus", "interface"},
           NEW found, SoundTo(p, report, k, found),
           NEW from \in Sources(report), NEW of \in Sources(report)
    PROVE  LET e == Listing[k + 1]
           IN  SoundTo(p, report, k + 1, [Push(found, Descriptor(EntryId(e), NoParent, from))
                                            EXCEPT !.devices = @ \o Parts(e, of)])
<1>. DEFINE e == Listing[k + 1]
            chip == Push(found, Descriptor(EntryId(e), NoParent, from))
            ps == Parts(e, of)
            n == IF of = "bare" THEN 0 ELSE LineCount
            D == Descriptors(p, report)
            after == [chip EXCEPT !.devices = @ \o ps]
<1>1. /\ SoundTo(p, report, k + 1, chip)
      /\ IdsOf(chip.devices) = IdsOf(found.devices) \cup {EntryId(e)}
  <2>. DEFINE pushed(parent) == Push(found, Descriptor(EntryId(Listing[k + 1]), parent, from))
  <2>0. ASSUME NEW parent, parent = NoParent \/ parent \in IdsOf(found.devices)
        PROVE  /\ SoundTo(p, report, k + 1, pushed(parent))
               /\ IdsOf(pushed(parent).devices) = IdsOf(found.devices) \cup {EntryId(Listing[k + 1])}
    <3>1. EntryLeaves(p, report, k, found, from, parent)
      BY <2>0, EntryIsSound
    <3>. QED  BY <3>1 DEF EntryLeaves
  <2>1. \A parent : parent = NoParent \/ parent \in IdsOf(found.devices) =>
            /\ SoundTo(p, report, k + 1, pushed(parent))
            /\ IdsOf(pushed(parent).devices) = IdsOf(found.devices) \cup {EntryId(Listing[k + 1])}
    BY <2>0
  <2>2. chip = pushed(NoParent)
    OBVIOUS
  <2>. HIDE DEF pushed, chip
  <2>. QED  BY <2>1, <2>2
<1>. DEFINE q == Apart(p, report)
<1>2. /\ q => OwnIds(p, e) \cap IdsOf(found.devices) = {}
      /\ e \in Named(p, report, k + 1) /\ e \in Entries
  BY OwnIdsAreFresh
<1>3. EntryId(e) = <<p, "entry", e.name>> /\ EntryId(e) = OwnId(p, e) /\ e.probe = p
  BY DEF EntryId, OwnId, Chosen
<1>. HIDE DEF e
<1>4. n \in Nat /\ \A i \in 1 .. n : i \in 1 .. LineCount
  BY ListingAssumption
<1>5. ps = [i \in 1 .. n |-> Descriptor(<<p, "part", <<e.name, i>>>>, EntryId(e), of)]
  BY <1>3 DEF Parts
<1>6. ASSUME NEW i \in 1 .. n
      PROVE  /\ ps[i] \in D /\ ps[i].id = <<p, "part", <<e.name, i>>>> /\ ps[i].parent = EntryId(e)
             /\ ps[i].id \in OwnIds(p, e) /\ (q => ps[i].id \notin IdsOf(chip.devices))
  <2>. DEFINE id == <<p, "part", <<e.name, i>>>>
  <2>1. id \in Ids(p) /\ EntryId(e) \in Ids(p)
    BY <1>2, <1>3, <1>4 DEF Ids
  <2>2. id \in OwnIds(p, e) /\ id # EntryId(e)
    <3>1. id \in OwnIds(p, e)
      BY <1>4 DEF OwnIds
    <3>2. id # <<p, "entry", e.name>>
      OBVIOUS
    <3>. QED  BY <1>3, <3>1, <3>2
  <2>3. q => id \notin IdsOf(chip.devices)
    BY <1>1, <1>2, <2>2
  <2>4. ps[i] = Descriptor(id, EntryId(e), of)
    BY <1>5
  <2>. HIDE DEF id, chip, ps, q
  <2>5. /\ Descriptor(id, EntryId(e), of) \in D
        /\ Descriptor(id, EntryId(e), of).id = id
        /\ Descriptor(id, EntryId(e), of).parent = EntryId(e)
    BY <2>1, DescriptorFacts
  <2>6. ps[i] \in D /\ ps[i].id = id /\ ps[i].parent = EntryId(e)
    BY <2>4, <2>5
  <2>. QED  BY <2>2, <2>3, <2>6 DEF id
<1>. HIDE DEF n
<1>7. DOMAIN ps = 1 .. n /\ ps = [i \in 1 .. n |-> ps[i]]
  BY <1>5
<1>. HIDE DEF ps, D
<1>8. ps \in [1 .. n -> D]
  BY <1>6, <1>7
<1>9. ps \in Seq(D)
  BY <1>4, <1>8
<1>10. NoTwice(ps)
  <2>. SUFFICES ASSUME NEW i \in 1 .. n, NEW j \in 1 .. n, ps[i].id = ps[j].id
                PROVE  i = j
    BY <1>7 DEF NoTwice
  <2>1. <<p, "part", <<e.name, i>>>> = <<p, "part", <<e.name, j>>>>
    BY <1>6
  <2>. QED  BY <2>1
<1>. DEFINE ds == chip.devices
<1>11. ds \in Seq(D) /\ Sound(q, ds) /\ q \in BOOLEAN /\ chip = [devices |-> ds, bus_ids |-> chip.bus_ids]
  BY <1>1 DEF SoundTo, D, Apart
<1>12. EntryId(e) \in IdsOf(ds)
  BY <1>1
<1>13. \A b \in chip.bus_ids : BusId(p, b) \in IdsOf(ds)
  BY <1>1 DEF SoundTo
<1>14. \A id \in IdsOf(ds) :
            \/ \E b \in chip.bus_ids : id = BusId(p, b)
            \/ \E x \in Named(p, report, k + 1) : id \in OwnIds(p, x)
  BY <1>1 DEF SoundTo
<1>15. /\ \A i \in DOMAIN ps : ps[i].parent \in IdsOf(ds)
       /\ q => \A i \in DOMAIN ps : ps[i].id \notin IdsOf(ds)
  BY <1>6, <1>7, <1>12
<1>16. after = [devices |-> ds \o ps, bus_ids |-> chip.bus_ids]
  <2>. DEFINE all == ds \o ps
  <2>1. after = [chip EXCEPT !.devices = all]
    OBVIOUS
  <2>. HIDE DEF all, chip
  <2>2. after = [devices |-> all, bus_ids |-> chip.bus_ids]
    BY <1>11, <2>1
  <2>. QED  BY <2>2 DEF all
<1>17. after.devices = ds \o ps /\ after.bus_ids = chip.bus_ids
  BY <1>16
<1>18. /\ ds \o ps \in Seq(D) /\ Sound(q, ds \o ps) /\ IdsOf(ds \o ps) = IdsOf(ds) \cup IdsOf(ps)
  <2>. HIDE DEF ds, q
  <2>. QED  BY <1>9, <1>10, <1>11, <1>15, PartsAreSound
<1>19. \A id \in IdsOf(ps) : id \in OwnIds(p, e)
  BY <1>6, <1>7 DEF IdsOf
<1>. HIDE DEF after, ds, chip
<1>20. \A id \in IdsOf(after.devices) :
            \/ \E b \in after.bus_ids : id = BusId(p, b)
            \/ \E x \in Named(p, report, k + 1) : id \in OwnIds(p, x)
  BY <1>2, <1>14, <1>17, <1>18, <1>19
<1>21. \A b \in after.bus_ids : BusId(p, b) \in IdsOf(after.devices)
  BY <1>13, <1>17, <1>18
<1>22. after = [devices |-> after.devices, bus_ids |-> after.bus_ids]
  BY <1>16, <1>17
<1>23. SoundTo(p, report, k + 1, after)
  BY <1>17, <1>18, <1>20, <1>21, <1>22 DEF SoundTo, D, q
<1>. QED  BY <1>23 DEF after, chip, ps, e

\* A device on a bus.
LEMMA OnBusIsSound ==
    ASSUME NEW p, NEW report, NamesDiffer(p, report), NEW k \in Nat, k + 1 \in 1 .. Len(Listing),
           Chosen(p, report, k + 1), Listing[k + 1].kind # "bus",
           NEW found, SoundTo(p, report, k, found), NEW from \in Sources(report)
    PROVE  LET e == Listing[k + 1]
           IN  SoundTo(p, report, k + 1,
                       Push(WithBus(found, e), Descriptor(EntryId(e), BusId(e.probe, e.bus), from)))
<1>. DEFINE e == Listing[k + 1]
            with == WithBus(found, e)
<1>1. e \in Entries /\ e.probe = p
  BY OwnIdsAreFresh DEF Chosen
<1>2. SoundTo(p, report, k, with) /\ e.bus \in with.bus_ids
  <2>1. CASE e.bus \in found.bus_ids
    BY <2>1 DEF WithBus
  <2>2. CASE e.bus \notin found.bus_ids
    <3>1. with = [Push(found, Descriptor(BusId(p, e.bus), NoParent, "number"))
                      EXCEPT !.bus_ids = @ \cup {e.bus}]
      BY <1>1, <2>2 DEF WithBus
    <3>2. "number" \in Sources(report)
      BY DEF Sources
    <3>. HIDE DEF e, with
    <3>. QED  BY <1>1, <2>2, <3>1, <3>2, BusIsSound
  <2>. QED  BY <2>1, <2>2
<1>3. BusId(p, e.bus) \in IdsOf(with.devices)
  BY <1>2 DEF SoundTo
<1>. HIDE DEF with
<1>4. SoundTo(p, report, k + 1, Push(with, Descriptor(EntryId(e), BusId(p, e.bus), from)))
  <2>. DEFINE parent == BusId(p, e.bus)
  <2>1. parent = NoParent \/ parent \in IdsOf(with.devices)
    BY <1>3
  <2>. HIDE DEF parent
  <2>2. EntryLeaves(p, report, k, with, from, parent)
    BY <1>2, <2>1, EntryIsSound
  <2>. QED  BY <2>2 DEF EntryLeaves, parent
<1>. QED  BY <1>1, <1>4 DEF with

\* One entry more.
LEMMA EntryKeepsSound ==
    ASSUME NEW p \in Probes, NEW report, NamesDiffer(p, report), NEW k \in Nat,
           k + 1 \in 1 .. Len(Listing), NEW found, SoundTo(p, report, k, found)
    PROVE  SoundTo(p, report, k + 1, AfterEntry(p, report, found, k + 1))
<1>. DEFINE e == Listing[k + 1]
            from == report[e]
<1>1. CASE ~ Chosen(p, report, k + 1)
  BY <1>1, SoundGrows DEF AfterEntry
<1>2. CASE Chosen(p, report, k + 1)
  <2>1. e \in Entries /\ e.probe = p /\ e \in DOMAIN report
    BY <1>2, ListingAssumption DEF Chosen, Entries, ToSet
  <2>2. AfterEntry(p, report, found, k + 1) = EntryDescriptors(found, e, from)
    BY <1>2 DEF AfterEntry
  <2>3. from \in Sources(report) /\ "bare" \in Sources(report) /\ "ready" \in Sources(report)
    BY <2>1 DEF Sources
  <2>4. SoundTo(p, report, k + 1, found)
    BY SoundGrows
  <2>5. CASE e.kind = "bus"
    <3>1. EntryDescriptors(found, e, from) = BusDescriptors(found, e, from)
      BY <2>5 DEF EntryDescriptors
    <3>2. CASE e.bus \in found.bus_ids
      BY <2>2, <2>4, <3>1, <3>2 DEF BusDescriptors
    <3>3. CASE e.bus \notin found.bus_ids
      <4>. DEFINE after == BusDescriptors(found, e, from)
      <4>1. after = [Push(found, Descriptor(BusId(p, e.bus), NoParent, from))
                         EXCEPT !.bus_ids = @ \cup {e.bus}]
        BY <2>1, <2>5, <3>3 DEF BusDescriptors, EntryId
      <4>. HIDE DEF after, e, from
      <4>2. SoundTo(p, report, k, after)
        BY <2>1, <2>3, <3>3, <4>1, BusIsSound
      <4>3. SoundTo(p, report, k + 1, after)
        BY <4>2, SoundGrows
      <4>. QED  BY <2>2, <3>1, <4>3 DEF after
    <3>. QED  BY <3>2, <3>3
  <2>6. CASE e.kind # "bus"
    <3>. DEFINE pushed(parent) == Push(found, Descriptor(EntryId(e), parent, from))
    <3>1. \A parent : parent = NoParent \/ parent \in IdsOf(found.devices) =>
                SoundTo(p, report, k + 1, pushed(parent))
      <4>1. \A parent : parent = NoParent \/ parent \in IdsOf(found.devices) =>
                EntryLeaves(p, report, k, found, from, parent)
        BY <1>2, <2>3, <2>6, EntryIsSound
      <4>. QED  BY <4>1 DEF EntryLeaves
    <3>2. CASE e.kind = "interface"
      <4>. DEFINE parent == <<e.probe, "entry", e.on>>
      <4>1. EntryDescriptors(found, e, from) = UsbInterfaceDescriptors(found, e, from)
        BY <3>2 DEF EntryDescriptors
      <4>2. CASE \E i \in DOMAIN found.devices : found.devices[i].id = parent
        <5>1. parent \in IdsOf(found.devices)
          BY <4>2 DEF IdsOf
        <5>2. UsbInterfaceDescriptors(found, e, from) = pushed(parent)
          BY <4>2 DEF UsbInterfaceDescriptors
        <5>. QED  BY <2>2, <3>1, <4>1, <5>1, <5>2
      <4>3. CASE ~ \E i \in DOMAIN found.devices : found.devices[i].id = parent
        <5>1. UsbInterfaceDescriptors(found, e, from) = found
          BY <4>3 DEF UsbInterfaceDescriptors
        <5>. QED  BY <2>2, <2>4, <4>1, <5>1
      <4>. QED  BY <4>2, <4>3
    <3>3. CASE e.kind # "interface"
      <4>1. p \in {"gpio", "leds", "pwm", "hwmon", "i2c", "spi", "uart", "usb"}
        BY DEF Probes, RootsOf
      <4>2. CASE p \in {"gpio", "pwm"}
        <5>. DEFINE of == IF p = "gpio" \/ from = "bare" THEN from ELSE "ready"
        <5>1. of \in Sources(report)
          BY <2>3
        <5>2. EntryDescriptors(found, e, from) =
                    [Push(found, Descriptor(EntryId(e), NoParent, of))
                        EXCEPT !.devices = @ \o Parts(e, from)]
          BY <2>1, <2>6, <3>3, <4>2 DEF EntryDescriptors, LineDescriptors, ChannelDescriptors
        <5>. HIDE DEF of, from
        <5>3. SoundTo(p, report, k + 1,
                    [Push(found, Descriptor(EntryId(e), NoParent, of))
                        EXCEPT !.devices = @ \o Parts(e, from)])
          BY <1>2, <2>3, <2>6, <3>3, <5>1, ChipIsSound
        <5>. QED  BY <2>2, <5>2, <5>3
      <4>3. CASE p \in {"leds", "hwmon", "uart"}
        <5>1. EntryDescriptors(found, e, from) \in {found, pushed(NoParent)}
          BY <2>1, <2>6, <3>3, <4>3
             DEF EntryDescriptors, LedDescriptors, FanDescriptors, PortDescriptors
        <5>2. SoundTo(p, report, k + 1, pushed(NoParent))
          BY <3>1
        <5>. HIDE DEF pushed
        <5>. QED  BY <2>2, <2>4, <5>1, <5>2
      <4>4. CASE p \in {"i2c", "spi", "usb"}
        <5>1. EntryDescriptors(found, e, from) =
                    Push(WithBus(found, e), Descriptor(EntryId(e), BusId(e.probe, e.bus), from))
          BY <2>1, <2>6, <3>3, <4>4
             DEF EntryDescriptors, I2cDescriptors, SpiDescriptors, UsbDescriptors
        <5>. HIDE DEF from
        <5>2. SoundTo(p, report, k + 1,
                    Push(WithBus(found, e), Descriptor(EntryId(e), BusId(e.probe, e.bus), from)))
          BY <1>2, <2>3, <2>6, OnBusIsSound
        <5>. QED  BY <2>2, <5>1, <5>2
      <4>. QED  BY <4>1, <4>2, <4>3, <4>4
    <3>. QED  BY <3>2, <3>3
  <2>. QED  BY <2>5, <2>6
<1>. QED  BY <1>1, <1>2

\* Whatever a probe has read of its entries, it finds no device before its parent,
\* and no id twice but that of a usb interface in two configurations.
LEMMA DiscoverIsSound ==
    ASSUME NEW p \in Probes, NEW report, NamesDiffer(p, report)
    PROVE  Sound(Apart(p, report), Discover(p, report))
<1>. DEFINE n == Len(Listing)
<1>1. PICK F : IsFound(F, p, report, n) /\ Discover(p, report) = F[n].devices
  BY FoundFacts
<1>2. n \in Nat
  BY ListingAssumption
<1>. DEFINE T == {k \in Nat : k <= n => SoundTo(p, report, k, F[k])}
<1>3. 0 \in T
  <2>1. F[0] = NothingFound
    BY <1>1, <1>2 DEF IsFound
  <2>. QED  BY <2>1, NothingIsSound
<1>4. ASSUME NEW k \in T
      PROVE  k + 1 \in T
  <2>. SUFFICES ASSUME k + 1 <= n
                PROVE  SoundTo(p, report, k + 1, F[k + 1])
    OBVIOUS
  <2>1. k \in Nat /\ k + 1 \in 1 .. n /\ k <= n /\ k + 1 \in 0 .. n /\ (k + 1) - 1 = k /\ k + 1 # 0
    BY <1>2
  <2>2. F[k + 1] = AfterEntry(p, report, F[k], k + 1)
    BY <1>1, <2>1 DEF IsFound
  <2>3. SoundTo(p, report, k, F[k])
    BY <2>1
  <2>. QED  BY <2>1, <2>2, <2>3, EntryKeepsSound
<1>5. T = Nat
  <2>1. T \in SUBSET Nat
    OBVIOUS
  <2>. HIDE DEF T
  <2>. QED  BY <1>3, <1>4, <2>1, CountingUp
<1>6. SoundTo(p, report, n, F[n])
  BY <1>2, <1>5
<1>. QED  BY <1>1, <1>6 DEF SoundTo

-----------------------------------------------------------------------------
(* What a refresh is about to commit                                        *)

\* Entries of one probe that are not buses are below the same root.
LEMMA WorldNamesDiffer ==
    ASSUME Shape, NEW p, NEW report, DOMAIN report \subseteq world
    PROVE  NamesDiffer(p, report)
<1>. SUFFICES ASSUME NEW d \in Entries \cap DOMAIN report, NEW e \in Entries \cap DOMAIN report,
                     d.probe = p, e.probe = p, d.kind # "bus", e.kind # "bus", d.name = e.name
              PROVE  d = e
  BY DEF NamesDiffer
<1>1. d \in world /\ e \in world
  OBVIOUS
<1>2. d.root = e.root
  BY ListingAssumption
<1>3. PathOf(d) = PathOf(e)
  BY <1>2 DEF PathOf
<1>. QED  BY <1>1, <1>3, WorldFacts DEF Shape

\* Whatever came and went while a refresh listed and read the entries, what a
\* probe is about to commit has every device after its parent, and every id
\* once unless one usb interface was read in two configurations (the discover
\* functions of the probes, and the ids of usb.rs).
THEOREM DescriptorsAreSound == HotplugSpec => []DescriptorsSound
<1>1. HotplugInv => DescriptorsSound
  <2>. SUFFICES ASSUME HotplugInv, NEW p \in Probes
                PROVE  LET devices == Report(p) IN
                       /\ \/ IdsDiffer(devices)
                          \/ \E d, e \in DOMAIN read : d.probe = p /\ SameInterface(d, e)
                       /\ \A k \in DOMAIN devices :
                             \/ devices[k].parent = NoParent
                             \/ \E j \in 1..(k - 1) : devices[j].id = devices[k].parent
    BY DEF DescriptorsSound, Reporting
  <2>. DEFINE report == [e \in {d \in DOMAIN read : d.probe = p /\ read[d] # "skipped"} |-> read[e]]
              devices == Discover(p, report)
  <2>1. Shape /\ DOMAIN report \subseteq world /\ DOMAIN report \subseteq DOMAIN read
    BY DEF HotplugInv, Shape, PollerSound
  <2>2. Report(p) = devices
    BY DEF Report
  <2>3. ~ Apart(p, report) => \E d, e \in DOMAIN read : d.probe = p /\ SameInterface(d, e)
    BY <2>1 DEF Apart
  <2>. HIDE DEF report
  <2>4. NamesDiffer(p, report)
    BY <2>1, WorldNamesDiffer
  <2>5. Sound(Apart(p, report), devices)
    BY <2>4, DiscoverIsSound
  <2>. HIDE DEF devices
  <2>6. IdsDiffer(devices) \/ ~ Apart(p, report)
    BY <2>5 DEF Sound, NoTwice, IdsDiffer
  <2>. QED  BY <2>2, <2>3, <2>5, <2>6 DEF Sound, Linked
<1>. QED  BY <1>1, HotplugInductive, PTL
=============================================================================
