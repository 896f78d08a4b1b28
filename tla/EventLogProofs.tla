--------------------------- MODULE EventLogProofs ---------------------------
(***************************************************************************)
(* Proofs about EventLog for every set of tasks, subscriptions, event sizes *)
(* and retention limits, and for every bound.                               *)
(*                                                                         *)
(* The inductive invariant ties three numberings together: the log index    *)
(* (base plus position), the ordinal of the event and the notifier's tail.  *)
(* A subscriber's cursor is then also the ordinal it is owed, and a cursor  *)
(* behind the tail implies a version that was not yet observed.             *)
(***************************************************************************)
EXTENDS EventLog, TLAPS

\* The events of log have the ordinals b, b+1, ... and lie end to end in the
\* byte stream, the last one ending at offset s.
Placed(log, b, s) ==
    /\ \A i \in 1 .. Len(log) : log[i].id = b + i - 1
    /\ \A i \in 1 .. Len(log) : log[i].start + log[i].bytes <= s
    /\ \A i \in 1 .. (Len(log) - 1) :
          log[i + 1].start = log[i].start + log[i].bytes
    /\ \A i, j \in 1 .. Len(log) :
          i < j => log[i].start + log[i].bytes <= log[j].start
    /\ Len(log) > 0 => log[Len(log)].start + log[Len(log)].bytes = s

\* The notifier has been told of every event, and the log index of an event
\* is its ordinal.
Numbered ==
    /\ ntail = TailIndex
    /\ pushed = TailIndex
    /\ ntail > 0 => version > 0

\* A subscriber is owed the events from its cursor on, and it has an unseen
\* version to wake up for whenever there are any.
Owed ==
    \A s \in Subscriptions :
        /\ expect[s] = cursor[s]
        /\ cursor[s] <= ntail
        /\ observed[s] <= version
        /\ cursor[s] < ntail => observed[s] < version

\* No poll so far failed to deliver or to tell.
PollsAreHonest == NoSilentGap /\ RetainedIsDelivered

IInv ==
    /\ TypeOK
    /\ Placed(events, base, stream)
    /\ BytesExact
    /\ RetentionLimits
    /\ Numbered
    /\ Owed
    /\ PollsAreHonest

-----------------------------------------------------------------------------
(* Facts about logs                                                         *)

\* The fields of the events of a log are numbers.
LEMMA EventFields ==
    ASSUME NEW log \in Seq(Event)
    PROVE  \A i \in 1 .. Len(log) :
              /\ log[i] \in Event
              /\ log[i].id \in Nat
              /\ log[i].start \in Nat
              /\ log[i].bytes \in Nat
<1>1. \A i \in 1 .. Len(log) : log[i] \in Event
  OBVIOUS
<1>2. \A e \in Event : e.id \in Nat /\ e.start \in Nat /\ e.bytes \in Nat
  BY BoundAssumption DEF Event, BoundAssumption
<1>3. QED
  BY <1>1, <1>2

\* The bytes of a whole log bound those of its prefixes, and a prefix is at
\* least as large as each of its suffixes.
LEMMA SpanBounds ==
    ASSUME NEW log \in Seq(Event), NEW b \in Nat, NEW s \in Nat,
           Placed(log, b, s),
           NEW d \in 0 .. Len(log), NEW k \in 0 .. d
    PROVE  /\ Span(log, k, d) \in Nat
           /\ Span(log, k, d) <= Span(log, 0, d)
           /\ Span(log, 0, d) \in Nat
           /\ Span(log, 0, Len(log)) \in Nat
           /\ Span(log, 0, d) <= Span(log, 0, Len(log))
<1>1. \A i \in 1 .. Len(log) : log[i].start \in Nat /\ log[i].bytes \in Nat
  BY EventFields
<1>2. Len(log) \in Nat
  OBVIOUS
<1>3. ASSUME NEW i \in 1 .. Len(log), NEW j \in 1 .. Len(log), i <= j
      PROVE  /\ log[i].start <= log[j].start
             /\ log[i].start + log[i].bytes <= log[j].start + log[j].bytes
  <2> DEFINE x == log[i].start
             xb == log[i].bytes
             y == log[j].start
             yb == log[j].bytes
  <2>1. x \in Nat /\ xb \in Nat /\ y \in Nat /\ yb \in Nat
    BY <1>1
  <2>2. i = j \/ x + xb <= y
    BY <1>3 DEF Placed
  <2>3. i = j => x = y /\ xb = yb
    OBVIOUS
  <2> HIDE DEF x, xb, y, yb
  <2>4. x <= y /\ x + xb <= y + yb
    BY <2>1, <2>2, <2>3
  <2>5. QED
    BY <2>4 DEF x, xb, y, yb
<1>4. ASSUME NEW e \in 0 .. Len(log), NEW h \in 0 .. e
      PROVE  Span(log, h, e) \in Nat /\ Span(log, h, e) <= Span(log, 0, e)
  <2>1. CASE h = e
    <3>1. Span(log, h, e) = 0
      BY <2>1 DEF Span
    <3>2. Span(log, 0, e) \in Nat
      <4>1. CASE e = 0
        BY <4>1 DEF Span
      <4>2. CASE e > 0
        <5>1. 1 \in 1 .. Len(log) /\ e \in 1 .. Len(log) /\ 1 <= e
          BY <1>2, <4>2
        <5> DEFINE x == log[1].start
                   y == log[e].start
                   yb == log[e].bytes
        <5>2. x \in Nat /\ y \in Nat /\ yb \in Nat /\ x <= y
          BY <1>1, <1>3, <5>1
        <5>3. Span(log, 0, e) = (y + yb) - x
          BY <4>2 DEF Span
        <5> HIDE DEF x, y, yb
        <5>4. QED
          BY <5>2, <5>3
      <4>3. QED
        BY <4>1, <4>2
    <3>3. QED
      BY <3>1, <3>2
  <2>2. CASE h < e
    <3>1. /\ 1 \in 1 .. Len(log) /\ e \in 1 .. Len(log) /\ h + 1 \in 1 .. Len(log)
          /\ 1 <= h + 1 /\ h + 1 <= e
      BY <1>2, <2>2
    <3> DEFINE x == log[1].start
               m == log[h + 1].start
               y == log[e].start
               yb == log[e].bytes
    <3>2. x \in Nat /\ m \in Nat /\ y \in Nat /\ yb \in Nat /\ x <= m /\ m <= y
      BY <1>1, <1>3, <3>1
    <3>3. Span(log, h, e) = (y + yb) - m
      BY <2>2 DEF Span
    <3>4. Span(log, 0, e) = (y + yb) - x
      BY <2>2 DEF Span
    <3> HIDE DEF x, m, y, yb
    <3>5. QED
      BY <3>2, <3>3, <3>4
  <2>3. QED
    BY <2>1, <2>2
<1>5. Span(log, 0, d) <= Span(log, 0, Len(log))
  <2>1. CASE d = 0
    <3>1. Span(log, 0, d) = 0
      BY <2>1 DEF Span
    <3>2. Span(log, 0, Len(log)) \in Nat
      BY <1>2, <1>4
    <3>3. QED
      BY <3>1, <3>2
  <2>2. CASE d > 0
    <3>1. /\ 1 \in 1 .. Len(log) /\ d \in 1 .. Len(log)
          /\ Len(log) \in 1 .. Len(log) /\ d <= Len(log) /\ 0 < Len(log)
      BY <1>2, <2>2
    <3> DEFINE x == log[1].start
               e == log[d].start + log[d].bytes
               y == log[Len(log)].start + log[Len(log)].bytes
    <3>2. x \in Nat /\ e \in Nat /\ y \in Nat /\ e <= y
      <4> DEFINE u == log[d].start
                 v == log[d].bytes
                 w == log[Len(log)].start
                 z == log[Len(log)].bytes
      <4>1. u + v <= w + z
        BY <1>3, <3>1
      <4>2. x \in Nat /\ u \in Nat /\ v \in Nat
        BY <1>1, <3>1
      <4>3. w \in Nat /\ z \in Nat
        BY <1>1, <3>1
      <4> HIDE DEF x, u, v, w, z
      <4>4. u + v \in Nat /\ w + z \in Nat
        BY ONLY <4>2, <4>3
      <4>5. QED
        BY <4>1, <4>2, <4>4 DEF u, v, w, z
    <3>3. Span(log, 0, d) = e - x /\ Span(log, 0, Len(log)) = y - x
      BY <2>2, <3>1 DEF Span
    <3> HIDE DEF x, e, y
    <3>4. QED
      BY <3>2, <3>3
  <2>3. QED
    BY <2>1, <2>2
<1>6. QED
  BY <1>2, <1>4, <1>5

\* Draining a prefix leaves a suffix.
LEMMA DrainedLog ==
    ASSUME NEW log \in Seq(Event), NEW d \in 0 .. Len(log)
    PROVE  LET new == SubSeq(log, d + 1, Len(log)) IN
           /\ new \in Seq(Event)
           /\ Len(new) = Len(log) - d
           /\ \A i \in 1 .. Len(new) : new[i] = log[d + i]
<1>1. CASE d = Len(log)
  BY <1>1
<1>2. CASE d < Len(log)
  BY <1>2
<1>3. QED
  BY <1>1, <1>2

\* A drained log is still placed, and the bytes that remain are the total less
\* the bytes drained.
LEMMA DrainPlaced ==
    ASSUME NEW log \in Seq(Event), NEW b \in Nat, NEW s \in Nat,
           Placed(log, b, s),
           NEW d \in 0 .. Len(log)
    PROVE  LET new == SubSeq(log, d + 1, Len(log)) IN
           /\ Placed(new, b + d, s)
           /\ Span(new, 0, Len(new)) = Span(log, 0, Len(log)) - Span(log, 0, d)
           /\ Span(new, 0, Len(new)) \in Nat
<1> DEFINE new == SubSeq(log, d + 1, Len(log))
<1>1. /\ new \in Seq(Event)
      /\ Len(new) = Len(log) - d
      /\ Len(log) \in Nat
      /\ \A i \in 1 .. Len(new) : new[i] = log[d + i]
  BY DrainedLog
<1>2. \A i \in 1 .. Len(log) :
         /\ log[i].id \in Nat
         /\ log[i].start \in Nat
         /\ log[i].bytes \in Nat
  BY EventFields
<1> HIDE DEF new
<1>3. Placed(new, b + d, s)
  <2>1. \A i \in 1 .. Len(new) : d + i \in 1 .. Len(log)
    BY <1>1
  <2>2. ASSUME NEW i \in 1 .. Len(new)
        PROVE  new[i].id = (b + d) + i - 1
    <3>1. d + i \in 1 .. Len(log) /\ new[i] = log[d + i]
      BY <1>1, <2>1
    <3>2. log[d + i].id = b + (d + i) - 1
      BY <3>1 DEF Placed
    <3>3. QED
      BY <3>1, <3>2
  <2>3. \A i \in 1 .. Len(new) : new[i].start + new[i].bytes <= s
    BY <1>1, <2>1 DEF Placed
  <2>4. ASSUME NEW i \in 1 .. (Len(new) - 1)
        PROVE  new[i + 1].start = new[i].start + new[i].bytes
    <3>1. i \in 1 .. Len(new) /\ i + 1 \in 1 .. Len(new)
      BY <1>1
    <3>2. new[i] = log[d + i] /\ new[i + 1] = log[d + (i + 1)]
      BY <1>1, <3>1
    <3>3. d + i \in 1 .. (Len(log) - 1) /\ d + (i + 1) = (d + i) + 1
      BY <1>1
    <3>4. log[(d + i) + 1].start = log[d + i].start + log[d + i].bytes
      BY <3>3 DEF Placed
    <3>5. QED
      BY <3>2, <3>3, <3>4
  <2>5. ASSUME NEW i \in 1 .. Len(new), NEW j \in 1 .. Len(new), i < j
        PROVE  new[i].start + new[i].bytes <= new[j].start
    <3>1. /\ d + i \in 1 .. Len(log) /\ new[i] = log[d + i]
          /\ d + j \in 1 .. Len(log) /\ new[j] = log[d + j]
          /\ d + i < d + j
      BY <1>1, <2>1, <2>5
    <3>2. QED
      BY <3>1 DEF Placed
  <2>6. ASSUME Len(new) > 0
        PROVE  new[Len(new)].start + new[Len(new)].bytes = s
    <3>1. d + Len(new) = Len(log) /\ Len(new) \in 1 .. Len(new)
      BY <1>1, <2>6
    <3>2. new[Len(new)] = log[Len(log)]
      BY <1>1, <3>1
    <3>3. QED
      BY <1>1, <2>6, <3>2 DEF Placed
  <2>7. QED
    BY <2>2, <2>3, <2>4, <2>5, <2>6 DEF Placed
<1>4. /\ Span(new, 0, Len(new)) = Span(log, 0, Len(log)) - Span(log, 0, d)
      /\ Span(new, 0, Len(new)) \in Nat
  <2>1. CASE d = Len(log)
    <3>1. Len(new) = 0
      BY <2>1, <1>1
    <3>2. Span(log, 0, Len(log)) \in Nat
      BY SpanBounds
    <3>3. Span(new, 0, Len(new)) = 0
      BY <3>1 DEF Span
    <3>4. QED
      BY <2>1, <3>2, <3>3
  <2>2. CASE d = 0
    <3>1. Len(new) = Len(log) /\ (Len(log) > 0 => new[1] = log[1] /\ new[Len(new)] = log[Len(log)])
      BY <2>2, <1>1
    <3>2. Span(log, 0, d) = 0
      BY <2>2 DEF Span
    <3>3. Span(log, 0, Len(log)) \in Nat
      BY SpanBounds
    <3>4. Span(new, 0, Len(new)) = Span(log, 0, Len(log))
      BY <3>1, <1>1 DEF Span
    <3>5. QED
      BY <3>2, <3>3, <3>4
  <2>3. CASE 0 < d /\ d < Len(log)
    <3>1. Len(new) > 0 /\ new[1] = log[d + 1] /\ new[Len(new)] = log[Len(log)]
      <4> DEFINE k == Len(new)
      <4>1. k \in Nat /\ k > 0 /\ d + k = Len(log)
        BY <2>3, <1>1
      <4> HIDE DEF k
      <4>2. 1 \in 1 .. k /\ k \in 1 .. k
        BY <4>1
      <4>3. new[1] = log[d + 1] /\ new[k] = log[d + k]
        BY <1>1, <4>2 DEF k
      <4>4. QED
        BY <4>1, <4>3 DEF k
    <3>2. log[d + 1].start = log[d].start + log[d].bytes
      BY <2>3, <1>1 DEF Placed
    <3>3. log[d + 1].start <= log[Len(log)].start
      BY <2>3, <1>1, <1>2 DEF Placed
    <3>4. /\ d \in 1 .. Len(log) /\ 1 \in 1 .. Len(log)
          /\ Len(log) \in 1 .. Len(log) /\ d + 1 \in 1 .. Len(log)
      BY <2>3, <1>1
    <3>5. Span(new, 0, Len(new)) =
             (log[Len(log)].start + log[Len(log)].bytes) - log[d + 1].start
      BY <3>1, <1>1 DEF Span
    <3>6. Span(log, 0, Len(log)) =
             (log[Len(log)].start + log[Len(log)].bytes) - log[1].start
      BY <2>3, <1>1 DEF Span
    <3>7. Span(log, 0, d) = (log[d].start + log[d].bytes) - log[1].start
      BY <2>3, <1>1 DEF Span
    <3>8. /\ log[1].start \in Nat /\ log[d].start \in Nat /\ log[d].bytes \in Nat
          /\ log[d + 1].start \in Nat
          /\ log[Len(log)].start \in Nat /\ log[Len(log)].bytes \in Nat
      BY <3>4, <1>2
    <3> DEFINE f == log[1].start
               m == log[d + 1].start
               l == log[Len(log)].start
               c == log[Len(log)].bytes
               e == l + c
    <3>9. f \in Nat /\ m \in Nat /\ e \in Nat /\ m <= e
      <4>1. f \in Nat /\ m \in Nat /\ l \in Nat /\ c \in Nat
        BY <3>8
      <4>2. m <= l
        BY <3>3
      <4> HIDE DEF f, m, l, c
      <4>3. QED
        BY <4>1, <4>2
    <3>10. Span(log, 0, d) = m - f
      BY <3>2, <3>7
    <3>11. Span(new, 0, Len(new)) = e - m /\ Span(log, 0, Len(log)) = e - f
      BY <3>5, <3>6
    <3> HIDE DEF f, m, e
    <3>12. QED
      BY <3>9, <3>10, <3>11
  <2>4. QED
    BY <1>1, <2>1, <2>2, <2>3
<1>5. QED
  BY <1>3, <1>4 DEF new

\* Recording one event keeps the log placed and adds the event's bytes.
LEMMA AppendOne ==
    ASSUME NEW log \in Seq(Event), NEW b \in Nat, NEW s \in Nat,
           Placed(log, b, s),
           NEW size \in Sizes
    PROVE  LET new == log \o One(b + Len(log), s, size) IN
           /\ new \in Seq(Event)
           /\ Len(new) = Len(log) + 1
           /\ Placed(new, b, s + size)
           /\ Span(new, 0, Len(new)) = Span(log, 0, Len(log)) + size
           /\ Span(log, 0, Len(log)) \in Nat
<1> DEFINE n == Len(log)
           ev == [id |-> b + n, start |-> s, bytes |-> size]
           new == log \o <<ev>>
<1>1. n \in Nat /\ size \in Nat
  BY BoundAssumption DEF BoundAssumption
<1>2. ev \in Event
  BY <1>1 DEF Event
<1>3. /\ new \in Seq(Event)
      /\ Len(new) = n + 1
      /\ \A i \in 1 .. n : new[i] = log[i]
      /\ new[n + 1] = ev
  <2> HIDE DEF ev
  <2>1. QED
    BY <1>1, <1>2
<1>4. ev.id = b + n /\ ev.start = s /\ ev.bytes = size
  OBVIOUS
<1>5. \A i \in 1 .. n :
         log[i].start \in Nat /\ log[i].bytes \in Nat /\ log[i].id \in Nat
  BY EventFields
<1> HIDE DEF ev, new
<1>6. Placed(new, b, s + size)
  <2>1. \A i \in 1 .. Len(new) : new[i].id = b + i - 1
    <3>1. \A i \in 1 .. n : new[i].id = b + i - 1
      BY <1>3 DEF Placed
    <3>2. new[n + 1].id = b + (n + 1) - 1
      <4>1. new[n + 1].id = b + n
        BY <1>3, <1>4
      <4>2. QED
        BY <1>1, <4>1
    <3>3. ASSUME NEW i \in 1 .. Len(new) PROVE i \in 1 .. n \/ i = n + 1
      BY <1>1, <1>3
    <3>4. QED
      BY <3>1, <3>2, <3>3
  <2>2. \A i \in 1 .. Len(new) : new[i].start + new[i].bytes <= s + size
    <3>1. ASSUME NEW i \in 1 .. n
          PROVE  new[i].start + new[i].bytes <= s + size
      <4> DEFINE e == log[i].start + log[i].bytes
      <4>1. e \in Nat /\ e <= s
        BY <1>5 DEF Placed
      <4>2. new[i].start + new[i].bytes = e
        BY <1>3
      <4> HIDE DEF e
      <4>3. QED
        BY <1>1, <4>1, <4>2
    <3>2. new[n + 1].start + new[n + 1].bytes <= s + size
      BY <1>1, <1>3, <1>4
    <3>3. QED
      BY <1>1, <1>3, <3>1, <3>2
  <2>3. ASSUME NEW i \in 1 .. (Len(new) - 1)
        PROVE  new[i + 1].start = new[i].start + new[i].bytes
    <3>1. CASE i < n
      <4>1. i \in 1 .. (n - 1) /\ i \in 1 .. n /\ i + 1 \in 1 .. n
        BY <1>1, <1>3, <3>1
      <4>2. QED
        BY <1>3, <4>1 DEF Placed
    <3>2. CASE i = n
      <4>1. n > 0 /\ n \in 1 .. n
        BY <1>1, <1>3, <3>2
      <4>2. log[n].start + log[n].bytes = s
        BY <4>1 DEF Placed
      <4>3. QED
        BY <1>3, <1>4, <3>2, <4>1, <4>2
    <3>3. QED
      BY <1>1, <1>3, <3>1, <3>2
  <2>4. ASSUME NEW i \in 1 .. Len(new), NEW j \in 1 .. Len(new), i < j
        PROVE  new[i].start + new[i].bytes <= new[j].start
    <3>1. i \in 1 .. n
      BY <1>1, <1>3, <2>4
    <3>2. CASE j \in 1 .. n
      BY <1>3, <2>4, <3>1, <3>2 DEF Placed
    <3>3. CASE j = n + 1
      BY <1>3, <1>4, <3>1, <3>3 DEF Placed
    <3>4. QED
      BY <1>1, <1>3, <3>2, <3>3
  <2>5. new[Len(new)].start + new[Len(new)].bytes = s + size
    BY <1>3, <1>4
  <2>6. QED
    BY <2>1, <2>2, <2>3, <2>4, <2>5 DEF Placed
<1>7. /\ Span(log, 0, n) \in Nat
      /\ Span(new, 0, n + 1) = Span(log, 0, n) + size
  <2>1. CASE n = 0
    BY <1>1, <1>3, <1>4, <2>1 DEF Span
  <2>2. CASE n > 0
    <3> DEFINE f == log[1].start
               c == log[1].bytes
    <3>1. 1 \in 1 .. n /\ n \in 1 .. n
      BY <1>1, <2>2
    <3>2. f \in Nat /\ c \in Nat /\ f + c <= s
      BY <1>5, <3>1 DEF Placed
    <3>3. Span(log, 0, n) = s - f
      BY <1>1, <2>2 DEF Span, Placed
    <3>4. Span(new, 0, n + 1) = (s + size) - f
      BY <1>1, <1>3, <1>4, <3>1 DEF Span
    <3> HIDE DEF f, c
    <3>5. QED
      BY <1>1, <3>2, <3>3, <3>4
  <2>3. QED
    BY <1>1, <2>1, <2>2
<1>8. new = log \o One(b + Len(log), s, size)
  BY DEF new, ev, One
<1>9. QED
  BY <1>3, <1>6, <1>7, <1>8

\* Recording a batch keeps the log placed and adds the bytes of the batch.
LEMMA AppendBatch ==
    ASSUME NEW log \in Seq(Event), NEW b \in Nat, NEW s \in Nat,
           Placed(log, b, s),
           NEW new \in Batches(b + Len(log), s)
    PROVE  LET last == new[Len(new)]
               size == (last.start + last.bytes) - s
           IN  /\ log \o new \in Seq(Event)
               /\ Len(new) \in Nat /\ Len(new) > 0
               /\ Len(log \o new) = Len(log) + Len(new)
               /\ size \in Nat
               /\ Placed(log \o new, b, s + size)
               /\ Span(log \o new, 0, Len(log \o new)) = Span(log, 0, Len(log)) + size
<1> DEFINE n == b + Len(log)
           last == new[Len(new)]
           size == (last.start + last.bytes) - s
<1>1. n \in Nat /\ \A x \in Sizes : x \in Nat
  BY BoundAssumption DEF BoundAssumption
<1>2. CASE \E x \in Sizes : new = One(n, s, x)
  <2>1. PICK x \in Sizes : new = One(n, s, x)
    BY <1>2
  <2>2. Len(new) = 1 /\ last.start = s /\ last.bytes = x
    BY <2>1 DEF One
  <2>3. size = x
    BY <1>1, <2>2
  <2>4. /\ log \o new \in Seq(Event)
        /\ Len(log \o new) = Len(log) + 1
        /\ Placed(log \o new, b, s + x)
        /\ Span(log \o new, 0, Len(log \o new)) = Span(log, 0, Len(log)) + x
    BY <2>1, AppendOne
  <2> HIDE DEF size
  <2>5. QED
    BY <1>1, <2>2, <2>3, <2>4 DEF size
<1>3. CASE \E x \in Sizes, y \in Sizes : new = One(n, s, x) \o One(n + 1, s + x, y)
  <2>1. PICK x \in Sizes, y \in Sizes : new = One(n, s, x) \o One(n + 1, s + x, y)
    BY <1>3
  <2> DEFINE mid == log \o One(n, s, x)
  <2>2. /\ mid \in Seq(Event)
        /\ Len(mid) = Len(log) + 1
        /\ Placed(mid, b, s + x)
        /\ Span(mid, 0, Len(mid)) = Span(log, 0, Len(log)) + x
        /\ Span(log, 0, Len(log)) \in Nat
    BY AppendOne
  <2>3. b + Len(mid) = n + 1 /\ s + x \in Nat /\ x \in Nat /\ y \in Nat
    <3>1. x \in Nat /\ y \in Nat
      BY <1>1
    <3>2. Len(mid) = Len(log) + 1 /\ Len(log) \in Nat
      BY <2>2
    <3> HIDE DEF mid
    <3>3. QED
      BY <3>1, <3>2
  <2>4. log \o new = mid \o One(n + 1, s + x, y)
    BY <2>1 DEF One
  <2>5. Len(new) = 2 /\ last.start = s + x /\ last.bytes = y
    BY <2>1 DEF One
  <2>6. size = x + y
    BY <2>3, <2>5
  <2> HIDE DEF mid
  <2>7. /\ log \o new \in Seq(Event)
        /\ Len(log \o new) = Len(mid) + 1
        /\ Placed(log \o new, b, (s + x) + y)
        /\ Span(log \o new, 0, Len(log \o new)) = Span(mid, 0, Len(mid)) + y
    <3> DEFINE t == s + x
               all == mid \o One(b + Len(mid), t, y)
    <3>1. t \in Nat /\ Placed(mid, b, t) /\ mid \in Seq(Event)
      BY <2>2, <2>3
    <3>2. all = log \o new
      BY <2>3, <2>4
    <3> HIDE DEF t
    <3>3. /\ all \in Seq(Event)
          /\ Len(all) = Len(mid) + 1
          /\ Placed(all, b, t + y)
          /\ Span(all, 0, Len(all)) = Span(mid, 0, Len(mid)) + y
      BY <3>1, AppendOne
    <3> HIDE DEF all
    <3>4. QED
      BY <3>2, <3>3 DEF t
  <2>8. (s + x) + y = s + size
    BY <2>3, <2>6
  <2>9. Len(log \o new) = Len(log) + Len(new)
    BY <2>2, <2>5, <2>7
  <2>10. Span(log \o new, 0, Len(log \o new)) = Span(log, 0, Len(log)) + (x + y)
    <3> DEFINE a == Span(log, 0, Len(log))
               m == Span(mid, 0, Len(mid))
               e == Span(log \o new, 0, Len(log \o new))
    <3>1. a \in Nat /\ m = a + x /\ e = m + y
      BY <2>2, <2>7
    <3> HIDE DEF a, m, e
    <3>2. e = a + (x + y)
      BY <2>3, <3>1
    <3>3. QED
      BY <3>2 DEF a, e
  <2>11. size \in Nat
    BY <2>3, <2>6
  <2>12. Len(new) \in Nat /\ Len(new) > 0
    BY <2>5
  <2> HIDE DEF size
  <2>13. QED
    BY <2>6, <2>7, <2>8, <2>9, <2>10, <2>11, <2>12 DEF size
<1>4. (\E x \in Sizes : new = One(n, s, x))
      \/ (\E x \in Sizes, y \in Sizes : new = One(n, s, x) \o One(n + 1, s + x, y))
  <2>1. new \in Batches(n, s)
    OBVIOUS
  <2> HIDE DEF n
  <2>2. QED
    BY ONLY <2>1 DEF Batches
<1>5. QED
  BY Zenon, <1>2, <1>3, <1>4

\* enforce_event_retention leaves a log within both limits.
LEMMA DropWithinLimits ==
    ASSUME NEW log \in Seq(Event), NEW b \in Nat, NEW s \in Nat,
           Placed(log, b, s),
           NEW limits \in Limits,
           NEW d \in 0 .. Len(log),
           DropCount(log, Span(log, 0, Len(log)), limits, d)
    PROVE  LET total == Span(log, 0, Len(log))
               left == SaturatingSub(total, Span(log, 0, d))
           IN  /\ left = total - Span(log, 0, d)
               /\ Len(log) - d <= limits.events
               /\ limits.bytes # Unlimited => left <= limits.bytes
<1> DEFINE total == Span(log, 0, Len(log))
           first == SaturatingSub(Len(log), limits.events)
           dropped == Span(log, 0, d)
           looped == Span(log, first, d)
<1>1. limits.events \in Nat /\ (limits.bytes # Unlimited => limits.bytes \in Nat)
  BY LimitAssumption DEF LimitAssumption
<1>2. Len(log) \in Nat
  OBVIOUS
<1>3. first \in Nat /\ first <= d /\ Len(log) - first <= limits.events
  BY <1>1, <1>2 DEF SaturatingSub, DropCount
<1>4. /\ total \in Nat /\ dropped \in Nat /\ looped \in Nat
      /\ looped <= dropped /\ dropped <= total
  BY <1>3, SpanBounds
<1>5. limits.bytes # Unlimited =>
         d = Len(log) \/ SaturatingSub(total, looped) <= limits.bytes
  BY DEF DropCount
<1>6. d = Len(log) => dropped = total
  OBVIOUS
<1> HIDE DEF total, first, dropped, looped
<1>7. SaturatingSub(total, dropped) = total - dropped
  BY <1>4 DEF SaturatingSub
<1>8. limits.bytes # Unlimited => SaturatingSub(total, dropped) <= limits.bytes
  BY <1>1, <1>4, <1>5, <1>6 DEF SaturatingSub
<1>9. Len(log) - d <= limits.events
  BY <1>1, <1>2, <1>3
<1>10. QED
  BY <1>7, <1>8, <1>9 DEF total, dropped

-----------------------------------------------------------------------------
(* The inductive invariant                                                  *)

\* What TypeOK says of the numbers.
LEMMA NumbersAreNat ==
    ASSUME TypeOK
    PROVE  /\ base \in Nat /\ retained \in Nat /\ ntail \in Nat
           /\ version \in Nat /\ pushed \in Nat /\ stream \in Nat
           /\ Len(events) \in Nat /\ TailIndex \in Nat
           /\ \A s \in Subscriptions :
                 cursor[s] \in Nat /\ observed[s] \in Nat /\ expect[s] \in Nat
<1>1. base \in Nat /\ Len(events) \in Nat
  BY DEF TypeOK
<1>2. QED
  BY <1>1 DEF TypeOK, TailIndex

\* The log part of the invariant survives dropping what retention asks for
\* from a placed log whose bytes are accounted for exactly.
LEMMA DrainKeepsLog ==
    ASSUME base \in Nat,
           NEW log \in Seq(Event), NEW s \in Nat, NEW total,
           Placed(log, base, s),
           total = Span(log, 0, Len(log)),
           NEW limits \in Limits,
           NEW d \in 0 .. Len(log),
           DropCount(log, total, limits, d),
           Drain(log, total, d)
    PROVE  /\ events' \in Seq(Event)
           /\ base' \in Nat
           /\ retained' \in Nat
           /\ base' + Len(events') = base + Len(log)
           /\ Placed(events', base', s)
           /\ retained' = Span(events', 0, Len(events'))
           /\ Len(events') <= limits.events
           /\ limits.bytes # Unlimited => retained' <= limits.bytes
<1>1. /\ events' \in Seq(Event)
      /\ Len(events') = Len(log) - d
  BY DrainedLog DEF Drain
<1>2. /\ Placed(events', base + d, s)
      /\ Span(events', 0, Len(events')) = total - Span(log, 0, d)
      /\ Span(events', 0, Len(events')) \in Nat
  BY DrainPlaced DEF Drain
<1>3. /\ retained' = total - Span(log, 0, d)
      /\ Len(log) - d <= limits.events
      /\ limits.bytes # Unlimited => retained' <= limits.bytes
  BY DropWithinLimits DEF Drain
<1>4. base' = base + d /\ Len(log) \in Nat
  BY DEF Drain
<1>5. QED
  BY <1>1, <1>2, <1>3, <1>4

\* Every recorded batch keeps the invariant.
LEMMA RecordKeeps ==
    ASSUME IInv, NEW new \in Batches(pushed, stream), Record(new)
    PROVE  IInv'
<1> DEFINE log == events \o new
           last == new[Len(new)]
           size == (last.start + last.bytes) - stream
           tail == TailIndex + Len(new)
<1>1. /\ base \in Nat /\ retained \in Nat /\ ntail \in Nat
      /\ version \in Nat /\ pushed \in Nat /\ stream \in Nat
      /\ Len(events) \in Nat /\ TailIndex \in Nat
      /\ events \in Seq(Event)
      /\ Placed(events, base, stream)
      /\ retained = Span(events, 0, Len(events))
  BY NumbersAreNat DEF IInv, TypeOK, BytesExact
<1>2. pushed = base + Len(events) /\ ntail = TailIndex /\ pushed = TailIndex
  BY DEF IInv, Numbered, TailIndex
<1>3. /\ log \in Seq(Event)
      /\ Len(new) \in Nat /\ Len(new) > 0
      /\ Len(log) = Len(events) + Len(new)
      /\ size \in Nat
      /\ Placed(log, base, stream + size)
      /\ Span(log, 0, Len(log)) = retained + size
  BY <1>1, <1>2, AppendBatch
<1>4. PICK d \in 0 .. Len(log) :
         /\ DropCount(log, retained + size, config, d)
         /\ Drain(log, retained + size, d)
         /\ version' = NotifiedVersion(d, tail)
  BY DEF Record
<1>5. /\ ntail' = Larger(ntail, tail)
      /\ pushed' = pushed + Len(new)
      /\ stream' = stream + size
      /\ UNCHANGED <<config, open, cursor, observed, expect, gap, loss, holder, pc>>
  BY DEF Record, subVars
<1>6. config \in Limits
  BY DEF IInv, TypeOK
<1> HIDE DEF log, size
<1>7. /\ events' \in Seq(Event)
      /\ base' \in Nat
      /\ retained' \in Nat
      /\ base' + Len(events') = base + Len(log)
      /\ Placed(events', base', stream + size)
      /\ retained' = Span(events', 0, Len(events'))
      /\ Len(events') <= config.events
      /\ config.bytes # Unlimited => retained' <= config.bytes
  <2> DEFINE total == retained + size
             s == stream + size
  <2>1. s \in Nat /\ total = Span(log, 0, Len(log)) /\ Placed(log, base, s)
    BY <1>1, <1>3
  <2>2. DropCount(log, total, config, d) /\ Drain(log, total, d)
    BY <1>4
  <2> HIDE DEF total, s
  <2>3. QED
    BY <1>1, <1>3, <1>6, <2>1, <2>2, DrainKeepsLog DEF s
<1>8. tail \in Nat /\ tail > ntail /\ tail = base' + Len(events')
  <2>1. TailIndex = base + Len(events)
    BY DEF TailIndex
  <2>2. tail = base + Len(log)
    BY <1>1, <1>3, <2>1
  <2>3. tail \in Nat /\ tail > ntail
    BY <1>1, <1>2, <1>3
  <2>4. QED
    BY <1>7, <2>2, <2>3
<1>9. ntail' = tail /\ pushed' = tail /\ TailIndex' = tail
  BY <1>1, <1>2, <1>5, <1>8 DEF Larger, TailIndex
<1>10. version' \in Nat /\ version' > version
  BY <1>1, <1>4, <1>8 DEF NotifiedVersion
<1>11. stream' \in Nat /\ pushed' \in Nat
  BY <1>1, <1>3, <1>5, <1>8, <1>9
<1> HIDE DEF tail
<1>12. TypeOK'
  BY <1>5, <1>7, <1>8, <1>9, <1>10, <1>11 DEF IInv, TypeOK
<1>13. Placed(events, base, stream)' /\ BytesExact' /\ RetentionLimits'
  BY <1>5, <1>7 DEF BytesExact, RetentionLimits
<1>14. Numbered'
  BY <1>1, <1>9, <1>10 DEF Numbered
<1>15. Owed'
  <2>1. cursor' = cursor /\ observed' = observed /\ expect' = expect
    BY <1>5
  <2>2. ASSUME NEW s \in Subscriptions
        PROVE  expect[s] = cursor[s] /\ cursor[s] < ntail' /\ observed[s] < version'
    <3>1. cursor[s] \in Nat /\ observed[s] \in Nat /\ ntail \in Nat /\ version \in Nat
      BY NumbersAreNat DEF IInv
    <3>2. expect[s] = cursor[s] /\ cursor[s] <= ntail /\ observed[s] <= version
      BY DEF Owed, IInv
    <3>3. QED
      BY <1>8, <1>9, <1>10, <3>1, <3>2
  <2>3. ASSUME NEW s \in Subscriptions
        PROVE  cursor[s] \in Nat /\ observed[s] \in Nat
    BY NumbersAreNat DEF IInv
  <2>4. QED
    BY <1>8, <1>9, <1>10, <2>1, <2>2, <2>3 DEF Owed
<1>16. PollsAreHonest'
  BY <1>5 DEF IInv, PollsAreHonest, NoSilentGap, RetainedIsDelivered
<1>17. QED
  BY <1>12, <1>13, <1>14, <1>15, <1>16 DEF IInv

\* Installing new limits keeps the invariant.
LEMMA SetConfigKeeps ==
    ASSUME IInv, SetConfig
    PROVE  IInv'
<1>1. /\ base \in Nat /\ retained \in Nat /\ ntail \in Nat
      /\ version \in Nat /\ pushed \in Nat /\ stream \in Nat
      /\ Len(events) \in Nat /\ TailIndex \in Nat
      /\ events \in Seq(Event)
      /\ Placed(events, base, stream)
      /\ retained = Span(events, 0, Len(events))
  BY NumbersAreNat DEF IInv, TypeOK, BytesExact
<1>2. ntail = base + Len(events) /\ pushed = ntail
  BY DEF IInv, Numbered, TailIndex
<1>3. PICK d \in 0 .. Len(events) :
         /\ DropCount(events, retained, config', d)
         /\ Drain(events, retained, d)
         /\ version' = NotifiedVersion(d, ntail)
  BY DEF SetConfig
<1>4. /\ config' \in Limits
      /\ UNCHANGED <<ntail, pushed, stream, open, cursor, observed, expect, gap, loss,
                     holder, pc>>
  BY DEF SetConfig, subVars
<1>5. /\ events' \in Seq(Event)
      /\ base' \in Nat
      /\ retained' \in Nat
      /\ base' + Len(events') = base + Len(events)
      /\ Placed(events', base', stream)
      /\ retained' = Span(events', 0, Len(events'))
      /\ Len(events') <= (config').events
      /\ (config').bytes # Unlimited => retained' <= (config').bytes
  BY <1>1, <1>3, <1>4, DrainKeepsLog
<1>6. version' \in Nat /\ version' >= version
  BY <1>1, <1>3 DEF NotifiedVersion
<1>7. TypeOK'
  BY <1>4, <1>5, <1>6 DEF IInv, TypeOK
<1>8. Placed(events, base, stream)' /\ BytesExact' /\ RetentionLimits'
  BY <1>4, <1>5 DEF BytesExact, RetentionLimits
<1>9. Numbered'
  BY <1>1, <1>2, <1>4, <1>5, <1>6 DEF Numbered, TailIndex, IInv
<1>10. Owed'
  BY <1>1, <1>4, <1>6, NumbersAreNat DEF Owed, IInv
<1>11. PollsAreHonest'
  BY <1>4 DEF IInv, PollsAreHonest, NoSilentGap, RetainedIsDelivered
<1>12. QED
  BY <1>7, <1>8, <1>9, <1>10, <1>11 DEF IInv

\* Taking the events keeps the invariant.
LEMMA TakeEventsKeeps ==
    ASSUME IInv, TakeEvents
    PROVE  IInv'
<1>1. /\ base \in Nat /\ ntail \in Nat /\ version \in Nat /\ pushed \in Nat
      /\ stream \in Nat /\ Len(events) \in Nat /\ TailIndex \in Nat
      /\ config \in Limits
  BY NumbersAreNat DEF IInv, TypeOK
<1>2. /\ events' = << >> /\ base' = TailIndex /\ retained' = 0
      /\ version' = version + 1
      /\ UNCHANGED <<config, ntail, pushed, stream, open, cursor, observed,
                     expect, gap, loss, holder, pc>>
  BY DEF TakeEvents, subVars
<1>3. Len(events') = 0 /\ events' \in Seq(Event)
  BY <1>2
<1>4. TypeOK'
  BY <1>1, <1>2, <1>3 DEF IInv, TypeOK
<1>5. Placed(events, base, stream)'
  BY <1>2, <1>3 DEF Placed
<1>6. BytesExact'
  BY <1>2, <1>3 DEF BytesExact, Span
<1>7. RetentionLimits'
  <2>1. config.events \in Nat /\ (config.bytes # Unlimited => config.bytes \in Nat)
    BY <1>1, LimitAssumption DEF LimitAssumption
  <2>2. QED
    BY <1>2, <1>3, <2>1 DEF RetentionLimits
<1>8. Numbered'
  <2>1. TailIndex' = TailIndex
    BY <1>1, <1>2, <1>3 DEF TailIndex
  <2>2. QED
    BY <1>1, <1>2, <2>1 DEF Numbered, IInv
<1>9. Owed'
  BY <1>1, <1>2, NumbersAreNat DEF Owed, IInv
<1>10. PollsAreHonest'
  BY <1>2 DEF IInv, PollsAreHonest, NoSilentGap, RetainedIsDelivered
<1>11. QED
  BY <1>4, <1>5, <1>6, <1>7, <1>8, <1>9, <1>10 DEF IInv

\* A step that leaves the log alone and does not lower the version keeps the
\* log part of the invariant.
LEMMA LogUntouched ==
    ASSUME IInv, UNCHANGED logVars, ntail' = ntail,
           version' \in Nat, version' >= version
    PROVE  /\ Placed(events, base, stream)'
           /\ BytesExact'
           /\ RetentionLimits'
           /\ Numbered'
<1>1. UNCHANGED <<config, events, base, retained, pushed, stream>>
  BY DEF logVars
<1>2. ntail \in Nat /\ version \in Nat
  BY NumbersAreNat DEF IInv
<1>3. QED
  BY <1>1, <1>2 DEF IInv, BytesExact, RetentionLimits, Numbered, TailIndex

\* A new subscription keeps the invariant: retained events count as an update.
LEMMA SubscribeKeeps ==
    ASSUME IInv, NEW s \in Subscriptions,
           SubscribeAtTail(s) \/ SubscribeFromStart(s)
    PROVE  IInv'
<1>1. /\ base \in Nat /\ ntail \in Nat /\ version \in Nat /\ pushed \in Nat
      /\ Len(events) \in Nat /\ ntail = base + Len(events) /\ pushed = ntail
      /\ TailIndex = ntail
  BY NumbersAreNat DEF IInv, Numbered, TailIndex
<1>2. PICK i \in Nat : i <= ntail /\ Subscribe(s, i, i)
  <2>1. CASE SubscribeAtTail(s)
    BY <1>1, <2>1 DEF SubscribeAtTail
  <2>2. CASE SubscribeFromStart(s)
    <3>1. pushed - Len(events) = base /\ base <= ntail
      BY <1>1
    <3>2. QED
      BY <1>1, <2>2, <3>1 DEF SubscribeFromStart
  <2>3. QED
    BY <2>1, <2>2
<1>3. /\ open' = open \cup {s}
      /\ cursor' = [cursor EXCEPT ![s] = i]
      /\ observed' = [observed EXCEPT ![s] = InitialVersion(i)]
      /\ expect' = [expect EXCEPT ![s] = i]
      /\ UNCHANGED <<logVars, ntail, version, gap, loss, holder, pc>>
  BY <1>2 DEF Subscribe, notifierVars
<1>4. /\ InitialVersion(i) \in Nat
      /\ InitialVersion(i) <= version
      /\ i < ntail => InitialVersion(i) < version
  BY <1>1, <1>2 DEF InitialVersion, SaturatingSub, IInv, Numbered
<1>5. TypeOK'
  BY <1>3, <1>4 DEF IInv, TypeOK, logVars
<1>6. Owed'
  <2> SUFFICES ASSUME NEW r \in Subscriptions
               PROVE  /\ expect'[r] = cursor'[r]
                      /\ cursor'[r] <= ntail
                      /\ observed'[r] <= version
                      /\ cursor'[r] < ntail => observed'[r] < version
    BY <1>3 DEF Owed
  <2>1. CASE r = s
    BY <1>2, <1>3, <1>4, <2>1 DEF IInv, TypeOK
  <2>2. CASE r # s
    BY <1>3, <2>2 DEF IInv, TypeOK, Owed
  <2>3. QED
    BY <2>1, <2>2
<1>7. PollsAreHonest'
  BY <1>3 DEF IInv, PollsAreHonest, NoSilentGap, RetainedIsDelivered
<1>8. Placed(events, base, stream)' /\ BytesExact' /\ RetentionLimits' /\ Numbered'
  BY <1>1, <1>3, LogUntouched
<1>9. QED
  BY <1>5, <1>6, <1>7, <1>8 DEF IInv

\* A poll delivers what is retained of what the subscriber is owed, which is
\* everything unless the cursor is stale.
LEMMA PollFacts ==
    ASSUME IInv, NEW s \in Subscriptions
    PROVE  /\ Delivered(s, Polled(s))
           /\ IsStale(s) <=> ~ Complete(s, Polled(s))
<1> DEFINE c == cursor[s]
           from == Larger(c, base)
           d == from - base
<1>1. /\ base \in Nat /\ c \in Nat /\ Len(events) \in Nat
      /\ c <= base + Len(events)
      /\ TailIndex = base + Len(events)
      /\ pushed = base + Len(events) /\ expect[s] = c
      /\ events \in Seq(Event)
  BY NumbersAreNat DEF IInv, Numbered, TailIndex, Owed, TypeOK
<1>2. /\ d \in 0 .. Len(events) /\ from <= TailIndex
      /\ c < base => d = 0
      /\ c >= base => base + d = c
  BY <1>1 DEF Larger
<1>3. Polled(s) = SubSeq(events, d + 1, Len(events))
  <2>1. (IF from < TailIndex THEN from ELSE TailIndex) = from
    BY <1>1, <1>2 DEF Larger
  <2>2. QED
    BY <2>1 DEF Polled
<1> DEFINE got == SubSeq(events, d + 1, Len(events))
<1>4. /\ Len(got) = Len(events) - d
      /\ \A i \in 1 .. Len(got) : got[i] = events[d + i]
  BY <1>1, <1>2, DrainedLog
<1>5. pushed - Len(got) = base + d /\ Len(got) \in Nat
  BY <1>1, <1>2, <1>4
<1> HIDE DEF c, d, got
<1>6. ASSUME NEW i \in 1 .. Len(got)
      PROVE  got[i].id = (base + d) + i - 1
  <2>1. d + i \in 1 .. Len(events) /\ got[i] = events[d + i]
    BY <1>1, <1>2, <1>4
  <2>2. events[d + i].id = base + (d + i) - 1
    BY <2>1 DEF IInv, Placed
  <2>3. QED
    BY <1>1, <1>2, <2>1, <2>2
<1>7. Len(got) = Smaller(pushed - c, Len(events))
  <2>1. CASE c < base
    <3>1. d = 0 /\ pushed - c > Len(events)
      BY <1>1, <1>2, <2>1
    <3>2. QED
      BY <1>1, <1>4, <3>1 DEF Smaller
  <2>2. CASE c >= base
    <3>1. pushed - c = Len(events) - d /\ d \in Nat
      BY <1>1, <1>2, <2>2
    <3>2. QED
      BY <1>1, <1>4, <3>1 DEF Smaller
  <2>3. QED
    BY <1>1, <2>1, <2>2
<1>8. Delivered(s, got)
  BY <1>1, <1>5, <1>6, <1>7 DEF Delivered, c
<1>9. CASE IsStale(s)
  <2>1. Len(got) # pushed - c
    BY <1>1, <1>2, <1>4, <1>9 DEF IsStale, c
  <2>2. QED
    BY <1>1, <1>3, <1>8, <1>9, <2>1 DEF Complete, got
<1>10. CASE ~ IsStale(s)
  <2>1. Len(got) = pushed - c /\ base + d = c
    BY <1>1, <1>2, <1>4, <1>10 DEF IsStale, c
  <2>2. Complete(s, got)
    BY <1>1, <1>6, <2>1 DEF Complete
  <2>3. QED
    BY <1>3, <1>8, <1>10, <2>2 DEF got
<1>11. QED
  BY <1>9, <1>10

\* A poll, with its status or without, keeps the invariant.
LEMMA PollKeeps ==
    ASSUME IInv, NEW t \in Tasks, Poll(t) \/ PollWithStatus(t)
    PROVE  IInv'
<1> DEFINE s == SubOf[t]
<1>1. s \in Subscriptions
  BY SubscriptionAssumption DEF SubscriptionAssumption
<1>2. /\ ntail \in Nat /\ version \in Nat /\ TailIndex = ntail /\ pushed = ntail
      /\ cursor \in [Subscriptions -> Nat] /\ observed \in [Subscriptions -> Nat]
      /\ expect \in [Subscriptions -> Nat]
      /\ gap \in [Subscriptions -> BOOLEAN] /\ loss \in [Subscriptions -> BOOLEAN]
  BY NumbersAreNat DEF IInv, Numbered, TypeOK
<1>3. /\ cursor' = [cursor EXCEPT ![s] = ntail]
      /\ observed' = [observed EXCEPT ![s] = version]
      /\ expect' = [expect EXCEPT ![s] = ntail]
      /\ loss' = [loss EXCEPT ![s] = loss[s] \/ ~ Delivered(s, Polled(s))]
      /\ \/ gap' = gap
         \/ gap' = [gap EXCEPT ![s] =
                        gap[s] \/ (IsStale(s) <=> Complete(s, Polled(s)))]
      /\ pc' = [pc EXCEPT ![t] = "idle"]
      /\ UNCHANGED <<logVars, ntail, version, open, holder>>
  BY <1>2 DEF Poll, PollWithStatus, Advance, notifierVars
<1>4. /\ loss' = [loss EXCEPT ![s] = FALSE]
      /\ gap' = gap \/ gap' = [gap EXCEPT ![s] = FALSE]
  <2>1. ~ gap[s] /\ ~ loss[s]
    BY <1>1 DEF IInv, PollsAreHonest, NoSilentGap, RetainedIsDelivered
  <2>2. Delivered(s, Polled(s)) /\ ~ (IsStale(s) <=> Complete(s, Polled(s)))
    BY <1>1, PollFacts
  <2>3. QED
    BY <1>3, <2>1, <2>2
<1> HIDE DEF s
<1>5. TypeOK'
  BY <1>1, <1>2, <1>3, <1>4 DEF IInv, TypeOK, logVars, PCs
<1>6. PollsAreHonest'
  BY <1>1, <1>2, <1>4 DEF IInv, PollsAreHonest, NoSilentGap, RetainedIsDelivered
<1>7. Owed'
  <2> SUFFICES ASSUME NEW r \in Subscriptions
               PROVE  /\ expect'[r] = cursor'[r]
                      /\ cursor'[r] <= ntail
                      /\ observed'[r] <= version
                      /\ cursor'[r] < ntail => observed'[r] < version
    BY <1>3 DEF Owed
  <2>1. CASE r = s
    BY <1>1, <1>2, <1>3, <2>1
  <2>2. CASE r # s
    BY <1>2, <1>3, <2>2 DEF IInv, Owed
  <2>3. QED
    BY <2>1, <2>2
<1>8. Placed(events, base, stream)' /\ BytesExact' /\ RetentionLimits' /\ Numbered'
  BY <1>2, <1>3, LogUntouched
<1>9. QED
  BY <1>5, <1>6, <1>7, <1>8 DEF IInv

\* The steps that only move a task's program counter or the mutex keep the
\* invariant.
LEMMA TaskStepKeeps ==
    ASSUME IInv, NEW t \in Tasks,
           \/ WaitAndPollNext(t) \/ WaitForUpdate(t) \/ EnterWait(t)
           \/ Wake(t) \/ TimeOut(t)
    PROVE  IInv'
<1>1. UNCHANGED <<logVars, notifierVars, subVars>>
  BY DEF WaitAndPollNext, WaitForUpdate, EnterWait, Wake, TimeOut
<1>2. UNCHANGED <<ntail, version, open, cursor, observed, expect, gap, loss>>
  BY <1>1 DEF notifierVars, subVars
<1>3. /\ pc' \in [Tasks -> PCs]
      /\ holder' \in [Subscriptions -> Tasks \cup {NoTask}]
  <2>1. /\ pc \in [Tasks -> PCs]
        /\ holder \in [Subscriptions -> Tasks \cup {NoTask}]
        /\ SubOf[t] \in Subscriptions
    BY SubscriptionAssumption DEF IInv, TypeOK, SubscriptionAssumption
  <2>2. /\ \E p \in PCs : pc' = [pc EXCEPT ![t] = p]
        /\ \/ holder' = holder
           \/ \E h \in Tasks \cup {NoTask} : holder' = [holder EXCEPT ![SubOf[t]] = h]
    <3>1. CASE WaitAndPollNext(t)
      BY <3>1 DEF WaitAndPollNext, PCs
    <3>2. CASE WaitForUpdate(t)
      BY <3>2 DEF WaitForUpdate, PCs
    <3>3. CASE EnterWait(t)
      BY <3>3 DEF EnterWait, PCs
    <3>4. CASE Wake(t)
      BY <3>4 DEF Wake, PCs
    <3>5. CASE TimeOut(t)
      BY <3>5 DEF TimeOut, PCs
    <3>6. QED
      BY <3>1, <3>2, <3>3, <3>4, <3>5
  <2>3. QED
    BY <2>1, <2>2
<1>4. TypeOK'
  BY <1>1, <1>2, <1>3 DEF IInv, TypeOK, logVars
<1>5. PollsAreHonest' /\ Owed'
  BY <1>2 DEF IInv, PollsAreHonest, NoSilentGap, RetainedIsDelivered, Owed
<1>6. Placed(events, base, stream)' /\ BytesExact' /\ RetentionLimits' /\ Numbered'
  BY <1>1, <1>2, NumbersAreNat, LogUntouched DEF IInv
<1>7. QED
  BY <1>4, <1>5, <1>6 DEF IInv

\* Shutdown moves nothing but the version, and upwards.
LEMMA ShutdownKeeps ==
    ASSUME IInv, Shutdown
    PROVE  IInv'
<1>1. version \in Nat /\ ntail \in Nat
  BY NumbersAreNat DEF IInv
<1>2. /\ version' = version + 1
      /\ UNCHANGED <<logVars, ntail, open, cursor, observed, expect, gap, loss, holder, pc>>
  BY DEF Shutdown, subVars
<1>3. TypeOK'
  BY <1>1, <1>2 DEF IInv, TypeOK, logVars
<1>4. Owed' /\ PollsAreHonest'
  BY <1>1, <1>2, NumbersAreNat DEF IInv, Owed, PollsAreHonest, NoSilentGap, RetainedIsDelivered
<1>5. Placed(events, base, stream)' /\ BytesExact' /\ RetentionLimits' /\ Numbered'
  BY <1>1, <1>2, LogUntouched
<1>6. QED
  BY <1>3, <1>4, <1>5 DEF IInv

-----------------------------------------------------------------------------
(* Theorems                                                                 *)

\* A new runtime satisfies the inductive invariant.
LEMMA InitIInv == Init => IInv
<1> SUFFICES ASSUME Init PROVE IInv
  OBVIOUS
<1>1. events = << >> /\ Len(events) = 0 /\ events \in Seq(Event)
  BY DEF Init
<1>2. TypeOK
  BY <1>1 DEF Init, TypeOK, PCs
<1>3. Placed(events, base, stream) /\ BytesExact
  BY <1>1 DEF Init, Placed, BytesExact, Span
<1>4. RetentionLimits
  <2>1. config.events \in Nat /\ (config.bytes # Unlimited => config.bytes \in Nat)
    BY LimitAssumption DEF Init, LimitAssumption
  <2>2. QED
    BY <1>1, <2>1 DEF Init, RetentionLimits
<1>5. Numbered
  BY <1>1 DEF Init, Numbered, TailIndex
<1>6. Owed /\ PollsAreHonest
  BY DEF Init, Owed, PollsAreHonest, NoSilentGap, RetainedIsDelivered
<1>7. QED
  BY <1>2, <1>3, <1>4, <1>5, <1>6 DEF IInv

\* Every step of the log, the notifier and the subscriptions keeps it.
LEMMA StepIInv == IInv /\ [Next]_vars => IInv'
<1> SUFFICES ASSUME IInv, [Next]_vars PROVE IInv'
  OBVIOUS
<1>1. CASE CacheState
  <2>1. PICK b \in Sizes : Record(One(pushed, stream, b))
    BY <1>1 DEF CacheState
  <2>2. One(pushed, stream, b) \in Batches(pushed, stream)
    BY DEF Batches
  <2>3. QED
    BY <2>1, <2>2, RecordKeeps
<1>2. CASE RecordInventoryEvents
  BY <1>2, RecordKeeps DEF RecordInventoryEvents
<1>3. CASE TakeEvents
  BY <1>3, TakeEventsKeeps
<1>4. CASE SetConfig
  BY <1>4, SetConfigKeeps
<1>5. CASE Shutdown
  BY <1>5, ShutdownKeeps
<1>6. CASE \E s \in Subscriptions : SubscribeAtTail(s) \/ SubscribeFromStart(s)
  BY <1>6, SubscribeKeeps
<1>7. CASE \E t \in Tasks : Poll(t) \/ PollWithStatus(t)
  BY <1>7, PollKeeps
<1>8. CASE \E t \in Tasks :
              \/ WaitAndPollNext(t) \/ WaitForUpdate(t) \/ EnterWait(t)
              \/ Wake(t) \/ TimeOut(t)
  BY <1>8, TaskStepKeeps
<1>9. CASE UNCHANGED vars
  <2>1. UNCHANGED <<config, events, base, retained, pushed, stream, ntail, version,
                    open, cursor, observed, expect, gap, loss, holder, pc>>
    BY <1>9 DEF vars, logVars, notifierVars, subVars
  <2>2. QED
    BY <2>1 DEF IInv, TypeOK, BytesExact, RetentionLimits, Numbered, TailIndex,
                Owed, PollsAreHonest, NoSilentGap, RetainedIsDelivered
<1>10. QED
  BY <1>1, <1>2, <1>3, <1>4, <1>5, <1>6, <1>7, <1>8, <1>9 DEF Next

\* The inductive invariant holds in every reachable state.
THEOREM Inductive == Spec => []IInv
<1>1. QED
  BY InitIInv, StepIInv, PTL DEF Spec

\* The state of the log, the notifier and the subscriptions keeps its type,
\* whatever the limits, sizes and number of subscribers.
THEOREM TypeCorrect == Spec => []TypeOK
<1>1. IInv => TypeOK
  BY DEF IInv
<1>2. QED
  BY Inductive, <1>1, PTL

\* retained_event_bytes never drifts from the bytes actually retained.
THEOREM ByteAccounting == Spec => []BytesExact
<1>1. IInv => BytesExact
  BY DEF IInv
<1>2. QED
  BY Inductive, <1>1, PTL

\* The retained log respects both limits of the current configuration.
THEOREM Retention == Spec => []RetentionLimits
<1>1. IInv => RetentionLimits
  BY DEF IInv
<1>2. QED
  BY Inductive, <1>1, PTL

\* was_truncated is set exactly when a poll with its status skips an event.
THEOREM TruncationIsReported == Spec => []NoSilentGap
<1>1. IInv => NoSilentGap
  BY DEF IInv, PollsAreHonest
<1>2. QED
  BY Inductive, <1>1, PTL

\* No poll, of the async adapter or not, skips an event that is retained or
\* hands one over twice.
THEOREM PollsDeliverWhatIsRetained == Spec => []RetainedIsDelivered
<1>1. IInv => RetainedIsDelivered
  BY DEF IInv, PollsAreHonest
<1>2. QED
  BY Inductive, <1>1, PTL

\* There is no lost wakeup: a cursor behind the tail has an unseen version.
THEOREM NoLostWakeup == Spec => []NoSleepOnPending
<1>1. IInv => NoSleepOnPending
  <2> SUFFICES ASSUME IInv, NEW t \in Tasks, HasPending(SubOf[t])
               PROVE  version > observed[SubOf[t]]
    BY DEF NoSleepOnPending
  <2> DEFINE s == SubOf[t]
  <2>1. s \in Subscriptions
    BY SubscriptionAssumption DEF SubscriptionAssumption
  <2>2. /\ cursor[s] \in Nat /\ base \in Nat /\ ntail \in Nat
        /\ version \in Nat /\ observed[s] \in Nat /\ TailIndex = ntail
    BY <2>1, NumbersAreNat DEF IInv, Numbered
  <2>3. cursor[s] < ntail
    BY <2>2 DEF HasPending, Larger
  <2>4. QED
    BY <2>1, <2>2, <2>3 DEF IInv, Owed
<1>2. QED
  BY Inductive, <1>1, PTL
=============================================================================
