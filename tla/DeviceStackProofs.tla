-------------------------- MODULE DeviceStackProofs --------------------------
(***************************************************************************)
(* Proofs about the sessions of character devices, i2c, spi, uart, usb and   *)
(* of the mock, for every number of sessions, registers, settings, interface *)
(* numbers and requests: what the transfers of an i2c call make of the       *)
(* device, what a session knows of its device between two calls, what its    *)
(* driver counts, and that the sessions are those of lemnos-bus.             *)
(*                                                                           *)
(* A call is a sequence of steps computed from its request, so the first     *)
(* part is about sequences: what the functions of a sequence make of a value *)
(* one after the other (Result), of which the bytes of a request, the memory *)
(* after a message, the device after the steps of a call and the bytes they  *)
(* carry are instances.  The rest is the inductive invariant StackInv, one   *)
(* section for each transport, and the theorems that follow from it.         *)
(***************************************************************************)
EXTENDS DeviceStack, SequenceTheorems, WellFoundedInduction, TLAPS

-----------------------------------------------------------------------------
(* Arithmetic and recursion *)

(* A set of numbers that is not empty has a least one.                       *)
LEMMA Least ==
    ASSUME NEW T \in SUBSET Nat, T # {}
    PROVE  \E m \in T : \A k \in T : m <= k
<1>. DEFINE R == {ss \in Nat \X Nat : ss[1] < ss[2]}
<1>1. OpToRel(<, Nat) = R
  BY DEF OpToRel
<1>2. \A k, m \in Nat : <<k, m>> \in R <=> k < m
  OBVIOUS
<1>. HIDE DEF R
<1>3. IsWellFoundedOn(R, Nat)
  BY <1>1, NatLessThanWellFounded
<1>4. PICK m \in T : \A k \in T : ~ <<k, m>> \in R
  BY <1>3, WFMin
<1>5. m \in Nat /\ \A k \in T : ~ (k < m)
  BY <1>2, <1>4
<1>. QED BY <1>5

(* Induction, over a set where the library's theorem takes an operator.      *)
LEMMA Induction ==
    ASSUME NEW T \in SUBSET Nat, 0 \in T, \A n \in T : n + 1 \in T
    PROVE  T = Nat
<1>. SUFFICES ASSUME Nat \ T # {} PROVE FALSE
  OBVIOUS
<1>1. PICK m \in Nat \ T : \A k \in Nat \ T : m <= k
  BY Least
<1>2. m # 0 /\ m - 1 \in Nat /\ m - 1 \notin Nat \ T
  BY <1>1
<1>. QED BY <1>1, <1>2

(* F is the function that begins with x and whose k-th value g[k] makes of    *)
(* the one before it.                                                        *)
Iterates(F, S, x, n, g) ==
    /\ F \in [0 .. n -> S]
    /\ F[0] = x
    /\ \A k \in 1 .. n : F[k] = g[k][F[k - 1]]

(* A recursive function is there if each step is a function of the value     *)
(* before it.                                                                *)
LEMMA Recursion ==
    ASSUME NEW S, NEW x \in S, NEW n \in Nat, NEW g \in [1 .. n -> [S -> S]]
    PROVE  \E F : Iterates(F, S, x, n, g)
<1>. DEFINE Is(m, F) == F[0] = x /\ \A k \in 1 .. m : F[k] = g[k][F[k - 1]]
            T == {m \in Nat : m <= n => \E F \in [0 .. m -> S] : Is(m, F)}
<1>1. 0 \in T
  <2>. DEFINE F == [k \in 0 .. 0 |-> x]
  <2>1. F \in [0 .. 0 -> S] /\ Is(0, F)
    OBVIOUS
  <2>. QED BY <2>1
<1>2. ASSUME NEW m \in T
      PROVE  m + 1 \in T
  <2>. HIDE DEF Is
  <2>. SUFFICES ASSUME m + 1 <= n
                PROVE  \E F \in [0 .. m + 1 -> S] : Is(m + 1, F)
    OBVIOUS
  <2>1. PICK F \in [0 .. m -> S] : Is(m, F)
    OBVIOUS
  <2>. DEFINE G == [k \in 0 .. m + 1 |-> IF k = m + 1 THEN g[k][F[m]] ELSE F[k]]
  <2>2. m + 1 \in 1 .. n /\ g[m + 1] \in [S -> S] /\ F[m] \in S
    OBVIOUS
  <2>3. G \in [0 .. m + 1 -> S]
    BY <2>2
  <2>4. Is(m + 1, G)
    BY <2>1 DEF Is
  <2>. QED BY <2>3, <2>4
<1>. HIDE DEF T
<1>3. T = Nat
  <2>1. T \in SUBSET Nat
    BY DEF T
  <2>. QED BY <1>1, <1>2, <2>1, Induction
<1>. QED BY <1>3 DEF T, Iterates

\* There is one recursion.
LEMMA RecursionIsUnique ==
    ASSUME NEW S, NEW x, NEW n \in Nat, NEW g \in [1 .. n -> [S -> S]],
           NEW F, Iterates(F, S, x, n, g), NEW G, Iterates(G, S, x, n, g)
    PROVE  F = G
<1>. DEFINE T == {m \in Nat : m <= n => F[m] = G[m]}
<1>1. 0 \in T
  BY DEF Iterates
<1>2. ASSUME NEW m \in T
      PROVE  m + 1 \in T
  BY DEF Iterates
<1>. HIDE DEF T
<1>3. T = Nat
  <2>1. T \in SUBSET Nat
    BY DEF T
  <2>. QED BY <1>1, <1>2, <2>1, Induction
<1>4. \A m \in 0 .. n : F[m] = G[m]
  BY <1>3 DEF T
<1>. QED BY <1>4 DEF Iterates

\* Quotient and remainder.
LEMMA ModType ==
    ASSUME NEW a \in Nat, NEW R \in Nat \ {0}
    PROVE  /\ a % R \in 0 .. R - 1
           /\ a < R => a % R = a
           /\ a \div R \in Int
           /\ a = R * (a \div R) + (a % R)
  OBVIOUS

\* A number has one remainder.
LEMMA RemainderIsUnique ==
    ASSUME NEW R \in Nat \ {0}, NEW q \in Int, NEW p \in Int,
           NEW m \in 0 .. R - 1, NEW n \in 0 .. R - 1, R * q + m = R * p + n
    PROVE  m = n
<1>1. R * (q - p) = n - m
  OBVIOUS
<1>2. CASE q - p >= 1
  BY <1>1, <1>2
<1>3. CASE p - q >= 1
  BY <1>1, <1>3
<1>4. CASE q = p
  BY <1>4
<1>. QED BY <1>2, <1>3, <1>4

(* A register number that was wrapped wraps again to the same.               *)
LEMMA ModAdd ==
    ASSUME NEW a \in Nat, NEW b \in Nat, NEW R \in Nat \ {0}
    PROVE  ((a % R) + b) % R = (a + b) % R
<1>. DEFINE m == a % R
<1>1. m \in 0 .. R - 1
  BY ModType
<1>2. a = R * (a \div R) + m /\ a \div R \in Int
  BY ModType
<1>3. m + b \in Nat /\ a + b \in Nat
  BY <1>1
<1>. HIDE DEF m
<1>. DEFINE x == (m + b) \div R
            y == (a + b) \div R
            z == a \div R
            u == (m + b) % R
            v == (a + b) % R
<1>4. m + b = R * x + u /\ x \in Int /\ u \in 0 .. R - 1
  BY <1>3, ModType
<1>5. a + b = R * y + v /\ y \in Int /\ v \in 0 .. R - 1
  BY <1>3, ModType
<1>6. a = R * z + m /\ z \in Int
  BY <1>2
<1>. HIDE DEF x, y, z, u, v
<1>7. R * (x + z) + u = R * y + v /\ x + z \in Int
  BY <1>1, <1>4, <1>5, <1>6
<1>8. u = v
  <2>1. \A q, p \in Int : R * q + u = R * p + v => u = v
    BY <1>4, <1>5, RemainderIsUnique
  <2>. QED BY <1>5, <1>7, <2>1
<1>. QED BY <1>8 DEF m, u, v

-----------------------------------------------------------------------------
(* What a request writes *)

\* The messages of requests over bytes of B.
Messages(B) == Seq([write : Seq(B), read : Nat])

(* The bytes of a request are the sum of those of its messages.              *)
IsPayload(W, r) ==
    /\ W \in [0 .. Len(r.messages) -> Nat]
    /\ W[0] = 0
    /\ \A k \in 1 .. Len(r.messages) : W[k] = W[k - 1] + Len(r.messages[k].write)
    /\ Payload(r) = W[Len(r.messages)]

\* Payload is defined by recursion over the messages.
LEMMA PayloadIsSum ==
    ASSUME NEW B, NEW r, "messages" \in DOMAIN r, r.messages \in Messages(B)
    PROVE  \E W : IsPayload(W, r)
<1>. DEFINE n == Len(r.messages)
            g == [k \in 1 .. n |-> [x \in Nat |-> x + Len(r.messages[k].write)]]
            Body(W) == [k \in 0 .. n |-> IF k = 0 THEN 0 ELSE W[k - 1] + Len(r.messages[k].write)]
<1>1. n \in Nat /\ \A k \in 1 .. n : Len(r.messages[k].write) \in Nat
  BY DEF Messages
<1>2. /\ g \in [1 .. n -> [Nat -> Nat]]
      /\ \A k \in 1 .. n, x \in Nat : g[k][x] = x + Len(r.messages[k].write)
  BY <1>1
<1>. HIDE DEF g
<1>3. PICK F \in [0 .. n -> Nat] : F[0] = 0 /\ \A k \in 1 .. n : F[k] = g[k][F[k - 1]]
  <2>. DEFINE S == Nat
              x == 0
  <2>1. x \in S /\ n \in Nat /\ g \in [1 .. n -> [S -> S]]
    BY <1>1, <1>2
  <2>. HIDE DEF n, S, x
  <2>2. \E F : Iterates(F, S, x, n, g)
    BY <2>1, Recursion
  <2>. QED BY <2>2 DEF S, x, Iterates
<1>4. ASSUME NEW k \in 1 .. n
      PROVE  F[k] = F[k - 1] + Len(r.messages[k].write)
  <2>1. k - 1 \in 0 .. n
    BY <1>1
  <2>2. F[k - 1] \in Nat
    BY <2>1
  <2>. QED BY <1>2, <1>3, <2>2
<1>5. F = Body(F)
  BY <1>1, <1>3, <1>4
<1>. DEFINE W == CHOOSE W : W = Body(W)
<1>6. W = Body(W)
  BY <1>5
<1>7. Payload(r) = W[n]
  BY DEF Payload
<1>. HIDE DEF W
<1>. DEFINE T == {k \in Nat : k <= n => W[k] \in Nat}
<1>8. 0 \in T
  BY <1>1, <1>6
<1>9. ASSUME NEW k \in T
      PROVE  k + 1 \in T
  <2>. SUFFICES ASSUME k + 1 <= n
                PROVE  W[k + 1] \in Nat
    OBVIOUS
  <2>1. W[k + 1] = W[k] + Len(r.messages[k + 1].write)
    BY <1>1, <1>6
  <2>2. Len(r.messages[k + 1].write) \in Nat
    BY <1>1
  <2>. QED BY <2>1, <2>2
<1>. HIDE DEF T
<1>10. T = Nat
  <2>1. T \in SUBSET Nat
    BY DEF T
  <2>. QED BY <1>8, <1>9, <2>1, Induction
<1>11. \A k \in 0 .. n : W[k] \in Nat
  BY <1>1, <1>10 DEF T
<1>12. DOMAIN W = 0 .. n /\ W = [k \in 0 .. n |-> W[k]]
  BY <1>6
<1>13. W \in [0 .. n -> Nat] /\ W[0] = 0
  BY <1>1, <1>6, <1>11, <1>12
<1>14. ASSUME NEW k \in 1 .. n
       PROVE  W[k] = W[k - 1] + Len(r.messages[k].write)
  BY <1>1, <1>6
<1>. QED BY <1>7, <1>13, <1>14 DEF IsPayload

\* What a request writes is a number of bytes,
LEMMA PayloadType ==
    ASSUME NEW B, NEW r, "messages" \in DOMAIN r => r.messages \in Messages(B)
    PROVE  Payload(r) \in Nat
<1>1. CASE "messages" \in DOMAIN r
  <2>1. Len(r.messages) \in Nat
    BY <1>1 DEF Messages
  <2>. QED BY <1>1, <2>1, PayloadIsSum DEF IsPayload
<1>2. CASE "messages" \notin DOMAIN r
  BY <1>2 DEF Payload
<1>. QED BY <1>1, <1>2

\* of one message is what the message writes,
LEMMA PayloadOfOne ==
    ASSUME NEW B, NEW r, "messages" \in DOMAIN r, r.messages \in Messages(B),
           Len(r.messages) = 1
    PROVE  Payload(r) = Len(r.messages[1].write)
<1>1. PICK W : IsPayload(W, r)
  BY PayloadIsSum
<1>2. Len(r.messages[1].write) \in Nat
  BY DEF Messages
<1>. QED BY <1>1, <1>2 DEF IsPayload

\* and is nothing if no message writes.
LEMMA PayloadOfReads ==
    ASSUME NEW B, NEW r, "messages" \in DOMAIN r, r.messages \in Messages(B),
           \A k \in DOMAIN r.messages : r.messages[k].write = <<>>
    PROVE  Payload(r) = 0
<1>. DEFINE n == Len(r.messages)
<1>1. n \in Nat /\ DOMAIN r.messages = 1 .. n
  BY DEF Messages
<1>2. PICK W : IsPayload(W, r)
  BY PayloadIsSum
<1>. DEFINE T == {k \in Nat : k <= n => W[k] = 0}
<1>3. 0 \in T
  BY <1>2 DEF IsPayload
<1>4. ASSUME NEW k \in T
      PROVE  k + 1 \in T
  <2>. SUFFICES ASSUME k + 1 <= n
                PROVE  W[k + 1] = 0
    OBVIOUS
  <2>1. r.messages[k + 1].write = <<>>
    BY <1>1
  <2>2. W[k + 1] = W[k] + Len(r.messages[k + 1].write)
    BY <1>1, <1>2 DEF IsPayload
  <2>. QED BY <2>1, <2>2
<1>. HIDE DEF T
<1>5. T = Nat
  <2>1. T \in SUBSET Nat
    BY DEF T
  <2>. QED BY <1>3, <1>4, <2>1, Induction
<1>. QED BY <1>1, <1>2, <1>5 DEF T, IsPayload

-----------------------------------------------------------------------------
(* What a message does to an i2c device *)

\* The memories of an i2c device, and the states one passes through while the
\* bytes of a message are stored.
Memories == [Registers -> Registers]

IsStored(W, memory, start, bytes) ==
    /\ W \in [0 .. Len(bytes) -> Memories]
    /\ W[0] = memory
    /\ \A k \in 1 .. Len(bytes) : W[k] = StoreByte(W[k - 1], start + k - 1, bytes[k])
    /\ Stored(memory, start, bytes) = W[Len(bytes)]

\* Stored is defined by recursion over the bytes.
LEMMA StoredFacts ==
    ASSUME RegisterCount \in Nat \ {0}, NEW memory \in Memories, NEW start \in Nat,
           NEW bytes \in Seq(Registers)
    PROVE  \E W : IsStored(W, memory, start, bytes)
<1>. DEFINE n == Len(bytes)
            g == [k \in 1 .. n |-> [m \in Memories |-> StoreByte(m, start + k - 1, bytes[k])]]
            Body(W) == [k \in 0 .. n |-> IF k = 0 THEN memory
                                         ELSE StoreByte(W[k - 1], start + k - 1, bytes[k])]
<1>1. n \in Nat /\ \A k \in 1 .. n : bytes[k] \in Registers
  OBVIOUS
<1>2. /\ g \in [1 .. n -> [Memories -> Memories]]
      /\ \A k \in 1 .. n, m \in Memories : g[k][m] = StoreByte(m, start + k - 1, bytes[k])
  <2>1. \A k \in 1 .. n, m \in Memories : StoreByte(m, start + k - 1, bytes[k]) \in Memories
    BY <1>1 DEF Memories, StoreByte
  <2>. QED BY <2>1
<1>. HIDE DEF g
<1>3. PICK F \in [0 .. n -> Memories] : F[0] = memory /\ \A k \in 1 .. n : F[k] = g[k][F[k - 1]]
  <2>. DEFINE S == Memories
              x == memory
  <2>1. x \in S /\ n \in Nat /\ g \in [1 .. n -> [S -> S]]
    BY <1>1, <1>2
  <2>. HIDE DEF n, S, x
  <2>2. \E F : Iterates(F, S, x, n, g)
    BY <2>1, Recursion
  <2>. QED BY <2>2 DEF S, x, Iterates
<1>4. ASSUME NEW k \in 1 .. n
      PROVE  F[k] = StoreByte(F[k - 1], start + k - 1, bytes[k])
  <2>1. k - 1 \in 0 .. n
    BY <1>1
  <2>2. F[k - 1] \in Memories
    BY <2>1
  <2>. QED BY <1>2, <1>3, <2>2
<1>5. F = Body(F)
  BY <1>1, <1>3, <1>4
<1>. DEFINE W == CHOOSE W : W = Body(W)
<1>6. W = Body(W)
  BY <1>5
<1>7. Stored(memory, start, bytes) = W[n]
  BY DEF Stored
<1>. HIDE DEF W
<1>. DEFINE T == {k \in Nat : k <= n => W[k] \in Memories}
<1>8. 0 \in T
  BY <1>1, <1>6
<1>9. ASSUME NEW k \in T
      PROVE  k + 1 \in T
  <2>. SUFFICES ASSUME k + 1 <= n
                PROVE  W[k + 1] \in Memories
    OBVIOUS
  <2>1. k + 1 \in 1 .. n /\ k + 1 - 1 = k
    BY <1>1
  <2>2. W[k + 1] = StoreByte(W[k], start + k, bytes[k + 1])
    BY <1>6, <2>1
  <2>3. bytes[k + 1] \in Registers /\ W[k] \in Memories
    BY <1>1, <2>1
  <2>4. StoreByte(W[k], start + k, bytes[k + 1]) \in Memories
    BY <2>3 DEF Memories, StoreByte
  <2>. QED BY <2>2, <2>4
<1>. HIDE DEF T
<1>10. T = Nat
  <2>1. T \in SUBSET Nat
    BY DEF T
  <2>. QED BY <1>8, <1>9, <2>1, Induction
<1>11. \A k \in 0 .. n : W[k] \in Memories
  BY <1>1, <1>10 DEF T
<1>12. DOMAIN W = 0 .. n /\ W = [k \in 0 .. n |-> W[k]]
  BY <1>6
<1>13. W \in [0 .. n -> Memories] /\ W[0] = memory
  BY <1>1, <1>6, <1>11, <1>12
<1>14. ASSUME NEW k \in 1 .. n
       PROVE  W[k] = StoreByte(W[k - 1], start + k - 1, bytes[k])
  BY <1>1, <1>6
<1>. QED BY <1>7, <1>13, <1>14 DEF IsStored

\* A message that writes no byte changes nothing,
LEMMA StoredNothing ==
    ASSUME RegisterCount \in Nat \ {0}, NEW memory \in Memories, NEW start \in Nat
    PROVE  Stored(memory, start, <<>>) = memory
<1>. DEFINE bytes == <<>>
<1>1. bytes \in Seq(Registers) /\ Len(bytes) = 0
  OBVIOUS
<1>. HIDE DEF bytes
<1>2. Stored(memory, start, bytes) = memory
  <2>1. PICK W : IsStored(W, memory, start, bytes)
    BY <1>1, StoredFacts
  <2>. QED BY <1>1, <2>1 DEF IsStored
<1>. QED BY <1>2 DEF bytes

\* and one that writes a byte changes one register.
LEMMA StoredOne ==
    ASSUME RegisterCount \in Nat \ {0}, NEW memory \in Memories, NEW start \in Nat,
           NEW byte \in Registers
    PROVE  Stored(memory, start, <<byte>>) =
               StoreByte(memory, start, byte)
<1>. DEFINE bytes == <<byte>>
<1>2. bytes \in Seq(Registers) /\ Len(bytes) = 1 /\ bytes[1] = byte
  OBVIOUS
<1>. HIDE DEF bytes
<1>3. PICK W : IsStored(W, memory, start, bytes)
  BY <1>2, StoredFacts
<1>4. 1 \in 1 .. 1 /\ 1 - 1 = 0 /\ start + 1 - 1 = start
  OBVIOUS
<1>5. Stored(memory, start, bytes) = StoreByte(memory, start, byte)
  BY <1>2, <1>3, <1>4 DEF IsStored
<1>. QED BY <1>5 DEF bytes

\* What is stored is a memory.
LEMMA StoredType ==
    ASSUME RegisterCount \in Nat \ {0}, NEW memory \in Memories, NEW start \in Nat,
           NEW bytes \in Seq(Registers)
    PROVE  Stored(memory, start, bytes) \in Memories
<1>1. Len(bytes) \in Nat
  OBVIOUS
<1>. QED BY <1>1, StoredFacts DEF IsStored

-----------------------------------------------------------------------------
(* What the functions of a sequence g make of x, one after the other. *)
Result(S, x, g) == (CHOOSE F : Iterates(F, S, x, Len(g), g))[Len(g)]

Effects(S) == Seq([S -> S])

\* Result is what a recursion over g makes of x.
LEMMA ResultExists ==
    ASSUME NEW S, NEW x \in S, NEW g \in Effects(S)
    PROVE  /\ Len(g) \in Nat /\ g \in [1 .. Len(g) -> [S -> S]]
           /\ \E F : Iterates(F, S, x, Len(g), g) /\ Result(S, x, g) = F[Len(g)]
<1>1. Len(g) \in Nat /\ g \in [1 .. Len(g) -> [S -> S]]
  BY DEF Effects
<1>2. \E F : Iterates(F, S, x, Len(g), g)
  BY <1>1, Recursion
<1>. QED BY <1>1, <1>2 DEF Result

LEMMA ResultIs ==
    ASSUME NEW S, NEW x \in S, NEW g \in Effects(S), NEW F, Iterates(F, S, x, Len(g), g)
    PROVE  Result(S, x, g) = F[Len(g)]
BY ResultExists, RecursionIsUnique

LEMMA ResultType ==
    ASSUME NEW S, NEW x \in S, NEW g \in Effects(S)
    PROVE  Result(S, x, g) \in S
<1>1. PICK F : Iterates(F, S, x, Len(g), g) /\ Result(S, x, g) = F[Len(g)]
  BY ResultExists
<1>2. Len(g) \in 0 .. Len(g)
  BY ResultExists
<1>. QED BY <1>1, <1>2 DEF Iterates

\* No function makes nothing of x,
LEMMA ResultOfNone ==
    ASSUME NEW S, NEW x \in S
    PROVE  Result(S, x, <<>>) = x
<1>. DEFINE g == <<>>
<1>1. g \in Effects(S) /\ Len(g) = 0
  BY DEF Effects
<1>. HIDE DEF g
<1>2. Result(S, x, g) = x
  BY <1>1, ResultExists DEF Iterates
<1>. QED BY <1>2 DEF g

\* one function what it is,
LEMMA ResultOfOne ==
    ASSUME NEW S, NEW x \in S, NEW f \in [S -> S]
    PROVE  <<f>> \in Effects(S) /\ Result(S, x, <<f>>) = f[x]
<1>. DEFINE g == <<f>>
<1>1. g \in Effects(S) /\ Len(g) = 1 /\ g[1] = f
  BY DEF Effects
<1>. HIDE DEF g
<1>2. PICK F : Iterates(F, S, x, Len(g), g)
  BY <1>1, ResultExists
<1>3. F[1] = f[F[0]] /\ F[0] = x
  <2>1. 1 \in 1 .. 1 /\ 1 - 1 = 0
    OBVIOUS
  <2>. QED BY <1>1, <1>2, <2>1 DEF Iterates
<1>4. Result(S, x, g) = f[x]
  BY <1>1, <1>2, <1>3, ResultIs, ZenonT(30)
<1>. QED BY <1>1, <1>4 DEF g

\* and two sequences what the second makes of what the first made.
LEMMA ResultOfBoth ==
    ASSUME NEW S, NEW x \in S, NEW g \in Effects(S), NEW h \in Effects(S)
    PROVE  /\ g \o h \in Effects(S)
           /\ Result(S, x, g \o h) = Result(S, Result(S, x, g), h)
<1>. DEFINE m == Len(g)
            n == Len(h)
            y == Result(S, x, g)
            gh == g \o h
<1>1. /\ gh \in Effects(S) /\ Len(gh) = m + n
      /\ m \in Nat /\ n \in Nat
      /\ \A k \in 1 .. m + n : gh[k] = IF k <= m THEN g[k] ELSE h[k - m]
  BY DEF Effects
<1>2. y \in S
  BY ResultType
<1>3. PICK F : Iterates(F, S, x, m, g) /\ y = F[m]
  BY ResultExists
<1>. HIDE DEF y
<1>4. PICK G : Iterates(G, S, y, n, h) /\ Result(S, y, h) = G[n]
  BY <1>2, ResultExists
<1>. HIDE DEF m, n, gh
<1>. DEFINE H == [k \in 0 .. m + n |-> IF k <= m THEN F[k] ELSE G[k - m]]
<1>5. H \in [0 .. m + n -> S]
  <2>1. \A k \in 0 .. m : F[k] \in S
    BY <1>3 DEF Iterates
  <2>2. \A k \in 0 .. n : G[k] \in S
    BY <1>4 DEF Iterates
  <2>3. \A k \in 0 .. m + n : ~ (k <= m) => k - m \in 0 .. n
    BY <1>1
  <2>. QED BY <1>1, <2>1, <2>2, <2>3
<1>6. H[0] = x
  BY <1>1, <1>3 DEF Iterates
<1>7. ASSUME NEW k \in 1 .. m + n
      PROVE  H[k] = gh[k][H[k - 1]]
  <2>1. CASE k <= m
    <3>1. k \in 1 .. m /\ k \in 0 .. m + n /\ k - 1 \in 0 .. m + n /\ k - 1 <= m
      BY <1>1, <2>1
    <3>2. H[k] = F[k] /\ H[k - 1] = F[k - 1]
      BY <2>1, <3>1
    <3>. HIDE DEF H
    <3>. QED BY <1>1, <1>3, <2>1, <3>1, <3>2 DEF Iterates
  <2>2. CASE k = m + 1
    <3>1. H[k - 1] = y /\ H[k] = G[1] /\ gh[k] = h[1] /\ 1 \in 1 .. n
      BY <1>1, <1>3, <2>2
    <3>2. G[1] = h[1][G[1 - 1]] /\ G[0] = y
      BY <1>4, <3>1 DEF Iterates
    <3>. QED BY <3>1, <3>2
  <2>3. CASE k > m + 1
    <3>1. k - m \in 1 .. n /\ H[k] = G[k - m] /\ H[k - 1] = G[k - m - 1] /\ gh[k] = h[k - m]
      BY <1>1, <2>3
    <3>. QED BY <1>4, <3>1 DEF Iterates
  <2>. QED BY <1>1, <2>1, <2>2, <2>3
<1>8. Iterates(H, S, x, m + n, gh)
  BY <1>5, <1>6, <1>7 DEF Iterates
<1>9. Result(S, x, gh) = H[m + n]
  BY <1>1, <1>8, ResultIs
<1>10. H[m + n] = G[n]
  <2>1. CASE n = 0
    BY <1>1, <1>3, <1>4, <2>1 DEF Iterates
  <2>2. CASE n # 0
    BY <1>1, <2>2
  <2>. QED BY <2>1, <2>2
<1>. QED BY <1>1, <1>4, <1>9, <1>10 DEF y, gh

-----------------------------------------------------------------------------
(* Transfers *)

\* A device between two transfers, and what a session has read of it.
Results == [memory : Memories, pointer : Registers, read : Seq(Registers)]

\* What the message m makes of it.
Did(x, m) ==
    LET done == MessageDone(x.memory, x.pointer, m)
    IN  [memory |-> done.memory, pointer |-> done.pointer, read |-> x.read \o done.read]

IsMessage(m) == m.write \in Seq(Registers) /\ m.read \in Nat

\* Where a message starts, and what it stores there.
Start(x, m) == IF m.write = <<>> THEN x.pointer ELSE m.write[1]
Remainder(m) == IF m.write = <<>> THEN <<>> ELSE Tail(m.write)

\* What a message does, register by register.
LEMMA DidFacts ==
    ASSUME RegisterCount \in Nat \ {0}, NEW x \in Results, NEW m, IsMessage(m)
    PROVE  /\ Start(x, m) \in Registers /\ Remainder(m) \in Seq(Registers)
           /\ Did(x, m) \in Results
           /\ Did(x, m).memory = Stored(x.memory, Start(x, m), Remainder(m))
           /\ Did(x, m).pointer = (((Start(x, m) + Len(Remainder(m))) % RegisterCount) + m.read) % RegisterCount
           /\ Did(x, m).read = x.read \o
                  [k \in 1 .. m.read |->
                      Did(x, m).memory[(((Start(x, m) + Len(Remainder(m))) % RegisterCount) + k - 1) % RegisterCount]]
<1>. DEFINE start == Start(x, m)
            bytes == Remainder(m)
            after == (start + Len(bytes)) % RegisterCount
            written == Stored(x.memory, start, bytes)
            read == [k \in 1 .. m.read |-> written[(after + k - 1) % RegisterCount]]
<1>1. x.memory \in Memories /\ x.pointer \in Registers /\ x.read \in Seq(Registers)
  BY DEF Results
<1>2. start \in Registers /\ bytes \in Seq(Registers) /\ Len(bytes) \in Nat
  <2>1. CASE m.write = <<>>
    BY <1>1, <2>1 DEF Start, Remainder, IsMessage
  <2>2. CASE m.write # <<>>
    BY <2>2 DEF Start, Remainder, IsMessage
  <2>. QED BY <2>1, <2>2
<1>3. start \in Nat /\ Registers \subseteq Nat
  BY <1>2 DEF Registers
<1>4. Did(x, m) = [memory |-> written, pointer |-> (after + m.read) % RegisterCount,
                   read |-> x.read \o read]
  BY DEF Did, MessageDone, Start, Remainder
<1>. HIDE DEF start, bytes
<1>5. written \in Memories
  BY <1>1, <1>2, <1>3, StoredType
<1>6. after \in Nat /\ \A k \in Nat : (after + k) % RegisterCount \in Registers
  <2>1. after \in Nat
    BY <1>2, <1>3, ModType
  <2>2. ASSUME NEW k \in Nat
        PROVE  (after + k) % RegisterCount \in Registers
    <3>1. after + k \in Nat
      BY <2>1
    <3>. QED BY <3>1, ModType DEF Registers
  <2>. QED BY <2>1, <2>2
<1>. HIDE DEF after, written
<1>7. read \in Seq(Registers)
  <2>1. ASSUME NEW k \in 1 .. m.read
        PROVE  written[(after + k - 1) % RegisterCount] \in Registers
    <3>1. k - 1 \in Nat /\ after + (k - 1) = after + k - 1
      BY <1>6 DEF IsMessage
    <3>2. (after + k - 1) % RegisterCount \in Registers
      BY <1>6, <3>1
    <3>. QED BY <1>5, <3>2 DEF Memories
  <2>. QED BY <2>1 DEF IsMessage
<1>8. (after + m.read) % RegisterCount \in Registers
  BY <1>6 DEF IsMessage
<1>. HIDE DEF read
<1>9. Did(x, m) \in Results
  BY <1>1, <1>4, <1>5, <1>7, <1>8 DEF Results
<1>10. /\ Did(x, m).memory = written
       /\ Did(x, m).pointer = (after + m.read) % RegisterCount
       /\ Did(x, m).read = x.read \o [k \in 1 .. m.read |-> written[(after + k - 1) % RegisterCount]]
  <2>. DEFINE pointer == (after + m.read) % RegisterCount
              all == x.read \o read
  <2>1. Did(x, m) = [memory |-> written, pointer |-> pointer, read |-> all]
    BY <1>4
  <2>. HIDE DEF pointer, all
  <2>2. Did(x, m).memory = written /\ Did(x, m).pointer = pointer /\ Did(x, m).read = all
    BY <2>1
  <2>. QED BY <2>2 DEF pointer, all, read
<1>11. /\ written = Stored(x.memory, Start(x, m), Remainder(m))
       /\ after = (Start(x, m) + Len(Remainder(m))) % RegisterCount
       /\ Start(x, m) \in Registers /\ Remainder(m) \in Seq(Registers)
  BY <1>2 DEF start, bytes, after, written
<1>. HIDE DEF after, written
<1>. QED BY <1>9, <1>10, <1>11

\* The steps of i2c calls, but for the selection of an address.
Transfers == [kind : {"transfer"}, write : Seq(Registers), read : Nat, carries : Nat]
Blocks == {Block(a, n) : a \in Registers, n \in Nat \ {0}}
I2cStepSet == Transfers \cup Blocks \cup {Refusal}

Plays(step) == step.kind \in {"transfer", "block"}
NoRefusal(steps) == \A k \in 1 .. Len(steps) : steps[k].kind # "refusal"

\* What a step makes of it.
After(x, step) == IF Plays(step) THEN Did(x, step) ELSE x

\* A step that reaches the device is a message.
LEMMA StepIsMessage ==
    ASSUME NEW step \in I2cStepSet, Plays(step)
    PROVE  IsMessage(step)
<1>1. CASE step \in Transfers
  BY <1>1 DEF Transfers, IsMessage
<1>2. CASE step \in Blocks
  <2>1. PICK a \in Registers, n \in Nat \ {0} : step = Block(a, n)
    BY <1>2 DEF Blocks
  <2>2. step.write = <<a>> /\ step.read = n
    BY <2>1 DEF Block
  <2>3. <<a>> \in Seq(Registers)
    OBVIOUS
  <2>. QED BY <2>2, <2>3 DEF IsMessage
<1>3. CASE step = Refusal
  BY <1>3 DEF Refusal, Plays
<1>. QED BY <1>1, <1>2, <1>3 DEF I2cStepSet

LEMMA AfterType ==
    ASSUME RegisterCount \in Nat \ {0}, NEW step \in I2cStepSet, NEW x \in Results
    PROVE  After(x, step) \in Results
BY StepIsMessage, DidFacts DEF After

\* What the steps of a call make of a device.
Moves(steps) == [k \in 1 .. Len(steps) |-> [x \in Results |-> After(x, steps[k])]]
Ran(x, steps) == Result(Results, x, Moves(steps))

LEMMA MovesType ==
    ASSUME RegisterCount \in Nat \ {0}, NEW steps \in Seq(I2cStepSet)
    PROVE  /\ Moves(steps) \in Effects(Results)
           /\ Len(Moves(steps)) = Len(steps)
<1>1. Len(steps) \in Nat /\ \A k \in 1 .. Len(steps) : steps[k] \in I2cStepSet
  OBVIOUS
<1>2. \A k \in 1 .. Len(steps) : [x \in Results |-> After(x, steps[k])] \in [Results -> Results]
  BY <1>1, AfterType
<1>. QED BY <1>1, <1>2 DEF Moves, Effects

LEMMA RanOfNone ==
    ASSUME NEW x \in Results
    PROVE  Ran(x, <<>>) = x
<1>1. Moves(<<>>) = <<>>
  BY DEF Moves
<1>. QED BY <1>1, ResultOfNone DEF Ran

LEMMA RanOfOne ==
    ASSUME RegisterCount \in Nat \ {0}, NEW x \in Results, NEW step \in I2cStepSet
    PROVE  Ran(x, <<step>>) = After(x, step)
<1>. DEFINE f == [y \in Results |-> After(y, step)]
<1>1. Moves(<<step>>) = <<f>>
  BY DEF Moves
<1>2. f \in [Results -> Results] /\ f[x] = After(x, step)
  BY AfterType
<1>. HIDE DEF f
<1>. QED BY <1>1, <1>2, ResultOfOne DEF Ran

\* The steps of two parts of a call are made one after the other.
LEMMA RanOfBoth ==
    ASSUME RegisterCount \in Nat \ {0}, NEW x \in Results,
           NEW a \in Seq(I2cStepSet), NEW b \in Seq(I2cStepSet)
    PROVE  Ran(x, a \o b) = Ran(Ran(x, a), b) /\ Ran(x, a) \in Results
<1>1. Moves(a \o b) = Moves(a) \o Moves(b)
  <2>1. /\ Len(a \o b) = Len(a) + Len(b) /\ Len(a) \in Nat /\ Len(b) \in Nat
        /\ \A k \in 1 .. Len(a) + Len(b) : (a \o b)[k] = IF k <= Len(a) THEN a[k] ELSE b[k - Len(a)]
    OBVIOUS
  <2>2. /\ Moves(a) \in Seq([Results -> Results]) /\ Len(Moves(a)) = Len(a)
        /\ Moves(b) \in Seq([Results -> Results]) /\ Len(Moves(b)) = Len(b)
    BY MovesType DEF Effects
  <2>. DEFINE g == Moves(a)
              h == Moves(b)
              gh == Moves(a \o b)
  <2>3. /\ DOMAIN gh = 1 .. Len(a) + Len(b) /\ gh = [k \in DOMAIN gh |-> gh[k]]
        /\ \A k \in 1 .. Len(a) + Len(b) : gh[k] = IF k <= Len(a) THEN g[k] ELSE h[k - Len(a)]
    BY <2>1 DEF Moves
  <2>. HIDE DEF g, h, gh
  <2>4. gh = g \o h
    <3>1. /\ g \in Seq([Results -> Results]) /\ Len(g) = Len(a)
          /\ h \in Seq([Results -> Results]) /\ Len(h) = Len(b)
      BY <2>2 DEF g, h
    <3>2. /\ g \o h \in Seq([Results -> Results]) /\ Len(g \o h) = Len(a) + Len(b)
          /\ \A k \in 1 .. Len(a) + Len(b) : (g \o h)[k] = IF k <= Len(a) THEN g[k] ELSE h[k - Len(a)]
      <4>1. /\ g \o h \in Seq([Results -> Results]) /\ Len(g \o h) = Len(g) + Len(h)
            /\ \A k \in 1 .. Len(g) + Len(h) : (g \o h)[k] = IF k <= Len(g) THEN g[k] ELSE h[k - Len(g)]
        BY <3>1, ConcatProperties
      <4>. QED BY <3>1, <4>1
    <3>3. gh \in Seq([Results -> Results]) /\ Len(gh) = Len(a) + Len(b)
      <4>1. a \o b \in Seq(I2cStepSet)
        OBVIOUS
      <4>. QED BY <2>1, <4>1, MovesType DEF gh, Effects
    <3>4. \A k \in 1 .. Len(gh) : gh[k] = (g \o h)[k]
      BY <2>3, <3>2, <3>3
    <3>. HIDE DEF Effects
    <3>. QED BY <3>2, <3>3, <3>4, SeqEqual
  <2>. QED BY <2>4 DEF g, h, gh
<1>2. Moves(a) \in Effects(Results) /\ Moves(b) \in Effects(Results)
  BY MovesType
<1>. QED BY <1>1, <1>2, ResultOfBoth, ResultType DEF Ran

\* The first step, and the others after it.
LEMMA RanOfFirst ==
    ASSUME RegisterCount \in Nat \ {0}, NEW x \in Results,
           NEW steps \in Seq(I2cStepSet), steps # <<>>
    PROVE  /\ Head(steps) \in I2cStepSet /\ Tail(steps) \in Seq(I2cStepSet)
           /\ steps = <<Head(steps)>> \o Tail(steps)
           /\ Ran(x, steps) = Ran(After(x, Head(steps)), Tail(steps))
<1>1. /\ Head(steps) \in I2cStepSet /\ Tail(steps) \in Seq(I2cStepSet)
      /\ steps = <<Head(steps)>> \o Tail(steps)
  OBVIOUS
<1>. DEFINE a == <<Head(steps)>>
            b == Tail(steps)
<1>2. a \in Seq(I2cStepSet) /\ b \in Seq(I2cStepSet) /\ steps = a \o b
  BY <1>1
<1>. HIDE DEF a, b
<1>3. Ran(x, a \o b) = Ran(Ran(x, a), b)
  BY <1>2, RanOfBoth
<1>4. Ran(x, steps) = Ran(Ran(x, <<Head(steps)>>), Tail(steps))
  BY <1>2, <1>3 DEF a, b
<1>. QED BY <1>1, <1>4, RanOfOne

-----------------------------------------------------------------------------
(* Fallbacks *)

\* The states a device passes through while the steps are made.
Passes(F, x, steps) ==
    /\ F \in [0 .. Len(steps) -> Results]
    /\ F[0] = x
    /\ \A k \in 1 .. Len(steps) : F[k] = After(F[k - 1], steps[k])

\* What a call makes of a device is where the states it passes through end.
LEMMA RanIs ==
    ASSUME RegisterCount \in Nat \ {0}, NEW x \in Results, NEW steps \in Seq(I2cStepSet),
           NEW F, Passes(F, x, steps)
    PROVE  Ran(x, steps) = F[Len(steps)]
<1>. DEFINE g == Moves(steps)
<1>1. g \in Effects(Results) /\ Len(g) = Len(steps) /\ Len(steps) \in Nat
  BY MovesType
<1>2. ASSUME NEW k \in 1 .. Len(steps)
      PROVE  F[k] = g[k][F[k - 1]]
  <2>1. k - 1 \in 0 .. Len(steps)
    BY <1>1
  <2>2. F[k - 1] \in Results /\ F[k] = After(F[k - 1], steps[k])
    BY <2>1 DEF Passes
  <2>3. g[k] = [y \in Results |-> After(y, steps[k])]
    BY DEF Moves
  <2>. QED BY <2>2, <2>3
<1>. HIDE DEF g
<1>3. Iterates(F, Results, x, Len(g), g)
  BY <1>1, <1>2 DEF Iterates, Passes
<1>4. Result(Results, x, g) = F[Len(steps)]
  BY <1>1, <1>3, ResultIs
<1>. QED BY <1>4 DEF Ran, g

\* The byte count and the end of a message that is Did
LEMMA DidSame ==
    ASSUME NEW x, NEW m, NEW n, m.write = n.write, m.read = n.read
    PROVE  Did(x, m) = Did(x, n)
BY DEF Did, MessageDone

LEMMA Wrapped ==
    ASSUME RegisterCount \in Nat \ {0}, NEW a \in Nat
    PROVE  a % RegisterCount \in Registers
BY ModType DEF Registers

\* The register that a kernel transport names is the one the device takes.
LEMMA RegisterIsWrapped ==
    ASSUME RegisterCount \in Nat \ {0}, NEW p \in Registers
    PROVE  p \in Nat /\ p % RegisterCount = p
<1>1. p \in Nat /\ p < RegisterCount
  BY DEF Registers
<1>. QED BY <1>1, ModType

\* One byte written to the register it follows.
LEMMA DidByte ==
    ASSUME RegisterCount \in Nat \ {0}, NEW x \in Results, NEW m,
           NEW at \in Nat, NEW byte \in Registers,
           m.write = <<at % RegisterCount, byte>>, m.read = 0
    PROVE  Did(x, m) = [memory |-> StoreByte(x.memory, at, byte),
                        pointer |-> (at + 1) % RegisterCount, read |-> x.read]
<1>. DEFINE start == at % RegisterCount
<1>1. start \in Registers /\ start \in Nat /\ start % RegisterCount = start
      /\ (start + 1) % RegisterCount = (at + 1) % RegisterCount
  <2>1. start \in Registers
    BY Wrapped
  <2>2. start \in Nat /\ start % RegisterCount = start
    <3>. HIDE DEF start
    <3>. QED BY <2>1, RegisterIsWrapped
  <2>3. (start + 1) % RegisterCount = (at + 1) % RegisterCount
    BY ModAdd, SMTT(30)
  <2>. QED BY <2>1, <2>2, <2>3
<1>. HIDE DEF start
<1>2. m.write = <<start, byte>>
  BY DEF start
<1>3. IsMessage(m)
  BY <1>1, <1>2 DEF IsMessage
<1>4. Start(x, m) = start /\ Remainder(m) = <<byte>> /\ Len(Remainder(m)) = 1
  BY <1>2 DEF Start, Remainder
<1>5. x.memory \in Memories /\ x.read \in Seq(Registers)
  BY DEF Results
<1>6. Did(x, m).memory = StoreByte(x.memory, start, byte)
  BY <1>1, <1>3, <1>4, <1>5, DidFacts, StoredOne
<1>7. StoreByte(x.memory, start, byte) = StoreByte(x.memory, at, byte)
  BY <1>1 DEF StoreByte, start
<1>8. Did(x, m).pointer = (at + 1) % RegisterCount
  <2>1. Did(x, m).pointer = (((start + 1) % RegisterCount) + 0) % RegisterCount
    BY <1>3, <1>4, DidFacts
  <2>. DEFINE p == (start + 1) % RegisterCount
  <2>2. p \in Registers
    BY <1>1, Wrapped
  <2>. HIDE DEF p
  <2>3. p + 0 = p /\ p % RegisterCount = p
    BY <2>2, RegisterIsWrapped
  <2>. QED BY <1>1, <2>1, <2>3 DEF p
<1>9. Did(x, m).read = x.read
  <2>1. Did(x, m).read = x.read \o [k \in 1 .. 0 |-> Did(x, m).memory[(((Start(x, m) + Len(Remainder(m))) % RegisterCount) + k - 1) % RegisterCount]]
    BY <1>3, DidFacts
  <2>2. [k \in 1 .. 0 |-> Did(x, m).memory[(((Start(x, m) + Len(Remainder(m))) % RegisterCount) + k - 1) % RegisterCount]] = <<>>
    OBVIOUS
  <2>3. x.read \o <<>> = x.read
    BY <1>5, ConcatEmptySeq
  <2>. QED BY <2>1, <2>2, <2>3
<1>10. Did(x, m) = [memory |-> Did(x, m).memory, pointer |-> Did(x, m).pointer, read |-> Did(x, m).read]
  BY <1>3, DidFacts DEF Results
<1>. QED BY <1>6, <1>7, <1>8, <1>9, <1>10

\* One byte read from a register.
LEMMA DidRead ==
    ASSUME RegisterCount \in Nat \ {0}, NEW x \in Results, NEW m,
           NEW at \in Nat, NEW count \in Nat,
           m.write = <<at % RegisterCount>>, m.read = count
    PROVE  Did(x, m) = [memory |-> x.memory, pointer |-> (at + count) % RegisterCount,
                        read |-> x.read \o [k \in 1 .. count |-> x.memory[(at + k - 1) % RegisterCount]]]
<1>. DEFINE start == at % RegisterCount
<1>1. start \in Registers /\ start \in Nat /\ start % RegisterCount = start
  <2>1. start \in Registers
    BY Wrapped
  <2>2. start \in Nat /\ start % RegisterCount = start
    <3>. HIDE DEF start
    <3>. QED BY <2>1, RegisterIsWrapped
  <2>. QED BY <2>1, <2>2
<1>2. \A k \in Nat : (start + k) % RegisterCount = (at + k) % RegisterCount
  BY ModAdd
<1>. HIDE DEF start
<1>3. m.write = <<start>>
  BY DEF start
<1>4. IsMessage(m)
  BY <1>1, <1>3 DEF IsMessage
<1>5. Start(x, m) = start /\ Remainder(m) = <<>> /\ Len(Remainder(m)) = 0
  BY <1>3 DEF Start, Remainder
<1>6. x.memory \in Memories /\ x.read \in Seq(Registers)
  BY DEF Results
<1>7. Did(x, m).memory = x.memory
  BY <1>1, <1>4, <1>5, <1>6, DidFacts, StoredNothing
<1>8. (start + Len(Remainder(m))) % RegisterCount = start
  BY <1>1, <1>5
<1>9. Did(x, m).pointer = (at + count) % RegisterCount
  <2>1. Did(x, m).pointer = (((Start(x, m) + Len(Remainder(m))) % RegisterCount) + m.read) % RegisterCount
    BY <1>4, DidFacts
  <2>2. Did(x, m).pointer = (start + count) % RegisterCount
    BY <1>5, <1>8, <2>1
  <2>. QED BY <1>2, <2>2
<1>10. Did(x, m).read = x.read \o [k \in 1 .. count |-> x.memory[(at + k - 1) % RegisterCount]]
  <2>1. Did(x, m).read = x.read \o [k \in 1 .. count |-> x.memory[(start + k - 1) % RegisterCount]]
    <3>1. Did(x, m).read = x.read \o
              [k \in 1 .. m.read |->
                  Did(x, m).memory[(((Start(x, m) + Len(Remainder(m))) % RegisterCount) + k - 1) % RegisterCount]]
      BY <1>4, DidFacts
    <3>2. (Start(x, m) + Len(Remainder(m))) % RegisterCount = start
      BY <1>5, <1>8
    <3>. QED BY <1>7, <3>1, <3>2
  <2>2. ASSUME NEW k \in 1 .. count
        PROVE  (start + k - 1) % RegisterCount = (at + k - 1) % RegisterCount
    <3>1. k - 1 \in Nat /\ start + k - 1 = start + (k - 1) /\ at + k - 1 = at + (k - 1)
      BY <1>1
    <3>. QED BY <1>2, <3>1
  <2>3. [k \in 1 .. count |-> x.memory[(start + k - 1) % RegisterCount]]
            = [k \in 1 .. count |-> x.memory[(at + k - 1) % RegisterCount]]
    BY <2>2
  <2>. QED BY <2>1, <2>3
<1>11. Did(x, m) = [memory |-> Did(x, m).memory, pointer |-> Did(x, m).pointer, read |-> Did(x, m).read]
  BY <1>4, DidFacts DEF Results
<1>. QED BY <1>7, <1>9, <1>10, <1>11

\* The registers that a read from there returns, and a message that sets the
\* pointer before it reads.
BytesAt(memory, at, count) == [k \in 1 .. count |-> memory[(at + k - 1) % RegisterCount]]

ReadsFrom(m, at) == m.write = <<at % RegisterCount>>

\* A read returns them.
LEMMA DidReads ==
    ASSUME RegisterCount \in Nat \ {0}, NEW x \in Results, NEW m,
           NEW at \in Nat, ReadsFrom(m, at), m.read \in Nat
    PROVE  Did(x, m) = [memory |-> x.memory, pointer |-> (at + m.read) % RegisterCount,
                        read |-> x.read \o BytesAt(x.memory, at, m.read)]
BY DidRead DEF BytesAt, ReadsFrom

\* A longer read returns one more byte.
LEMMA OneMore ==
    ASSUME NEW S, NEW p \in Seq(S), NEW a \in S, NEW r \in Seq(S), Len(r) = Len(p) + 1,
           \A j \in 1 .. Len(p) : r[j] = p[j], r[Len(p) + 1] = a
    PROVE  p \o <<a>> = r
<1>. DEFINE q == <<a>>
            pq == p \o q
<1>1. q \in Seq(S) /\ Len(q) = 1 /\ q[1] = a
  OBVIOUS
<1>. HIDE DEF q
<1>2. /\ pq \in Seq(S) /\ Len(pq) = Len(p) + Len(q)
      /\ \A j \in 1 .. Len(p) + Len(q) : pq[j] = IF j <= Len(p) THEN p[j] ELSE q[j - Len(p)]
  BY <1>1, ConcatProperties
<1>. HIDE DEF pq
<1>3. Len(p) \in Nat
  BY LenProperties
<1>4. ASSUME NEW j \in 1 .. Len(r)
      PROVE  pq[j] = r[j]
  <2>1. pq[j] = IF j <= Len(p) THEN p[j] ELSE q[j - Len(p)]
    BY <1>1, <1>2, <1>3
  <2>2. CASE j \in 1 .. Len(p)
    BY <2>1, <2>2, <1>3
  <2>3. CASE j = Len(p) + 1
    <3>1. ~ (j <= Len(p)) /\ j - Len(p) = 1
      BY <2>3, <1>3
    <3>2. pq[j] = q[1]
      BY <2>1, <3>1
    <3>3. r[j] = a
      BY <2>3
    <3>. QED BY <1>1, <3>2, <3>3
  <2>. QED BY <1>3, <2>2, <2>3
<1>5. pq = r
  BY <1>1, <1>2, <1>3, <1>4, SeqEqual
<1>. QED BY <1>5 DEF pq, q

LEMMA TransferType ==
    ASSUME NEW write \in Seq(Registers), NEW read \in Nat, NEW carries \in Nat
    PROVE  /\ Transfer(write, read, carries) \in I2cStepSet
           /\ Plays(Transfer(write, read, carries))
           /\ Transfer(write, read, carries).kind # "refusal"
           /\ Transfer(write, read, carries).write = write
           /\ Transfer(write, read, carries).read = read
           /\ Transfer(write, read, carries).carries = carries
BY DEF Transfer, Transfers, I2cStepSet, Plays

\* A write of one byte at a time is a sequence of transfers,
LEMMA WriteSequenceType ==
    ASSUME RegisterCount \in Nat \ {0}, NEW bytes \in Seq(Registers), Len(bytes) >= 2
    PROVE  /\ WriteSequence(bytes) \in Seq(I2cStepSet)
           /\ Len(WriteSequence(bytes)) = Len(bytes) - 1
           /\ \A k \in 1 .. Len(bytes) - 1 :
                  /\ WriteSequence(bytes)[k] =
                        Transfer(<<(bytes[1] + k - 1) % RegisterCount, bytes[k + 1]>>, 0, IF k = 1 THEN 2 ELSE 1)
                  /\ bytes[k + 1] \in Registers
                  /\ bytes[1] + k - 1 \in Nat
                  /\ (bytes[1] + k - 1) % RegisterCount \in Registers
<1>. DEFINE n == Len(bytes) - 1
<1>1. n \in Nat /\ bytes[1] \in Nat /\ \A k \in 1 .. n : bytes[k + 1] \in Registers
  BY DEF Registers
<1>2. ASSUME NEW k \in 1 .. n
      PROVE  /\ bytes[1] + k - 1 \in Nat
             /\ (bytes[1] + k - 1) % RegisterCount \in Registers
             /\ Transfer(<<(bytes[1] + k - 1) % RegisterCount, bytes[k + 1]>>, 0, IF k = 1 THEN 2 ELSE 1)
                    \in I2cStepSet
  <2>1. bytes[1] + k - 1 \in Nat
    BY <1>1
  <2>2. (bytes[1] + k - 1) % RegisterCount \in Registers
    BY <2>1, Wrapped
  <2>3. <<(bytes[1] + k - 1) % RegisterCount, bytes[k + 1]>> \in Seq(Registers)
    BY <1>1, <2>2
  <2>. QED BY <2>1, <2>2, <2>3, TransferType
<1>3. WriteSequence(bytes) =
          [k \in 1 .. n |-> Transfer(<<(bytes[1] + k - 1) % RegisterCount, bytes[k + 1]>>, 0, IF k = 1 THEN 2 ELSE 1)]
  BY DEF WriteSequence
<1>. HIDE DEF n
<1>4. WriteSequence(bytes) \in Seq(I2cStepSet) /\ Len(WriteSequence(bytes)) = n
  BY <1>1, <1>2, <1>3
<1>. QED BY <1>1, <1>2, <1>3, <1>4 DEF n

(* Byte by byte is what a transfer of all the bytes does.                    *)
LEMMA RanOfWriteSequence ==
    ASSUME RegisterCount \in Nat \ {0}, NEW bytes \in Seq(Registers), Len(bytes) >= 2,
           NEW x \in Results, NEW m, m.write = bytes, m.read = 0
    PROVE  Ran(x, WriteSequence(bytes)) = Did(x, m)
<1>. DEFINE n == Len(bytes) - 1
            b == bytes[1]
            steps == WriteSequence(bytes)
            rest == Tail(bytes)
<1>1. /\ n \in Nat /\ n >= 1 /\ b \in Nat /\ b \in Registers /\ bytes # <<>>
      /\ rest \in Seq(Registers) /\ Len(rest) = n
      /\ \A k \in 1 .. n : rest[k] = bytes[k + 1] /\ bytes[k + 1] \in Registers
  BY DEF Registers
<1>2. /\ steps \in Seq(I2cStepSet) /\ Len(steps) = n
      /\ \A k \in 1 .. n :
            steps[k] = Transfer(<<(b + k - 1) % RegisterCount, bytes[k + 1]>>, 0, IF k = 1 THEN 2 ELSE 1)
      /\ \A k \in 1 .. n : b + k - 1 \in Nat /\ (b + k - 1) % RegisterCount \in Registers
  BY WriteSequenceType, ZenonT(30)
<1>3. x.memory \in Memories /\ x.pointer \in Registers /\ x.read \in Seq(Registers)
      /\ x = [memory |-> x.memory, pointer |-> x.pointer, read |-> x.read]
  BY DEF Results
<1>4. IsMessage(m)
  BY <1>1 DEF IsMessage
<1>. HIDE DEF n, b, steps, rest
<1>5. PICK W : IsStored(W, x.memory, b, rest)
  BY <1>1, <1>3, StoredFacts
<1>. DEFINE F == [k \in 0 .. n |-> [memory |-> W[k],
                                   pointer |-> IF k = 0 THEN x.pointer ELSE (b + k) % RegisterCount,
                                   read |-> x.read]]
<1>6. F \in [0 .. n -> Results] /\ F[0] = x
  <2>1. ASSUME NEW k \in 0 .. n
        PROVE  /\ W[k] \in Memories
               /\ (IF k = 0 THEN x.pointer ELSE (b + k) % RegisterCount) \in Registers
    <3>1. b + k \in Nat
      BY <1>1
    <3>2. (b + k) % RegisterCount \in Registers
      BY <3>1, Wrapped
    <3>. QED BY <1>1, <1>3, <1>5, <3>2 DEF IsStored
  <2>2. W[0] = x.memory
    BY <1>5 DEF IsStored
  <2>. QED BY <1>1, <1>3, <2>1, <2>2 DEF Results
<1>7. ASSUME NEW k \in 1 .. n
      PROVE  F[k] = After(F[k - 1], steps[k])
  <2>. DEFINE y == F[k - 1]
              step == steps[k]
              at == b + k - 1
  <2>1. k - 1 \in 0 .. n /\ k \in 0 .. n /\ k # 0 /\ at + 1 = b + k
    BY <1>1
  <2>2. y \in Results /\ y.memory = W[k - 1] /\ y.read = x.read
    BY <1>6, <2>1
  <2>3. W[k] = StoreByte(W[k - 1], at, bytes[k + 1])
    BY <1>1, <1>5 DEF IsStored
  <2>4. F[k] = [memory |-> StoreByte(y.memory, at, bytes[k + 1]),
                pointer |-> (at + 1) % RegisterCount, read |-> y.read]
    BY <2>1, <2>2, <2>3
  <2>5. /\ at \in Nat /\ bytes[k + 1] \in Registers
        /\ Plays(step) /\ step.write = <<at % RegisterCount, bytes[k + 1]>> /\ step.read = 0
    <3>. DEFINE c == IF k = 1 THEN 2 ELSE 1
                w == <<(b + k - 1) % RegisterCount, bytes[k + 1]>>
    <3>1. w \in Seq(Registers) /\ c \in Nat /\ step = Transfer(w, 0, c)
      <4>1. (b + k - 1) % RegisterCount \in Registers /\ bytes[k + 1] \in Registers
        BY <1>1, <1>2
      <4>2. step = Transfer(w, 0, c)
        BY <1>2
      <4>3. w \in Seq(Registers)
        BY <4>1
      <4>. HIDE DEF step, w
      <4>. QED BY <4>2, <4>3
    <3>. HIDE DEF c, w
    <3>2. Plays(step) /\ step.write = w /\ step.read = 0
      BY <3>1, TransferType
    <3>. QED BY <1>1, <1>2, <3>2 DEF w
  <2>. HIDE DEF y, step, at
  <2>6. Did(y, step) = [memory |-> StoreByte(y.memory, at, bytes[k + 1]),
                        pointer |-> (at + 1) % RegisterCount, read |-> y.read]
    BY <2>2, <2>5, DidByte
  <2>7. F[k] = After(y, step)
    BY <2>4, <2>5, <2>6 DEF After
  <2>. QED BY <2>7 DEF y, step
<1>. HIDE DEF F
<1>8. Ran(x, steps) = F[n]
  <2>1. Passes(F, x, steps)
    BY <1>2, <1>6, <1>7 DEF Passes
  <2>. QED BY <1>2, <2>1, RanIs
<1>9. F[n] = [memory |-> Stored(x.memory, b, rest), pointer |-> (b + n) % RegisterCount, read |-> x.read]
  <2>1. n \in 0 .. n /\ n # 0
    BY <1>1
  <2>2. Stored(x.memory, b, rest) = W[n]
    BY <1>1, <1>5 DEF IsStored
  <2>. QED BY <2>1, <2>2 DEF F
<1>10. Did(x, m) = [memory |-> Stored(x.memory, b, rest), pointer |-> (b + n) % RegisterCount, read |-> x.read]
  <2>1. Start(x, m) = b /\ Remainder(m) = rest
    BY <1>1 DEF Start, Remainder, b, rest
  <2>2. Did(x, m).memory = Stored(x.memory, b, rest)
    BY <1>4, <2>1, DidFacts
  <2>. DEFINE p == (b + n) % RegisterCount
  <2>3. p \in Registers
    <3>1. b + n \in Nat
      BY <1>1
    <3>. QED BY <3>1, Wrapped
  <2>4. Did(x, m).pointer = p
    <3>1. Did(x, m).pointer = (((Start(x, m) + Len(Remainder(m))) % RegisterCount) + m.read) % RegisterCount
      BY <1>4, DidFacts
    <3>2. (Start(x, m) + Len(Remainder(m))) % RegisterCount = p
      BY <1>1, <2>1
    <3>. HIDE DEF p
    <3>3. p + 0 = p /\ p % RegisterCount = p
      BY <2>3, RegisterIsWrapped
    <3>. QED BY <3>1, <3>2, <3>3
  <2>5. Did(x, m).read = x.read
    <3>. DEFINE none == [k \in 1 .. m.read |->
                  Did(x, m).memory[(((Start(x, m) + Len(Remainder(m))) % RegisterCount) + k - 1) % RegisterCount]]
    <3>1. Did(x, m).read = x.read \o none
      BY <1>4, DidFacts
    <3>2. none = <<>>
      OBVIOUS
    <3>. HIDE DEF none
    <3>. QED BY <1>3, <3>1, <3>2, ConcatEmptySeq
  <2>6. Did(x, m) = [memory |-> Did(x, m).memory, pointer |-> Did(x, m).pointer, read |-> Did(x, m).read]
    BY <1>4, DidFacts DEF Results
  <2>. QED BY <2>2, <2>4, <2>5, <2>6 DEF p
<1>. QED BY <1>8, <1>9, <1>10 DEF steps

\* and a read in parts one of transfers and blocks.
LEMMA ReadSequenceType ==
    ASSUME RegisterCount \in Nat \ {0}, NEW register \in Registers, NEW count \in Nat
    PROVE  /\ ReadSequence(register, count) \in Seq(I2cStepSet)
           /\ Len(ReadSequence(register, count)) = count
           /\ \A k \in 1 .. count :
                  /\ ReadSequence(register, count)[k] =
                        Transfer(<<(register + k - 1) % RegisterCount>>, 1, IF k = 1 THEN 1 ELSE 0)
                  /\ register + k - 1 \in Nat
                  /\ <<(register + k - 1) % RegisterCount>> \in Seq(Registers)
<1>1. register \in Nat
  BY DEF Registers
<1>2. ASSUME NEW k \in 1 .. count
      PROVE  /\ register + k - 1 \in Nat
             /\ <<(register + k - 1) % RegisterCount>> \in Seq(Registers)
             /\ Transfer(<<(register + k - 1) % RegisterCount>>, 1, IF k = 1 THEN 1 ELSE 0) \in I2cStepSet
  <2>1. register + k - 1 \in Nat
    BY <1>1
  <2>. DEFINE p == (register + k - 1) % RegisterCount
  <2>2. p \in Registers
    BY <2>1, Wrapped
  <2>. HIDE DEF p
  <2>3. <<p>> \in Seq(Registers)
    BY <2>2
  <2>. QED BY <2>1, <2>3, TransferType DEF p
<1>3. ReadSequence(register, count) \in Seq(I2cStepSet) /\ Len(ReadSequence(register, count)) = count
  BY <1>2 DEF ReadSequence
<1>4. \A k \in 1 .. count :
          ReadSequence(register, count)[k] =
              Transfer(<<(register + k - 1) % RegisterCount>>, 1, IF k = 1 THEN 1 ELSE 0)
  BY DEF ReadSequence
<1>. QED BY <1>2, <1>3, <1>4

(* Register by register is what a transfer that reads them all does.         *)
LEMMA RanOfReadSequence ==
    ASSUME RegisterCount \in Nat \ {0}, NEW register \in Registers, NEW count \in Nat \ {0},
           NEW x \in Results, NEW m, m.write = <<register>>, m.read = count
    PROVE  Ran(x, ReadSequence(register, count)) = Did(x, m)
<1>. DEFINE steps == ReadSequence(register, count)
            b == register
            byte(k) == x.memory[(b + k - 1) % RegisterCount]
            Bytes(k) == [j \in 1 .. k |-> byte(j)]
            F == [k \in 0 .. count |->
                     [memory |-> x.memory,
                      pointer |-> IF k = 0 THEN x.pointer ELSE (b + k) % RegisterCount,
                      read |-> x.read \o Bytes(k)]]
<1>1. b \in Nat /\ b \in Registers /\ b % RegisterCount = b
  BY RegisterIsWrapped
<1>2. /\ steps \in Seq(I2cStepSet) /\ Len(steps) = count
      /\ \A k \in 1 .. count :
            /\ steps[k] = Transfer(<<(b + k - 1) % RegisterCount>>, 1, IF k = 1 THEN 1 ELSE 0)
            /\ b + k - 1 \in Nat
            /\ <<(b + k - 1) % RegisterCount>> \in Seq(Registers)
  BY ReadSequenceType
<1>. HIDE DEF b, steps
<1>3. x.memory \in Memories /\ x.pointer \in Registers /\ x.read \in Seq(Registers)
      /\ x = [memory |-> x.memory, pointer |-> x.pointer, read |-> x.read]
  BY DEF Results
<1>4. ASSUME NEW k \in Nat, k # 0
      PROVE  byte(k) \in Registers
  <2>1. b + k - 1 \in Nat
    BY <1>1, <1>4
  <2>2. (b + k - 1) % RegisterCount \in Registers
    BY <2>1, Wrapped
  <2>. QED BY <1>3, <2>2 DEF Memories
<1>. HIDE DEF byte
<1>5. \A k \in Nat : Bytes(k) \in Seq(Registers)
  BY <1>4
<1>6. F \in [0 .. count -> Results] /\ F[0] = x
  <2>1. ASSUME NEW k \in 0 .. count
        PROVE  /\ x.read \o Bytes(k) \in Seq(Registers)
               /\ (IF k = 0 THEN x.pointer ELSE (b + k) % RegisterCount) \in Registers
    <3>1. b + k \in Nat
      BY <1>1
    <3>2. (b + k) % RegisterCount \in Registers
      BY <3>1, Wrapped
    <3>3. Bytes(k) \in Seq(Registers)
      BY <1>5
    <3>. HIDE DEF Bytes
    <3>. QED BY <1>3, <3>2, <3>3
  <2>2. x.read \o Bytes(0) = x.read
    <3>1. Bytes(0) = <<>>
      OBVIOUS
    <3>. HIDE DEF Bytes
    <3>. QED BY <1>3, <3>1, ConcatEmptySeq
  <2>. HIDE DEF Bytes
  <2>. QED BY <1>3, <2>1, <2>2 DEF Results
<1>7. ASSUME NEW k \in 1 .. count
      PROVE  F[k] = After(F[k - 1], steps[k])
  <2>. DEFINE y == F[k - 1]
              step == steps[k]
              at == b + k - 1
              one == [j \in 1 .. 1 |-> y.memory[(at + j - 1) % RegisterCount]]
  <2>1. k - 1 \in 0 .. count /\ k \in 0 .. count /\ k # 0 /\ at + 1 = b + k
    BY <1>1
  <2>2. y \in Results /\ y.memory = x.memory /\ y.read = x.read \o Bytes(k - 1)
    BY <1>6, <2>1
  <2>3. one = <<byte(k)>>
    <3>1. at + 1 - 1 = b + k - 1
      BY <1>1
    <3>2. y.memory = x.memory
      BY <2>2
    <3>. HIDE DEF y, at
    <3>3. one = <<y.memory[(at + 1 - 1) % RegisterCount]>>
      OBVIOUS
    <3>4. (at + 1 - 1) % RegisterCount = (b + k - 1) % RegisterCount
      BY <3>1 DEF at
    <3>. QED BY <3>2, <3>3, <3>4 DEF byte
  <2>4. y.read \o one = x.read \o Bytes(k)
    <3>1. Bytes(k) = Bytes(k - 1) \o <<byte(k)>>
      <4>. DEFINE p == Bytes(k - 1)
                  q == <<byte(k)>>
                  r == Bytes(k)
      <4>1. p \in Seq(Registers) /\ Len(p) = k - 1 /\ \A j \in 1 .. k - 1 : p[j] = byte(j)
        BY <1>5
      <4>2. byte(k) \in Registers
        BY <1>4
      <4>3. r \in Seq(Registers) /\ Len(r) = k /\ \A j \in 1 .. k : r[j] = byte(j)
        BY <1>5
      <4>. HIDE DEF p, r, F, Bytes
      <4>4. Len(r) = Len(p) + 1 /\ (\A j \in 1 .. Len(p) : r[j] = p[j]) /\ r[Len(p) + 1] = byte(k)
        <5>1. Len(p) = k - 1 /\ Len(p) + 1 = k
          BY <4>1
        <5>. QED BY <4>1, <4>3, <5>1
      <4>7. p \o q = r
        BY <4>1, <4>2, <4>3, <4>4, OneMore
      <4>. QED BY <4>7 DEF p, r
    <3>2. Bytes(k - 1) \in Seq(Registers) /\ <<byte(k)>> \in Seq(Registers)
      BY <1>4, <1>5, <2>1
    <3>. HIDE DEF Bytes
    <3>. DEFINE p == Bytes(k - 1)
                q == <<byte(k)>>
    <3>. HIDE DEF p, q
    <3>3. (x.read \o p) \o q = x.read \o (p \o q)
      BY <1>3, <3>2, ConcatAssociative DEF p, q
    <3>. QED BY <2>2, <2>3, <3>1, <3>3 DEF p, q
  <2>5. F[k] = [memory |-> y.memory, pointer |-> (at + 1) % RegisterCount, read |-> y.read \o one]
    <3>1. F[k] = [memory |-> x.memory, pointer |-> (b + k) % RegisterCount, read |-> x.read \o Bytes(k)]
      BY <2>1
    <3>. QED BY <2>1, <2>2, <2>4, <3>1
  <2>6. at \in Nat /\ Plays(step) /\ step.write = <<at % RegisterCount>> /\ step.read = 1
    <3>. DEFINE c == IF k = 1 THEN 1 ELSE 0
                w == <<(b + k - 1) % RegisterCount>>
    <3>1. w \in Seq(Registers) /\ c \in Nat /\ step = Transfer(w, 1, c)
      BY <1>2
    <3>. HIDE DEF c, w
    <3>2. Plays(step) /\ step.write = w /\ step.read = 1
      BY <3>1, TransferType
    <3>. QED BY <1>2, <3>2 DEF w
  <2>7. Did(y, step) = [memory |-> y.memory, pointer |-> (at + 1) % RegisterCount, read |-> y.read \o one]
    <3>. HIDE DEF y, step, at
    <3>. HIDE DEF one, F, Bytes
    <3>1. one = BytesAt(y.memory, at, 1)
      BY DEF one, BytesAt
    <3>2. y \in Results /\ at \in Nat /\ ReadsFrom(step, at) /\ step.read = 1 /\ step.read \in Nat
      BY <2>2, <2>6 DEF ReadsFrom
    <3>3. Did(y, step) = [memory |-> y.memory, pointer |-> (at + step.read) % RegisterCount,
                          read |-> y.read \o BytesAt(y.memory, at, step.read)]
      BY <3>2, DidReads
    <3>. QED BY <3>1, <3>2, <3>3
  <2>. HIDE DEF y, step, at, one
  <2>8. F[k] = After(y, step)
    BY <2>5, <2>6, <2>7 DEF After
  <2>. QED BY <2>8 DEF y, step
<1>8. Ran(x, steps) = F[count]
  <2>. HIDE DEF F
  <2>1. Passes(F, x, steps)
    BY <1>2, <1>6, <1>7 DEF Passes
  <2>. QED BY <1>2, <2>1, RanIs
<1>9. F[count] = [memory |-> x.memory, pointer |-> (b + count) % RegisterCount, read |-> x.read \o Bytes(count)]
  OBVIOUS
<1>10. Did(x, m) = [memory |-> x.memory, pointer |-> (b + count) % RegisterCount,
                   read |-> x.read \o [k \in 1 .. count |-> x.memory[(b + k - 1) % RegisterCount]]]
  <2>1. m.write = <<b % RegisterCount>> /\ m.read = count /\ count \in Nat
    BY <1>1 DEF b
  <2>. HIDE DEF F, Bytes
  <2>. QED BY <1>1, <2>1, DidRead
<1>. QED BY <1>8, <1>9, <1>10 DEF steps, byte

-----------------------------------------------------------------------------
(* What the kernel transports make of a message *)

\* The steps, if none of them is refused, do to a device what m does.
Exact(steps, m) ==
    /\ steps \in Seq(I2cStepSet)
    /\ NoRefusal(steps) => \A x \in Results : Ran(x, steps) = Did(x, m)

\* What a kernel transport makes of a request is what the messages are: nothing
\* if it refuses it,
LEMMA RefusalIsExact ==
    ASSUME NEW m
    PROVE  Exact(<<Refusal>>, m)
<1>1. <<Refusal>> \in Seq(I2cStepSet)
  BY DEF I2cStepSet
<1>2. ~ NoRefusal(<<Refusal>>)
  BY DEF NoRefusal, Refusal
<1>. QED BY <1>1, <1>2 DEF Exact

LEMMA OneIsExact ==
    ASSUME RegisterCount \in Nat \ {0}, NEW step \in I2cStepSet, Plays(step),
           NEW m, m.write = step.write, m.read = step.read
    PROVE  Exact(<<step>>, m)
<1>1. <<step>> \in Seq(I2cStepSet)
  OBVIOUS
<1>2. ASSUME NEW x \in Results
      PROVE  Ran(x, <<step>>) = Did(x, m)
  <2>1. Ran(x, <<step>>) = Did(x, step)
    BY RanOfOne DEF After
  <2>. QED BY <2>1, DidSame
<1>. QED BY <1>1, <1>2 DEF Exact

\* a read,
LEMMA ReadIsExact ==
    ASSUME RegisterCount \in Nat \ {0}, NEW adapter, NEW m, IsMessage(m), m.write = <<>>
    PROVE  Exact(KernelRead(adapter, m.read), m)
<1>1. CASE adapter = "i2c"
  <2>. DEFINE empty == <<>>
              step == Transfer(empty, m.read, 0)
  <2>1. empty \in Seq(Registers) /\ m.read \in Nat /\ m.write = empty
    BY DEF IsMessage
  <2>. HIDE DEF empty
  <2>2. step \in I2cStepSet /\ Plays(step) /\ step.write = empty /\ step.read = m.read
    BY <2>1, TransferType
  <2>. HIDE DEF step
  <2>3. Exact(<<step>>, m)
    BY <2>1, <2>2, OneIsExact
  <2>. QED BY <1>1, <2>3 DEF KernelRead, step, empty
<1>2. CASE adapter # "i2c"
  BY <1>2, RefusalIsExact DEF KernelRead
<1>. QED BY <1>1, <1>2

\* a write,
LEMMA WriteIsExact ==
    ASSUME RegisterCount \in Nat \ {0}, NEW adapter, NEW m, IsMessage(m), m.read = 0
    PROVE  Exact(KernelWrite(adapter, m.write), m)
<1>. DEFINE bytes == m.write
            step == Transfer(bytes, 0, Len(bytes))
<1>1. bytes \in Seq(Registers) /\ Len(bytes) \in Nat
  BY DEF IsMessage
<1>2. step \in I2cStepSet /\ Plays(step) /\ step.write = bytes /\ step.read = 0
  BY <1>1, TransferType
<1>. HIDE DEF step
<1>3. Exact(<<step>>, m)
  BY <1>2, OneIsExact
<1>4. CASE bytes = <<>>
  BY <1>4, RefusalIsExact DEF KernelWrite
<1>5. CASE bytes # <<>> /\ adapter = "i2c"
  BY <1>3, <1>5 DEF KernelWrite, step
<1>6. CASE bytes # <<>> /\ adapter # "i2c"
  <2>1. KernelWrite(adapter, bytes) = WriteFallback(adapter, bytes)
    BY <1>6 DEF KernelWrite
  <2>2. CASE WriteFallback(adapter, bytes) = <<step>>
    BY <1>3, <2>1, <2>2
  <2>3. CASE WriteFallback(adapter, bytes) # <<step>>
    <3>1. WriteFallback(adapter, bytes) = WriteSequence(bytes) /\ Len(bytes) >= 2
      BY <1>1, <2>3 DEF WriteFallback, step
    <3>2. WriteSequence(bytes) \in Seq(I2cStepSet)
      BY <1>1, <3>1, WriteSequenceType
    <3>3. \A x \in Results : Ran(x, WriteSequence(bytes)) = Did(x, m)
      BY <1>1, <3>1, RanOfWriteSequence
    <3>. QED BY <2>1, <3>1, <3>2, <3>3 DEF Exact
  <2>. QED BY <2>2, <2>3
<1>7. (bytes # <<>> /\ adapter = "i2c") \/ (bytes # <<>> /\ adapter # "i2c") \/ bytes = <<>>
  OBVIOUS
<1>. QED BY <1>4, <1>5, <1>6, <1>7

\* a write and a read.
LEMMA WriteReadIsExact ==
    ASSUME RegisterCount \in Nat \ {0}, NEW adapter, NEW m, IsMessage(m), m.read # 0
    PROVE  Exact(KernelWriteRead(adapter, m.write, m.read), m)
<1>. DEFINE bytes == m.write
            count == m.read
            step == Transfer(bytes, count, Len(bytes))
<1>1. bytes \in Seq(Registers) /\ Len(bytes) \in Nat /\ count \in Nat \ {0}
  BY DEF IsMessage
<1>2. step \in I2cStepSet /\ Plays(step) /\ step.write = bytes /\ step.read = count
  BY <1>1, TransferType
<1>. HIDE DEF step
<1>3. Exact(<<step>>, m)
  BY <1>2, OneIsExact
<1>4. CASE bytes = <<>>
  BY <1>4, RefusalIsExact DEF KernelWriteRead
<1>5. CASE bytes # <<>> /\ adapter = "i2c"
  BY <1>3, <1>5 DEF KernelWriteRead, step
<1>6. CASE bytes # <<>> /\ adapter # "i2c"
  <2>1. KernelWriteRead(adapter, bytes, count) = ReadFallback(adapter, bytes, count)
    BY <1>6 DEF KernelWriteRead
  <2>2. CASE Len(bytes) # 1
    BY <2>1, <2>2, RefusalIsExact DEF ReadFallback
  <2>3. CASE Len(bytes) = 1
    <3>1. bytes[1] \in Registers /\ bytes = <<bytes[1]>>
      BY <1>1, <2>3
    <3>. DEFINE block == Block(bytes[1], count)
    <3>2. block \in I2cStepSet /\ Plays(block) /\ block.write = bytes /\ block.read = count
      BY <1>1, <3>1 DEF Block, Blocks, I2cStepSet, Plays
    <3>. HIDE DEF block
    <3>3. CASE ReadFallback(adapter, bytes, count) = <<block>>
      BY <2>1, <3>2, <3>3, OneIsExact
    <3>4. CASE ReadFallback(adapter, bytes, count) # <<block>>
      <4>1. ReadFallback(adapter, bytes, count) = ReadSequence(bytes[1], count)
        BY <2>3, <3>4 DEF ReadFallback, block
      <4>2. ReadSequence(bytes[1], count) \in Seq(I2cStepSet)
        BY <1>1, <3>1, ReadSequenceType
      <4>3. \A x \in Results : Ran(x, ReadSequence(bytes[1], count)) = Did(x, m)
        BY <1>1, <3>1, RanOfReadSequence
      <4>. QED BY <2>1, <4>1, <4>2, <4>3 DEF Exact
    <3>. QED BY <3>3, <3>4
  <2>. QED BY <2>2, <2>3
<1>7. (bytes # <<>> /\ adapter = "i2c") \/ (bytes # <<>> /\ adapter # "i2c") \/ bytes = <<>>
  OBVIOUS
<1>. QED BY <1>4, <1>5, <1>6, <1>7

-----------------------------------------------------------------------------
(* Transactions *)

\* The messages of i2c requests.
I2cMessages == Seq([write : Seq(Registers), read : Nat])

(* What plain transfers make of a device is what the messages do, one after  *)
(* the other.                                                                *)
IsPlain(G, x, messages) ==
    /\ G \in [0 .. Len(messages) -> Results]
    /\ G[0] = x
    /\ \A k \in 1 .. Len(messages) : G[k] = Did(G[k - 1], messages[k])
    /\ PlainResult(x.memory, x.pointer, messages) = G[Len(messages)]

\* PlainResult is defined by recursion over the messages.
LEMMA PlainFacts ==
    ASSUME RegisterCount \in Nat \ {0}, NEW x \in Results, x.read = <<>>,
           NEW messages \in I2cMessages
    PROVE  \E G : IsPlain(G, x, messages)
<1>. DEFINE n == Len(messages)
            g == [k \in 1 .. n |-> [y \in Results |-> Did(y, messages[k])]]
            Body(W) == [k \in 0 .. n |->
                            IF k = 0 THEN [memory |-> x.memory, pointer |-> x.pointer, read |-> <<>>]
                            ELSE LET before == W[k - 1]
                                     done == MessageDone(before.memory, before.pointer, messages[k])
                                 IN  [done EXCEPT !.read = before.read \o @]]
<1>1. n \in Nat /\ \A k \in 1 .. n : IsMessage(messages[k])
  <2>1. n \in Nat /\ \A k \in 1 .. n : messages[k] \in [write : Seq(Registers), read : Nat]
    <3>. DEFINE R == [write : Seq(Registers), read : Nat]
    <3>1. messages \in Seq(R)
      BY DEF I2cMessages
    <3>. HIDE DEF R
    <3>2. n \in Nat /\ \A k \in 1 .. n : messages[k] \in R
      BY <3>1
    <3>. QED BY <3>2 DEF R
  <2>2. \A k \in 1 .. n : messages[k].write \in Seq(Registers) /\ messages[k].read \in Nat
    BY <2>1
  <2>. QED BY <2>1, <2>2 DEF IsMessage
<1>2. x = [memory |-> x.memory, pointer |-> x.pointer, read |-> <<>>]
  BY DEF Results
<1>3. /\ g \in [1 .. n -> [Results -> Results]]
      /\ \A k \in 1 .. n, y \in Results : g[k][y] = Did(y, messages[k])
  BY <1>1, DidFacts
<1>4. ASSUME NEW y, NEW m
      PROVE  Did(y, m) = LET done == MessageDone(y.memory, y.pointer, m)
                         IN  [done EXCEPT !.read = y.read \o @]
  <2>. DEFINE done == MessageDone(y.memory, y.pointer, m)
  <2>1. PICK w, p, r : done = [memory |-> w, pointer |-> p, read |-> r]
    BY DEF MessageDone
  <2>2. Did(y, m) = [memory |-> done.memory, pointer |-> done.pointer, read |-> y.read \o done.read]
    BY DEF Did
  <2>. HIDE DEF done
  <2>3. [done EXCEPT !.read = y.read \o @] = [memory |-> w, pointer |-> p, read |-> y.read \o r]
    <3>. DEFINE q == y.read \o done.read
    <3>1. q = y.read \o r
      BY <2>1
    <3>. HIDE DEF q
    <3>2. [done EXCEPT !.read = q] = [memory |-> w, pointer |-> p, read |-> q]
      BY <2>1
    <3>. QED BY <3>1, <3>2 DEF q
  <2>4. Did(y, m) = [memory |-> w, pointer |-> p, read |-> y.read \o r]
    BY <2>1, <2>2
  <2>. QED BY <2>3, <2>4 DEF done
<1>5. ASSUME NEW W
      PROVE  Body(W) = [k \in 0 .. n |-> IF k = 0 THEN x ELSE Did(W[k - 1], messages[k])]
  BY <1>2, <1>4
<1>. HIDE DEF g, n
<1>6. PICK F \in [0 .. n -> Results] : F[0] = x /\ \A k \in 1 .. n : F[k] = g[k][F[k - 1]]
  <2>1. \E F : Iterates(F, Results, x, n, g)
    BY <1>1, <1>3, Recursion
  <2>. QED BY <2>1 DEF Iterates
<1>7. ASSUME NEW k \in 1 .. n
      PROVE  F[k] = Did(F[k - 1], messages[k])
  <2>1. k - 1 \in 0 .. n
    BY <1>1
  <2>2. F[k - 1] \in Results
    BY <2>1
  <2>. QED BY <1>3, <1>6, <2>2
<1>8. F = Body(F)
  <2>1. F = [k \in 0 .. n |-> IF k = 0 THEN x ELSE Did(F[k - 1], messages[k])]
    BY <1>1, <1>6, <1>7
  <2>. QED BY <1>5, <2>1
<1>. DEFINE W == CHOOSE W : W = Body(W)
<1>9. W = Body(W)
  BY <1>8
<1>10. PlainResult(x.memory, x.pointer, messages) = W[n]
  BY DEF PlainResult, n
<1>. HIDE DEF W
<1>11. W = [k \in 0 .. n |-> IF k = 0 THEN x ELSE Did(W[k - 1], messages[k])]
  BY <1>5, <1>9
<1>. HIDE DEF Body
<1>. DEFINE T == {k \in Nat : k <= n => W[k] \in Results}
<1>12. 0 \in T
  BY <1>1, <1>11
<1>13. ASSUME NEW k \in T
       PROVE  k + 1 \in T
  <2>. SUFFICES ASSUME k + 1 <= n
                PROVE  W[k + 1] \in Results
    OBVIOUS
  <2>1. W[k + 1] = Did(W[k], messages[k + 1]) /\ W[k] \in Results
    BY <1>1, <1>11
  <2>2. IsMessage(messages[k + 1])
    BY <1>1
  <2>. QED BY <2>1, <2>2, DidFacts
<1>. HIDE DEF T
<1>14. T = Nat
  <2>1. T \in SUBSET Nat
    BY DEF T
  <2>. QED BY <1>12, <1>13, <2>1, Induction
<1>15. \A k \in 0 .. n : W[k] \in Results
  BY <1>1, <1>14 DEF T
<1>16. W \in [0 .. n -> Results] /\ W[0] = x /\ \A k \in 1 .. n : W[k] = Did(W[k - 1], messages[k])
  <2>1. DOMAIN W = 0 .. n /\ W = [k \in 0 .. n |-> W[k]]
    BY <1>11
  <2>2. W[0] = x
    BY <1>1, <1>11
  <2>3. \A k \in 1 .. n : W[k] = Did(W[k - 1], messages[k])
    BY <1>1, <1>11
  <2>. QED BY <1>15, <2>1, <2>2, <2>3
<1>17. IsPlain(W, x, messages)
  BY <1>10, <1>16 DEF IsPlain, n
<1>. QED BY <1>17

(* The steps of a transaction are those of its messages.                     *)
IsFlat(W, S, pieces) ==
    /\ W \in [0 .. Len(pieces) -> Seq(S)]
    /\ W[0] = <<>>
    /\ \A k \in 1 .. Len(pieces) : W[k] = W[k - 1] \o pieces[k]
    /\ FlattenSeq(pieces) = W[Len(pieces)]

\* FlattenSeq is defined by a fold over the pieces.
LEMMA FlatFacts ==
    ASSUME NEW S, NEW pieces \in Seq(Seq(S))
    PROVE  \E W : IsFlat(W, S, pieces)
<1>. DEFINE n == Len(pieces)
            with(y, k) == y \o pieces[k]
            g == [k \in 1 .. n |-> [y \in Seq(S) |-> with(y, k)]]
            Body(W) == [i \in 1 .. n |-> IF i = 1 THEN pieces[i] ELSE with(W[i - 1], i)]
            none == <<>>
<1>1. n \in Nat /\ \A k \in 1 .. n : pieces[k] \in Seq(S)
  OBVIOUS
<1>2. /\ g \in [1 .. n -> [Seq(S) -> Seq(S)]]
      /\ \A k \in 1 .. n, y \in Seq(S) : g[k][y] = with(y, k)
  BY <1>1
<1>. HIDE DEF g
<1>3. none \in Seq(S) /\ \A k \in 1 .. n : with(none, k) = pieces[k]
  BY <1>1
<1>. HIDE DEF none, with, n
<1>4. PICK F \in [0 .. n -> Seq(S)] : F[0] = none /\ \A k \in 1 .. n : F[k] = g[k][F[k - 1]]
  <2>. DEFINE R == Seq(S)
  <2>1. none \in R /\ g \in [1 .. n -> [R -> R]]
    BY <1>2, <1>3
  <2>. HIDE DEF R
  <2>2. \E F : Iterates(F, R, none, n, g)
    BY <1>1, <2>1, Recursion
  <2>. QED BY <2>2 DEF Iterates, R
<1>5. ASSUME NEW k \in 1 .. n
      PROVE  F[k] = with(F[k - 1], k)
  <2>1. k - 1 \in 0 .. n
    BY <1>1
  <2>2. F[k - 1] \in Seq(S)
    BY <2>1
  <2>. QED BY <1>2, <1>4, <2>2
<1>6. CASE n = 0
  <2>1. pieces = <<>>
    BY <1>6 DEF n
  <2>2. FlattenSeq(pieces) = F[0]
    BY <1>4, <1>6, <2>1 DEF FlattenSeq, none, n
  <2>3. IsFlat(F, S, pieces)
    BY <1>4, <1>5, <1>6, <2>2 DEF IsFlat, none, with, n
  <2>. QED BY <2>3
<1>7. CASE n # 0
  <2>. DEFINE E == [i \in 1 .. n |-> F[i]]
              W == CHOOSE W : W = Body(W)
  <2>1. E = Body(E)
    <3>1. ASSUME NEW i \in 1 .. n
          PROVE  F[i] = IF i = 1 THEN pieces[i] ELSE with(E[i - 1], i)
      <4>1. CASE i = 1
        <5>1. F[i] = with(F[i - 1], i) /\ i - 1 = 0
          BY <1>5, <4>1
        <5>. QED BY <1>3, <1>4, <4>1, <5>1
      <4>2. CASE i # 1
        BY <1>1, <1>5, <4>2
      <4>. QED BY <4>1, <4>2
    <3>. QED BY <3>1
  <2>2. W = Body(W)
    BY <2>1
  <2>3. FlattenSeq(pieces) = W[n]
    BY <1>7 DEF FlattenSeq, n, with
  <2>. HIDE DEF W, E
  <2>. DEFINE T == {k \in Nat : k \in 1 .. n => W[k] = F[k]}
  <2>4. 0 \in T
    OBVIOUS
  <2>5. ASSUME NEW k \in T
        PROVE  k + 1 \in T
    <3>. SUFFICES ASSUME k + 1 \in 1 .. n
                  PROVE  W[k + 1] = F[k + 1]
      OBVIOUS
    <3>1. CASE k = 0
      <4>1. k + 1 = 1 /\ 1 \in 1 .. n /\ 1 - 1 = 0
        BY <3>1
      <4>2. W[1] = pieces[1]
        BY <2>2, <4>1
      <4>3. F[1] = with(F[1 - 1], 1)
        BY <1>5, <4>1
      <4>. QED BY <1>3, <1>4, <4>1, <4>2, <4>3
    <3>2. CASE k # 0
      <4>. DEFINE j == k + 1
      <4>1. k \in Nat /\ j \in 1 .. n /\ j # 1 /\ j - 1 = k
        BY <3>2
      <4>2. W[k] = F[k]
        BY <1>1, <3>2
      <4>. HIDE DEF j, T
      <4>3. W[j] = with(W[j - 1], j)
        BY <2>2, <4>1
      <4>4. F[j] = with(F[j - 1], j)
        BY <1>5, <4>1
      <4>5. W[j] = F[j]
        BY <4>1, <4>2, <4>3, <4>4
      <4>. QED BY <4>5 DEF j
    <3>. QED BY <3>1, <3>2
  <2>. HIDE DEF T
  <2>6. T = Nat
    <3>1. T \in SUBSET Nat
      BY DEF T
    <3>. QED BY <2>4, <2>5, <3>1, Induction
  <2>7. W[n] = F[n]
    <3>1. n \in T /\ n \in 1 .. n
      BY <1>1, <1>7, <2>6
    <3>. QED BY <3>1 DEF T
  <2>8. IsFlat(F, S, pieces)
    BY <1>4, <1>5, <2>3, <2>7 DEF IsFlat, none, with, n
  <2>. QED BY <2>8
<1>. QED BY <1>6, <1>7

LEMMA NoRefusalOfBoth ==
    ASSUME NEW a \in Seq(I2cStepSet), NEW b \in Seq(I2cStepSet), NoRefusal(a \o b)
    PROVE  NoRefusal(a) /\ NoRefusal(b)
<1>1. /\ Len(a \o b) = Len(a) + Len(b) /\ Len(a) \in Nat /\ Len(b) \in Nat
      /\ \A k \in 1 .. Len(a) + Len(b) : (a \o b)[k] = IF k <= Len(a) THEN a[k] ELSE b[k - Len(a)]
  OBVIOUS
<1>. DEFINE ab == a \o b
<1>2. /\ Len(ab) = Len(a) + Len(b) /\ Len(a) \in Nat /\ Len(b) \in Nat /\ NoRefusal(ab)
      /\ \A k \in 1 .. Len(a) + Len(b) : ab[k] = IF k <= Len(a) THEN a[k] ELSE b[k - Len(a)]
  BY <1>1
<1>. HIDE DEF ab
<1>3. ASSUME NEW k \in 1 .. Len(a)
      PROVE  a[k].kind # "refusal"
  <2>1. k \in 1 .. Len(ab) /\ ab[k] = a[k]
    BY <1>2
  <2>. QED BY <1>2, <2>1 DEF NoRefusal
<1>4. ASSUME NEW k \in 1 .. Len(b)
      PROVE  b[k].kind # "refusal"
  <2>1. k + Len(a) \in 1 .. Len(ab) /\ ~ (k + Len(a) <= Len(a)) /\ k + Len(a) - Len(a) = k
    BY <1>2
  <2>2. ab[k + Len(a)] = b[k]
    BY <1>2, <2>1
  <2>. QED BY <1>2, <2>1, <2>2 DEF NoRefusal
<1>. QED BY <1>3, <1>4 DEF NoRefusal

\* A transaction that is not refused does what its messages do.
LEMMA TransactionIsExact ==
    ASSUME RegisterCount \in Nat \ {0}, NEW adapter, NEW messages \in I2cMessages,
           \A k \in DOMAIN messages : messages[k].read > 0 => messages[k].write = <<>>,
           NEW x \in Results, x.read = <<>>
    PROVE  LET steps == KernelTransaction(adapter, messages)
           IN  /\ steps \in Seq(I2cStepSet)
               /\ NoRefusal(steps) => Ran(x, steps) = PlainResult(x.memory, x.pointer, messages)
<1>. DEFINE pieces == [k \in DOMAIN messages |->
                          IF messages[k].read > 0 THEN KernelRead(adapter, messages[k].read)
                                                  ELSE KernelWrite(adapter, messages[k].write)]
            n == Len(messages)
<1>1. n \in Nat /\ DOMAIN messages = 1 .. n /\ \A k \in 1 .. n : IsMessage(messages[k])
  <2>. DEFINE R == [write : Seq(Registers), read : Nat]
  <2>1. messages \in Seq(R)
    BY DEF I2cMessages
  <2>. HIDE DEF R
  <2>2. n \in Nat /\ DOMAIN messages = 1 .. n /\ \A k \in 1 .. n : messages[k] \in R
    BY <2>1
  <2>3. \A k \in 1 .. n : messages[k].write \in Seq(Registers) /\ messages[k].read \in Nat
    BY <2>2 DEF R
  <2>. QED BY <2>2, <2>3 DEF IsMessage
<1>2. ASSUME NEW k \in 1 .. n
      PROVE  Exact(pieces[k], messages[k])
  <2>1. IsMessage(messages[k])
    BY <1>1
  <2>2. CASE messages[k].read > 0
    BY <1>1, <2>1, <2>2, ReadIsExact
  <2>3. CASE ~ (messages[k].read > 0)
    <3>1. messages[k].read = 0
      BY <2>1, <2>3 DEF IsMessage
    <3>. QED BY <1>1, <2>1, <2>3, <3>1, WriteIsExact
  <2>. QED BY <2>2, <2>3
<1>3. KernelTransaction(adapter, messages) = FlattenSeq(pieces)
  BY DEF KernelTransaction
<1>4. pieces \in Seq(Seq(I2cStepSet)) /\ Len(pieces) = n
  <2>1. \A k \in 1 .. n : pieces[k] \in Seq(I2cStepSet)
    BY <1>2 DEF Exact
  <2>2. pieces = [k \in 1 .. n |-> pieces[k]]
    BY <1>1
  <2>. HIDE DEF pieces, n
  <2>3. \A p : p = [k \in 1 .. n |-> p[k]] /\ (\A k \in 1 .. n : p[k] \in Seq(I2cStepSet))
                    => p \in Seq(Seq(I2cStepSet)) /\ Len(p) = n
    BY <1>1
  <2>. QED BY <2>1, <2>2, <2>3
<1>. HIDE DEF pieces
<1>5. PICK W : IsFlat(W, I2cStepSet, pieces)
  BY <1>4, FlatFacts
<1>6. PICK G : IsPlain(G, x, messages)
  BY PlainFacts
<1>. HIDE DEF n
<1>7. /\ W \in [0 .. n -> Seq(I2cStepSet)] /\ W[0] = <<>>
      /\ \A k \in 1 .. n : W[k] = W[k - 1] \o pieces[k]
      /\ KernelTransaction(adapter, messages) = W[n]
  BY <1>3, <1>4, <1>5 DEF IsFlat
<1>8. /\ G \in [0 .. n -> Results] /\ G[0] = x
      /\ \A k \in 1 .. n : G[k] = Did(G[k - 1], messages[k])
      /\ PlainResult(x.memory, x.pointer, messages) = G[n]
  BY <1>6 DEF IsPlain, n
<1>. DEFINE T == {k \in Nat : k <= n /\ NoRefusal(W[k]) => Ran(x, W[k]) = G[k]}
<1>9. 0 \in T
  BY <1>7, <1>8, RanOfNone
<1>10. ASSUME NEW k \in T
       PROVE  k + 1 \in T
  <2>. SUFFICES ASSUME k + 1 <= n, NoRefusal(W[k + 1])
                PROVE  Ran(x, W[k + 1]) = G[k + 1]
    OBVIOUS
  <2>. DEFINE j == k + 1
  <2>1. k \in Nat /\ k \in 0 .. n /\ j \in 1 .. n /\ j - 1 = k /\ NoRefusal(W[j])
    BY <1>1
  <2>2. k <= n /\ NoRefusal(W[k]) => Ran(x, W[k]) = G[k]
    OBVIOUS
  <2>. HIDE DEF j, T
  <2>3. W[j] = W[k] \o pieces[j] /\ W[k] \in Seq(I2cStepSet) /\ pieces[j] \in Seq(I2cStepSet)
    BY <1>2, <1>7, <2>1 DEF Exact
  <2>. DEFINE a == W[k]
              b == pieces[j]
  <2>. HIDE DEF a, b
  <2>4. NoRefusal(a) /\ NoRefusal(b)
    <3>1. a \in Seq(I2cStepSet) /\ b \in Seq(I2cStepSet) /\ NoRefusal(a \o b)
      BY <2>1, <2>3 DEF a, b
    <3>. QED BY <3>1, NoRefusalOfBoth
  <2>5. Ran(x, a) = G[k] /\ G[k] \in Results
    BY <1>8, <2>1, <2>2, <2>4 DEF a
  <2>6. Ran(x, a \o b) = Ran(G[k], b)
    <3>1. a \in Seq(I2cStepSet) /\ b \in Seq(I2cStepSet)
      BY <2>3 DEF a, b
    <3>2. Ran(x, a \o b) = Ran(Ran(x, a), b)
      BY <3>1, RanOfBoth
    <3>. QED BY <2>5, <3>2
  <2>7. Ran(G[k], b) = Did(G[k], messages[j])
    BY <1>2, <2>1, <2>4, <2>5 DEF Exact, b
  <2>8. G[j] = Did(G[k], messages[j])
    BY <1>8, <2>1
  <2>9. Ran(x, W[j]) = G[j]
    BY <2>3, <2>6, <2>7, <2>8 DEF a, b
  <2>. QED BY <2>9 DEF j
<1>. HIDE DEF T
<1>11. T = Nat
  <2>1. T \in SUBSET Nat
    BY DEF T
  <2>. QED BY <1>9, <1>10, <2>1, Induction
<1>12. NoRefusal(W[n]) => Ran(x, W[n]) = G[n]
  <2>1. n \in T
    BY <1>1, <1>11
  <2>. QED BY <2>1 DEF T
<1>13. W[n] \in Seq(I2cStepSet)
  BY <1>1, <1>7
<1>. QED BY <1>7, <1>8, <1>12, <1>13

LEMMA PlainOfOne ==
    ASSUME RegisterCount \in Nat \ {0}, NEW messages \in I2cMessages, Len(messages) = 1,
           NEW x \in Results, x.read = <<>>
    PROVE  PlainResult(x.memory, x.pointer, messages) = Did(x, messages[1])
<1>1. PICK G : IsPlain(G, x, messages)
  BY PlainFacts
<1>2. 1 \in 1 .. 1 /\ 1 - 1 = 0
  OBVIOUS
<1>. QED BY <1>1, <1>2 DEF IsPlain

\* What the transport of a controller makes of a request.
RequestSteps(adapter, r) ==
    CASE r.op = "read" -> KernelRead(adapter, r.messages[1].read)
      [] r.op = "write" -> KernelWrite(adapter, r.messages[1].write)
      [] r.op = "write_read" -> KernelWriteRead(adapter, r.messages[1].write, r.messages[1].read)
      [] r.op = "transaction" -> KernelTransaction(adapter, r.messages)

\* What is true of every valid i2c request.
LEMMA RequestFacts ==
    ASSUME NEW r, IsI2cRequest(r), ValidI2c(r)
    PROVE  /\ r.op \in I2cOperations /\ r.address \in Addresses /\ r.messages \in I2cMessages
           /\ r.op # "transaction" => Len(r.messages) = 1 /\ IsMessage(r.messages[1])
           /\ r.op = "read" => r.messages[1].write = <<>>
           /\ r.op = "write" => r.messages[1].read = 0
           /\ r.op = "write_read" => r.messages[1].read # 0
           /\ r.op = "transaction" =>
                \A k \in DOMAIN r.messages : r.messages[k].read > 0 => r.messages[k].write = <<>>
<1>. DEFINE R == [write : Seq(Registers), read : Nat]
<1>1. r \in [op : I2cOperations, address : Addresses, messages : Seq(R)]
  BY DEF IsI2cRequest
<1>. HIDE DEF R
<1>2. r.op \in I2cOperations /\ r.address \in Addresses /\ r.messages \in Seq(R)
  BY <1>1
<1>3. r.op # "transaction" => Len(r.messages) = 1
  BY DEF IsI2cRequest
<1>4. Len(r.messages) = 1 => r.messages[1] \in R
  BY <1>2
<1>5. Len(r.messages) = 1 => IsMessage(r.messages[1])
  BY <1>4 DEF R, IsMessage
<1>6. r.op = "write_read" => r.messages[1].read > 0
  BY DEF ValidI2c, Reads
<1>7. r.op = "write_read" => r.messages[1].read # 0
  BY <1>3, <1>5, <1>6 DEF IsMessage
<1>. QED BY <1>2, <1>3, <1>5, <1>7 DEF IsI2cRequest, R, I2cMessages

(* The steps of a request, whatever the adapter, do what its messages would. *)
LEMMA RequestIsExact ==
    ASSUME RegisterCount \in Nat \ {0}, NEW adapter, NEW r, IsI2cRequest(r), ValidI2c(r),
           NEW x \in Results, x.read = <<>>
    PROVE  /\ RequestSteps(adapter, r) \in Seq(I2cStepSet)
           /\ NoRefusal(RequestSteps(adapter, r)) =>
                Ran(x, RequestSteps(adapter, r)) = PlainResult(x.memory, x.pointer, r.messages)
<1>. DEFINE m == r.messages[1]
            steps == RequestSteps(adapter, r)
<1>1. CASE r.op = "transaction"
  <2>1. steps = KernelTransaction(adapter, r.messages)
    BY <1>1 DEF RequestSteps
  <2>2. /\ r.messages \in I2cMessages
        /\ \A k \in DOMAIN r.messages : r.messages[k].read > 0 => r.messages[k].write = <<>>
    BY <1>1, RequestFacts
  <2>. QED BY <2>1, <2>2, TransactionIsExact
<1>2. CASE r.op # "transaction"
  <2>1. r.messages \in I2cMessages /\ Len(r.messages) = 1 /\ IsMessage(m)
    BY <1>2, RequestFacts
  <2>2. PlainResult(x.memory, x.pointer, r.messages) = Did(x, m)
    BY <2>1, PlainOfOne
  <2>3. Exact(steps, m)
    <3>1. CASE r.op = "read"
      <4>1. steps = KernelRead(adapter, m.read) /\ m.write = <<>>
        BY <3>1, RequestFacts DEF RequestSteps
      <4>. QED BY <2>1, <4>1, ReadIsExact
    <3>2. CASE r.op = "write"
      <4>1. steps = KernelWrite(adapter, m.write) /\ m.read = 0
        BY <3>2, RequestFacts DEF RequestSteps
      <4>. QED BY <2>1, <4>1, WriteIsExact
    <3>3. CASE r.op = "write_read"
      <4>1. steps = KernelWriteRead(adapter, m.write, m.read) /\ m.read # 0
        BY <3>3, RequestFacts DEF RequestSteps
      <4>. QED BY <2>1, <4>1, WriteReadIsExact
    <3>. QED BY <1>2, <3>1, <3>2, <3>3, RequestFacts DEF I2cOperations
  <2>. QED BY <2>2, <2>3 DEF Exact
<1>. QED BY <1>1, <1>2

(* The step that is next, and the steps that a block gives way to.           *)
LEMMA RanOfBlock ==
    ASSUME RegisterCount \in Nat \ {0}, NEW x \in Results, NEW steps \in Seq(I2cStepSet),
           steps # <<>>, Head(steps).kind = "block"
    PROVE  LET bytes == ReadSequence(Head(steps).write[1], Head(steps).read)
           IN  /\ bytes \o Tail(steps) \in Seq(I2cStepSet)
               /\ Ran(x, bytes \o Tail(steps)) = Ran(x, steps)
               /\ NoRefusal(bytes \o Tail(steps)) => NoRefusal(steps)
<1>. DEFINE step == Head(steps)
            bytes == ReadSequence(step.write[1], step.read)
            rest == Tail(steps)
<1>1. step \in I2cStepSet /\ rest \in Seq(I2cStepSet) /\ steps = <<step>> \o rest
      /\ Ran(x, steps) = Ran(After(x, step), rest)
  BY RanOfFirst
<1>. HIDE DEF rest
<1>2. step.write = <<step.write[1]>> /\ step.write[1] \in Registers /\ step.read \in Nat \ {0}
      /\ Plays(step) /\ step.kind # "refusal"
  <2>. HIDE DEF step
  <2>1. step.kind = "block"
    BY DEF step
  <2>2. step \in Blocks
    BY <1>1, <2>1 DEF I2cStepSet, Transfers, Refusal
  <2>3. PICK a \in Registers, n \in Nat \ {0} : step = Block(a, n)
    BY <2>2 DEF Blocks
  <2>4. step.write = <<a>> /\ step.read = n
    BY <2>3 DEF Block
  <2>. QED BY <2>1, <2>4 DEF Plays
<1>3. bytes \in Seq(I2cStepSet)
  BY <1>2, ReadSequenceType
<1>4. Ran(x, bytes) = Did(x, step)
  <2>. DEFINE a == step.write[1]
              n == step.read
  <2>. HIDE DEF step
  <2>1. a \in Registers /\ n \in Nat \ {0} /\ step.write = <<a>> /\ step.read = n
    BY <1>2
  <2>. HIDE DEF a, n
  <2>2. Ran(x, ReadSequence(a, n)) = Did(x, step)
    BY <2>1, RanOfReadSequence
  <2>. QED BY <2>2 DEF a, n
<1>. HIDE DEF bytes
<1>5. Ran(x, bytes \o rest) = Ran(Ran(x, bytes), rest) /\ bytes \o rest \in Seq(I2cStepSet)
  BY <1>1, <1>3, RanOfBoth
<1>6. Ran(x, bytes \o rest) = Ran(x, steps)
  BY <1>1, <1>2, <1>4, <1>5 DEF After
<1>7. ASSUME NoRefusal(bytes \o rest)
      PROVE  NoRefusal(steps)
  <2>1. NoRefusal(rest)
    BY <1>1, <1>3, <1>7, NoRefusalOfBoth
  <2>2. Len(steps) = 1 + Len(rest) /\ \A k \in 1 .. Len(steps) : steps[k] = IF k = 1 THEN step ELSE rest[k - 1]
    BY <1>1
  <2>. HIDE DEF step
  <2>3. ASSUME NEW k \in 1 .. Len(steps)
        PROVE  steps[k].kind # "refusal"
    <3>1. CASE k = 1
      BY <1>2, <2>2, <3>1
    <3>2. CASE k # 1
      <4>1. k - 1 \in 1 .. Len(rest)
        BY <1>1, <2>2, <3>2
      <4>. QED BY <2>1, <2>2, <3>2, <4>1 DEF NoRefusal
    <3>. QED BY <3>1, <3>2
  <2>. QED BY <2>3 DEF NoRefusal
<1>. QED BY <1>5, <1>6, <1>7 DEF bytes, rest

-----------------------------------------------------------------------------
(* The life of a session *)

\* A call, and a call of s that is in progress.
IsRecord(c) ==
    c = [request |-> c.request, steps |-> c.steps, read |-> c.read, failed |-> c.failed,
         before |-> c.before, sole |-> c.sole, sure |-> c.sure]

IsCall(s, c) ==
    /\ IsRecord(c)
    /\ c.request \in Requests[s][interface]
    /\ Supported(interface, c.request)

\* A value for every session.
OfSessions(f) == f = [s \in Sessions |-> f[s]]

\* What is true of every session, whatever its transport.
Base ==
    /\ interface \in Interfaces /\ backend \in {"linux", "mock"}
    /\ interface = "pwm" => backend = "mock"
    /\ state \in [Sessions -> SessionStates]
    /\ access \in [Sessions -> SessionAccess]
    /\ OfSessions(book) /\ OfSessions(call) /\ OfSessions(stats)
    /\ OfSessions(delivered) /\ OfSessions(unsure)
    /\ \A s \in Sessions : state[s] = "busy" => IsCall(s, call[s])

\* A call that another session may have disturbed.
SameCall(c, d) ==
    \/ d = c
    \/ d = [c EXCEPT !.sole = c.before = NoBook]
    \/ OnSerial /\ \E f : d = Disturbed(c, f)

\* What a step of s leaves to the other sessions.
Others(s) ==
    /\ UNCHANGED fixedVars
    /\ \A t \in Sessions \ {s} :
        /\ state'[t] = state[t] /\ book'[t] = book[t] /\ stats'[t] = stats[t]
        /\ delivered'[t] = delivered[t]
        /\ SameCall(call[t], call'[t])

\* A step leaves a value for every session.
Shaped ==
    /\ OfSessions(state)' /\ OfSessions(book)' /\ OfSessions(call)' /\ OfSessions(stats)'
    /\ OfSessions(delivered)' /\ OfSessions(unsure)'

LEMMA StateShape ==
    ASSUME Base
    PROVE  OfSessions(state) /\ \A s \in Sessions : state[s] \in SessionStates
BY DEF Base, OfSessions

\* What the steps that all transports share do to a session.
LEMMA BindFacts ==
    ASSUME Base, NEW s \in Sessions, NEW d, NEW b, Bind(s, d, b),
           unsure' = unsure \/ \E U : unsure' = [unsure EXCEPT ![s] = U]
    PROVE  /\ Others(s) /\ Shaped
           /\ state[s] = "none" /\ state'[s] = "idle" /\ device' = d /\ book'[s] = b
           /\ stats'[s] = Fresh /\ delivered'[s] = 0 /\ faults' = faults
           /\ call'[s] = NoCall
           /\ \A t \in Sessions \ {s} : call'[t] = call[t] /\ unsure'[t] = unsure[t]
<1>1. OfSessions(state) /\ OfSessions(book) /\ OfSessions(stats) /\ OfSessions(delivered)
      /\ OfSessions(call) /\ OfSessions(unsure)
  BY StateShape DEF Base
<1>2. OfSessions(call') /\ call'[s] = NoCall /\ \A t \in Sessions \ {s} : call'[t] = call[t]
  BY <1>1 DEF Bind, OfSessions
<1>3. OfSessions(unsure') /\ \A t \in Sessions \ {s} : unsure'[t] = unsure[t]
  BY <1>1 DEF OfSessions
<1>4. /\ OfSessions(state') /\ OfSessions(book') /\ OfSessions(stats') /\ OfSessions(delivered')
      /\ state[s] = "none" /\ state'[s] = "idle" /\ device' = d /\ book'[s] = b
      /\ stats'[s] = Fresh /\ delivered'[s] = 0 /\ UNCHANGED <<fixedVars, faults>>
      /\ \A t \in Sessions \ {s} : state'[t] = state[t] /\ book'[t] = book[t]
                                  /\ stats'[t] = stats[t] /\ delivered'[t] = delivered[t]
  BY <1>1 DEF Bind, OfSessions
<1>. QED BY <1>2, <1>3, <1>4 DEF Others, Shaped, SameCall, OfSessions

LEMMA MarkClosedFacts ==
    ASSUME Base, NEW s \in Sessions, MarkClosed(s)
    PROVE  /\ Others(s) /\ Shaped
           /\ state[s] \in {"idle", "faulted", "closed"} /\ state'[s] = "closed"
           /\ UNCHANGED <<device, book, call, stats, delivered, unsure, faults>>
BY StateShape DEF MarkClosed, Others, Shaped, SameCall, fixedVars, driverVars, Base, OfSessions

LEMMA DropFacts ==
    ASSUME Base, NEW s \in Sessions, NEW d, Drop(s, d)
    PROVE  /\ Others(s) /\ Shaped
           /\ state[s] \in {"idle", "faulted", "closed"} /\ state'[s] = "none"
           /\ device' = d /\ book'[s] = NoBook /\ unsure'[s] = {}
           /\ \A t \in Sessions \ {s} : unsure'[t] = unsure[t]
           /\ UNCHANGED <<call, stats, delivered, faults>>
BY StateShape DEF Drop, Others, Shaped, SameCall, fixedVars, Base, OfSessions

LEMMA BeginFacts ==
    ASSUME Base, NEW s \in Sessions, NEW r \in Requests[s][interface], NEW steps, BeginCall(s, r, steps)
    PROVE  /\ Others(s) /\ Shaped
           /\ state[s] \in {"idle", "faulted", "closed"} /\ (state[s] = "closed" => backend = "mock")
           /\ state'[s] = "busy" /\ call'[s] = Calling(r, steps) /\ IsCall(s, call'[s])
           /\ Supported(interface, r) /\ delivered[s] + Payload(r) <= ByteLimit
           /\ \A t \in Sessions \ {s} : call'[t] = call[t]
           /\ UNCHANGED <<device, book, stats, delivered, unsure, faults>>
<1>1. IsCall(s, Calling(r, steps))
  BY DEF BeginCall, Calling, IsCall, IsRecord
<1>. HIDE DEF Calling
<1>2. OfSessions(call)
  BY DEF Base
<1>3. OfSessions(call') /\ call'[s] = Calling(r, steps) /\ \A t \in Sessions \ {s} : call'[t] = call[t]
  BY <1>2 DEF BeginCall, OfSessions
<1>4. OfSessions(state') /\ state'[s] = "busy" /\ \A t \in Sessions \ {s} : state'[t] = state[t]
  BY StateShape DEF BeginCall, OfSessions
<1>5. state[s] \in {"idle", "faulted", "closed"} /\ (state[s] = "closed" => backend = "mock")
  BY DEF BeginCall, EnsureOpen, Base
<1>6. UNCHANGED <<fixedVars, device, book, stats, delivered, unsure, faults>>
      /\ Supported(interface, r) /\ delivered[s] + Payload(r) <= ByteLimit
  BY DEF BeginCall, driverVars
<1>7. OfSessions(book)' /\ OfSessions(stats)' /\ OfSessions(delivered)' /\ OfSessions(unsure)'
  BY <1>6 DEF Base, OfSessions
<1>. QED BY <1>1, <1>3, <1>4, <1>5, <1>6, <1>7 DEF Others, Shaped, SameCall, fixedVars, OfSessions

LEMMA TouchFacts ==
    ASSUME Base, NEW s \in Sessions, state[s] = "busy", NEW d, NEW carried, NEW c, Touch(s, d, carried, c),
           book' = book
    PROVE  /\ Others(s)
           /\ OfSessions(state)' /\ OfSessions(book)' /\ OfSessions(call)' /\ OfSessions(stats)'
           /\ OfSessions(delivered)'
           /\ device' = d /\ delivered'[s] = delivered[s] + carried /\ call'[s] = c
           /\ \A t \in Sessions \ {s} :
                /\ state[t] = "busy" => call'[t] = [call[t] EXCEPT !.sole = call[t].before = NoBook]
                /\ state[t] # "busy" => call'[t] = call[t]
           /\ UNCHANGED <<state, stats, faults>>
<1>1. OfSessions(delivered') /\ delivered'[s] = delivered[s] + carried
      /\ \A t \in Sessions \ {s} : delivered'[t] = delivered[t]
  <2>1. OfSessions(delivered)
    BY DEF Base
  <2>. QED BY <2>1 DEF Touch, OfSessions
<1>2. UNCHANGED <<interface, backend, access, state, stats, faults>> /\ device' = d
  BY DEF Touch, fixedVars
<1>3. OfSessions(state)' /\ OfSessions(book)' /\ OfSessions(stats)'
  BY <1>2, StateShape DEF Base, OfSessions
<1>4. call' = [t \in Sessions |->
                    IF t = s THEN c
                    ELSE IF state[t] = "busy" THEN [call[t] EXCEPT !.sole = call[t].before = NoBook]
                    ELSE call[t]]
  BY DEF Touch
<1>5. call'[s] = c /\ OfSessions(call')
  BY <1>4 DEF OfSessions
<1>6. ASSUME NEW t \in Sessions \ {s}
      PROVE  /\ SameCall(call[t], call'[t])
             /\ state[t] = "busy" => call'[t] = [call[t] EXCEPT !.sole = call[t].before = NoBook]
             /\ state[t] # "busy" => call'[t] = call[t]
  BY <1>4 DEF SameCall
<1>. QED BY <1>1, <1>2, <1>3, <1>5, <1>6 DEF Others, fixedVars, OfSessions

LEMMA ReturnFacts ==
    ASSUME Base, NEW s \in Sessions, NEW outcome, Return(s, outcome)
    PROVE  /\ UNCHANGED <<fixedVars, device, faults>>
           /\ state'[s] = outcome /\ OfSessions(state)' /\ OfSessions(call)'
           /\ \A t \in Sessions \ {s} : state'[t] = state[t] /\ call'[t] = call[t]
BY StateShape DEF Return, Base, OfSessions

LEMMA SucceedFacts ==
    ASSUME Base, NEW s \in Sessions, NEW b, Succeed(s, b)
    PROVE  /\ Others(s)
           /\ OfSessions(state)' /\ OfSessions(book)' /\ OfSessions(call)' /\ OfSessions(stats)'
           /\ OfSessions(delivered)'
           /\ state[s] = "busy" /\ call[s].steps = <<>> /\ ~ call[s].failed
           /\ state'[s] = "idle" /\ book'[s] = b
           /\ stats'[s] = Recorded(interface, stats[s], call[s].request)
           /\ \A t \in Sessions \ {s} : call'[t] = call[t]
           /\ UNCHANGED <<device, delivered, faults>>
<1>1. Return(s, "idle") /\ Done(s) /\ ~ call[s].failed /\ delivered' = delivered
  BY DEF Succeed
<1>2. OfSessions(book') /\ book'[s] = b /\ \A t \in Sessions \ {s} : book'[t] = book[t]
  <2>1. OfSessions(book)
    BY DEF Base
  <2>. QED BY <2>1 DEF Succeed, OfSessions
<1>3. OfSessions(stats') /\ stats'[s] = Recorded(interface, stats[s], call[s].request)
      /\ \A t \in Sessions \ {s} : stats'[t] = stats[t]
  <2>1. OfSessions(stats)
    BY DEF Base
  <2>. QED BY <2>1 DEF Succeed, OfSessions
<1>4. OfSessions(delivered)'
  BY <1>1 DEF Base, OfSessions
<1>. QED BY <1>1, <1>2, <1>3, <1>4, ReturnFacts DEF Others, SameCall, Done, OfSessions

LEMMA FailFacts ==
    ASSUME Base, NEW s \in Sessions, Fail(s)
    PROVE  /\ Others(s) /\ Shaped
           /\ state[s] = "busy" /\ state'[s] = "faulted"
           /\ call[s].steps = <<>> => call[s].failed
           /\ call[s].steps # <<>> => NextStep(s).kind # "alternate"
           /\ \A t \in Sessions \ {s} : call'[t] = call[t]
           /\ UNCHANGED <<device, book, stats, delivered, unsure, faults>>
<1>1. Return(s, "faulted") /\ UNCHANGED <<book, stats, delivered, unsure>> /\ state[s] = "busy"
      /\ (call[s].steps = <<>> => call[s].failed) /\ (call[s].steps # <<>> => NextStep(s).kind # "alternate")
  BY DEF Fail, driverVars
<1>2. OfSessions(book)' /\ OfSessions(stats)' /\ OfSessions(delivered)' /\ OfSessions(unsure)'
  BY <1>1 DEF Base, OfSessions
<1>. QED BY <1>1, <1>2, ReturnFacts DEF Others, Shaped, SameCall

\* The session of s goes on with its call.
LEMMA StepFacts ==
    ASSUME Base, NEW s \in Sessions, NEW c, call' = [call EXCEPT ![s] = c],
           UNCHANGED <<fixedVars, state, stats, delivered>>, OfSessions(book)', OfSessions(unsure)',
           \A t \in Sessions \ {s} : book'[t] = book[t]
    PROVE  /\ Others(s) /\ Shaped /\ call'[s] = c
           /\ \A t \in Sessions \ {s} : call'[t] = call[t]
<1>1. OfSessions(call') /\ call'[s] = c /\ \A t \in Sessions \ {s} : call'[t] = call[t]
  BY DEF Base, OfSessions
<1>2. OfSessions(state)' /\ OfSessions(stats)' /\ OfSessions(delivered)'
  BY StateShape DEF Base, OfSessions
<1>. QED BY <1>1, <1>2 DEF Others, Shaped, SameCall, OfSessions

-----------------------------------------------------------------------------
(* Which transport makes a step *)

\* The guards of a step name the transport.
LEMMA SerialOnly ==
    ASSUME NEW s, SerialStep(s)
    PROVE  OnSerial
<1>1. SpiStep(s) => OnSpi
  BY DEF SpiStep, OpenSpi, OpenSpiFails, BindSpi, BeginSpi
<1>2. UartStep(s) => OnUart
  BY DEF UartStep, BindUart, OpenFails, OpenPort, BeginUart, AskPort
<1>3. SetStep(s) \/ GetStep(s) \/ Send(s) \/ FinishSerial(s) => OnSerial
  BY DEF SetStep, GetStep, Send, FinishSerial
<1>. QED BY <1>1, <1>2, <1>3 DEF SerialStep, OnSerial, OnSpi, OnUart

LEMMA CdevOnly ==
    ASSUME NEW s, CdevStep(s)
    PROVE  OnCdev
BY DEF CdevStep, BindCdev, BeginCdev, SetLevel, GetLevel

LEMMA UsbOnly ==
    ASSUME NEW s, UsbStep(s)
    PROVE  OnUsb
BY DEF UsbStep, BindUsb, BeginUsb, TakeClaim, SetAlternate, AlternateFails, GiveBack, Exchange,
       FinishUsb, CloseUsb, CloseFails

LEMMA I2cOnly ==
    ASSUME NEW s, I2cStep(s)
    PROVE  OnI2c
BY DEF I2cStep, BindDevice, BindController, BeginDeviceCall, BeginControllerCall, SelectAddress,
       MakeTransfer, BlockGivesWay

LEMMA MockOnly ==
    ASSUME NEW s, MockStep(s)
    PROVE  OnMock
BY DEF MockStep, OpenMock, OpenInjected, BeginMock, Injected, Effect, EffectFails

LEMMA TestOnly ==
    MockTest => OnMock
BY DEF MockTest, QueueError, ClearFaults, RemoveDevice, AttachDevice

LEMMA LineOnly ==
    LineChanges => OnCdev
BY DEF LineChanges

\* A step is one of the transport that the behaviour is about.
LEMMA WhoSteps ==
    ASSUME [Next]_deviceVars
    PROVE  \/ \E s \in Sessions :
                \/ OnI2c /\ (I2cStep(s) \/ Fail(s))
                \/ OnSerial /\ (SerialStep(s) \/ Fail(s))
                \/ OnCdev /\ (CdevStep(s) \/ Fail(s))
                \/ OnUsb /\ (UsbStep(s) \/ Fail(s))
                \/ OnMock /\ MockStep(s)
                \/ backend = "linux" /\ Fail(s)
           \/ OnCdev /\ LineChanges
           \/ OnMock /\ MockTest
           \/ UNCHANGED deviceVars
<1>1. CASE UNCHANGED deviceVars
  BY <1>1
<1>2. CASE LineChanges
  BY <1>2, LineOnly
<1>3. CASE MockTest
  BY <1>3, TestOnly
<1>4. ASSUME NEW s \in Sessions, SessionStep(s)
      PROVE  \/ OnI2c /\ (I2cStep(s) \/ Fail(s))
             \/ OnSerial /\ (SerialStep(s) \/ Fail(s))
             \/ OnCdev /\ (CdevStep(s) \/ Fail(s))
             \/ OnUsb /\ (UsbStep(s) \/ Fail(s))
             \/ OnMock /\ MockStep(s)
             \/ backend = "linux" /\ Fail(s)
  BY <1>4, SerialOnly, CdevOnly, UsbOnly, I2cOnly, MockOnly DEF SessionStep, LinuxFails
<1>. QED BY <1>1, <1>2, <1>3, <1>4 DEF Next

\* The transports exclude each other.
LEMMA Transports ==
    /\ OnI2c => ~ OnSerial /\ ~ OnCdev /\ ~ OnUsb /\ ~ OnMock /\ interface = "i2c" /\ backend = "linux"
    /\ OnSerial => ~ OnCdev /\ ~ OnUsb /\ ~ OnMock /\ interface \in {"spi", "uart"} /\ backend = "linux"
    /\ OnCdev => ~ OnUsb /\ ~ OnMock /\ interface = "gpio" /\ backend = "linux"
    /\ OnUsb => ~ OnMock /\ interface = "usb" /\ backend = "linux"
    /\ OnMock => backend = "mock"
BY DEF OnI2c, OnSerial, OnCdev, OnUsb, OnMock

-----------------------------------------------------------------------------
(* The steps of i2c sessions *)

\* A call whose next step selects the address.
Selecting(c) == c.steps # <<>> /\ Head(c.steps).kind = "select"

\* The transfers of a call that are still to be made.
Ahead(c) == IF Selecting(c) THEN Tail(c.steps) ELSE c.steps

\* A call that has its transfers, and its address if it has selected one.
I2cCall(c, selected) ==
    /\ Ahead(c) \in Seq(I2cStepSet)
    /\ IF Selecting(c) THEN Head(c.steps) = [kind |-> "select", address |-> c.request.address]
       ELSE selected = c.request.address
    /\ c.read \in Seq(Registers) /\ c.before \in I2cDevices
    /\ c.sole \in BOOLEAN /\ c.failed = FALSE

\* The types, and what a session knows of the address the kernel holds for it.
I2cType == OnI2c =>
    /\ device \in I2cDevices
    /\ \A s \in Sessions :
        /\ book[s] = device.selected[s]
        /\ state[s] = "none" => book[s] = NoBook
        /\ s \notin Controllers /\ state[s] # "none" => book[s] = OwnAddress
        /\ state[s] = "busy" => /\ I2cCall(call[s], device.selected[s])
                                /\ Selecting(call[s]) => s \in Controllers

LEMMA NoSelecting ==
    ASSUME NEW c, c.steps \in Seq(I2cStepSet)
    PROVE  ~ Selecting(c) /\ Ahead(c) = c.steps
<1>1. ASSUME c.steps # <<>>
      PROVE  Head(c.steps) \in I2cStepSet
  BY <1>1
<1>2. \A step \in I2cStepSet : step.kind # "select"
  BY DEF I2cStepSet, Transfers, Blocks, Block, Refusal
<1>. QED BY <1>1, <1>2 DEF Selecting, Ahead

LEMMA SelectingStep ==
    ASSUME NEW a, NEW steps \in Seq(I2cStepSet), NEW c,
           c.steps = <<[kind |-> "select", address |-> a]>> \o steps
    PROVE  /\ Selecting(c) /\ Ahead(c) = steps
           /\ Head(c.steps) = [kind |-> "select", address |-> a]
<1>. DEFINE first == [kind |-> "select", address |-> a]
            S == I2cStepSet \cup {first}
<1>1. <<first>> \in Seq(S) /\ steps \in Seq(S) /\ <<first>> # <<>>
  OBVIOUS
<1>2. first.kind = "select"
  OBVIOUS
<1>. HIDE DEF first, S
<1>3. c.steps = <<first>> \o steps
  BY DEF first
<1>4. c.steps # <<>> /\ Head(c.steps) = first /\ Tail(c.steps) = steps
  <2>. DEFINE p == <<first>>
  <2>1. p \in Seq(S) /\ Len(p) = 1 /\ p[1] = first
    BY <1>1
  <2>. HIDE DEF p
  <2>. DEFINE q == p \o steps
  <2>2. /\ q \in Seq(S) /\ Len(q) = 1 + Len(steps) /\ Len(steps) \in Nat
        /\ \A k \in 1 .. 1 + Len(steps) : q[k] = IF k <= 1 THEN p[k] ELSE steps[k - 1]
    <3>1. /\ q \in Seq(S) /\ Len(q) = Len(p) + Len(steps)
          /\ \A k \in 1 .. Len(p) + Len(steps) : q[k] = IF k <= Len(p) THEN p[k] ELSE steps[k - Len(p)]
      BY <1>1, <2>1, ConcatProperties
    <3>2. Len(steps) \in Nat
      OBVIOUS
    <3>. QED BY <2>1, <3>1, <3>2
  <2>. HIDE DEF q
  <2>3. q # <<>> /\ Head(q) = first
    BY <2>1, <2>2
  <2>4. Tail(q) \in Seq(S) /\ Len(Tail(q)) = Len(steps) /\ \A k \in 1 .. Len(steps) : Tail(q)[k] = q[k + 1]
    BY <2>2, <2>3
  <2>5. \A k \in 1 .. Len(steps) : Tail(q)[k] = steps[k]
    <3>. SUFFICES ASSUME NEW k \in 1 .. Len(steps)
                  PROVE  Tail(q)[k] = steps[k]
      OBVIOUS
    <3>1. k + 1 \in 1 .. 1 + Len(steps) /\ ~ (k + 1 <= 1) /\ k + 1 - 1 = k
      BY <2>2
    <3>. QED BY <2>2, <2>4, <3>1
  <2>6. Tail(q) = steps
    BY <1>1, <2>4, <2>5, SeqEqual
  <2>. QED BY <1>3, <2>3, <2>6 DEF p, q
<1>. QED BY <1>2, <1>4 DEF Selecting, Ahead, first

LEMMA SameCallFacts ==
    ASSUME NEW s, NEW c, IsCall(s, c), NEW d, SameCall(c, d)
    PROVE  /\ IsCall(s, d)
           /\ d.request = c.request /\ d.steps = c.steps /\ d.read = c.read /\ d.failed = c.failed
           /\ d.before = c.before /\ d.sole \in {c.sole, c.before = NoBook}
<1>1. c = [request |-> c.request, steps |-> c.steps, read |-> c.read, failed |-> c.failed,
           before |-> c.before, sole |-> c.sole, sure |-> c.sure]
  BY DEF IsCall, IsRecord
<1>2. CASE d = c
  BY <1>2
<1>3. CASE d = [c EXCEPT !.sole = c.before = NoBook]
  <2>1. d = [request |-> c.request, steps |-> c.steps, read |-> c.read, failed |-> c.failed,
             before |-> c.before, sole |-> c.before = NoBook, sure |-> c.sure]
    BY <1>1, <1>3
  <2>. QED BY <2>1 DEF IsCall, IsRecord
<1>4. ASSUME NEW f, d = Disturbed(c, f)
      PROVE  /\ IsCall(s, d)
             /\ d.request = c.request /\ d.steps = c.steps /\ d.read = c.read /\ d.failed = c.failed
             /\ d.before = c.before /\ d.sole \in {c.sole, c.before = NoBook}
  <2>. DEFINE left == c.sure \ {f}
  <2>1. d = [c EXCEPT !.sure = left]
    BY <1>4 DEF Disturbed
  <2>. HIDE DEF left
  <2>2. d = [request |-> c.request, steps |-> c.steps, read |-> c.read, failed |-> c.failed,
             before |-> c.before, sole |-> c.sole, sure |-> left]
    BY <1>1, <2>1
  <2>. QED BY <2>2 DEF IsCall, IsRecord
<1>. QED BY <1>2, <1>3, <1>4 DEF SameCall

LEMMA SameI2cCall ==
    ASSUME NEW s, NEW c, IsCall(s, c), NEW d, SameCall(c, d), NEW selected, I2cCall(c, selected), OnI2c
    PROVE  I2cCall(d, selected) /\ Ahead(d) = Ahead(c) /\ Selecting(d) = Selecting(c) /\ (d # c => d.sole = FALSE)
<1>1. /\ d.request = c.request /\ d.steps = c.steps /\ d.read = c.read /\ d.failed = c.failed
      /\ d.before = c.before /\ d.sole \in {c.sole, c.before = NoBook}
  BY SameCallFacts
<1>2. Selecting(d) = Selecting(c) /\ Ahead(d) = Ahead(c)
  BY <1>1 DEF Selecting, Ahead
<1>3. c.before # NoBook
  BY I2cAssumption DEF I2cCall
<1>4. d # c => d.sole = FALSE
  BY <1>3, Transports DEF SameCall, IsCall, IsRecord
<1>5. d.sole \in BOOLEAN
  BY <1>1, <1>3 DEF I2cCall
<1>. QED BY <1>1, <1>2, <1>4, <1>5 DEF I2cCall

\* What a step of s keeps of the other i2c sessions.
LEMMA I2cOthers ==
    ASSUME Base, I2cType, OnI2c, NEW s \in Sessions, Others(s),
           \A t \in Sessions \ {s} : device'.selected[t] = device.selected[t]
    PROVE  \A t \in Sessions \ {s} :
                /\ book'[t] = device'.selected[t]
                /\ state'[t] = "none" => book'[t] = NoBook
                /\ t \notin Controllers /\ state'[t] # "none" => book'[t] = OwnAddress
                /\ state'[t] = "busy" => I2cCall(call'[t], device'.selected[t]) /\ (Selecting(call'[t]) => t \in Controllers)
<1>. SUFFICES ASSUME NEW t \in Sessions \ {s}
              PROVE  /\ book'[t] = device'.selected[t]
                     /\ state'[t] = "none" => book'[t] = NoBook
                     /\ t \notin Controllers /\ state'[t] # "none" => book'[t] = OwnAddress
                     /\ state'[t] = "busy" => I2cCall(call'[t], device'.selected[t]) /\ (Selecting(call'[t]) => t \in Controllers)
  OBVIOUS
<1>1. state'[t] = state[t] /\ book'[t] = book[t] /\ SameCall(call[t], call'[t])
  BY DEF Others
<1>2. ASSUME state[t] = "busy"
      PROVE  I2cCall(call'[t], device'.selected[t]) /\ (Selecting(call'[t]) => t \in Controllers)
  <2>1. IsCall(t, call[t]) /\ I2cCall(call[t], device.selected[t]) /\ (Selecting(call[t]) => t \in Controllers)
    BY <1>2 DEF Base, I2cType
  <2>. QED BY <1>1, <2>1, SameI2cCall
<1>. QED BY <1>1, <1>2 DEF I2cType

LEMMA DeviceFacts ==
    ASSUME NEW d \in I2cDevices
    PROVE  /\ d = [adapter |-> d.adapter, memory |-> d.memory, pointer |-> d.pointer, selected |-> d.selected]
           /\ d.adapter \in Adapters /\ d.memory \in [Addresses -> Memories]
           /\ d.pointer \in [Addresses -> Registers]
           /\ d.selected \in [Sessions -> Addresses \cup {NoBook}]
BY DEF I2cDevices, Memories

\* What is read and written next.
Now(c, d) ==
    [memory |-> d.memory[c.request.address], pointer |-> d.pointer[c.request.address], read |-> c.read]

LEMMA NowType ==
    ASSUME NEW d \in I2cDevices, NEW c, c.request.address \in Addresses, c.read \in Seq(Registers)
    PROVE  Now(c, d) \in Results
BY DeviceFacts DEF Now, Results, Memories

LEMMA RequestOfCall ==
    ASSUME NEW s \in Sessions, OnI2c, NEW c, IsCall(s, c)
    PROVE  IsI2cRequest(c.request) /\ ValidI2c(c.request) /\ c.request.address \in Addresses
           /\ c.request.op \in I2cOperations
<1>1. interface = "i2c"
  BY DEF OnI2c
<1>2. c.request \in Requests[s].i2c /\ Supported("i2c", c.request)
  BY <1>1 DEF IsCall
<1>3. IsI2cRequest(c.request) /\ ValidI2c(c.request)
  BY <1>2, I2cAssumption DEF Supported, Valid
<1>. QED BY <1>3, RequestFacts

-----------------------------------------------------------------------------
(* What each of its steps does to a call *)

\* An i2c call begins with the steps of its request ahead.
LEMMA I2cBegins ==
    ASSUME Base, I2cType, OnI2c, NEW s \in Sessions, NEW r \in Requests[s].i2c,
           BeginDeviceCall(s, r) \/ BeginControllerCall(s, r)
    PROVE  /\ state'[s] = "busy" /\ Others(s) /\ Shaped /\ IsCall(s, call'[s])
           /\ I2cCall(call'[s], device.selected[s]) /\ (Selecting(call'[s]) => s \in Controllers)
           /\ Ahead(call'[s]) = RequestSteps(device.adapter, r)
           /\ call'[s].request = r /\ call'[s].read = <<>> /\ call'[s].before = device /\ call'[s].sole
           /\ MayTransfer(s, r) /\ IsI2cRequest(r) /\ ValidI2c(r)
           /\ delivered[s] + Payload(r) <= ByteLimit
           /\ \A t \in Sessions \ {s} : call'[t] = call[t]
           /\ UNCHANGED <<device, book, stats, delivered, unsure, faults>>
<1>1. interface = "i2c" /\ backend = "linux"
  BY DEF OnI2c
<1>. DEFINE steps == RequestSteps(device.adapter, r)
            first == IF s \in Controllers THEN Select(s, r.address) ELSE <<>>
            c == call'[s]
<1>2. steps = I2cSteps(r)
  BY DEF RequestSteps, I2cSteps
<1>3. PICK all : BeginCall(s, r, all) /\ all = (IF s \in Controllers THEN Select(s, r.address) \o steps ELSE steps)
  BY <1>2 DEF BeginDeviceCall, BeginControllerCall
<1>4. r \in Requests[s][interface]
  BY <1>1
<1>. HIDE DEF steps
<1>5. /\ Others(s) /\ Shaped /\ state'[s] = "busy" /\ c = Calling(r, all) /\ IsCall(s, c)
      /\ Supported(interface, r) /\ delivered[s] + Payload(r) <= ByteLimit
      /\ \A t \in Sessions \ {s} : call'[t] = call[t]
      /\ UNCHANGED <<device, book, stats, delivered, unsure, faults>>
  BY <1>3, <1>4, BeginFacts
<1>6. c = [request |-> r, steps |-> all, read |-> <<>>, failed |-> FALSE, before |-> device, sole |-> TRUE,
           sure |-> {}]
  BY <1>1, <1>5 DEF Calling
<1>7. c.request = r /\ c.steps = all /\ c.read = <<>> /\ c.failed = FALSE /\ c.before = device /\ c.sole = TRUE
  BY <1>6
<1>. HIDE DEF c
<1>8. IsI2cRequest(r) /\ ValidI2c(r) /\ r.address \in Addresses
  BY <1>5, <1>7, RequestOfCall
<1>9. steps \in Seq(I2cStepSet)
  <2>. DEFINE n == [i \in Registers |-> 0]
              x == [memory |-> n, pointer |-> 0, read |-> <<>>]
  <2>1. RegisterCount \in Nat \ {0}
    BY I2cAssumption
  <2>2. 0 \in Registers
    BY <2>1 DEF Registers
  <2>3. n \in Memories
    BY <2>2 DEF Memories
  <2>. HIDE DEF n
  <2>4. x \in Results /\ x.read = <<>>
    BY <2>2, <2>3 DEF Results
  <2>. HIDE DEF x
  <2>. QED BY <1>8, <2>1, <2>4, RequestIsExact DEF steps
<1>10. MayTransfer(s, r)
  BY DEF BeginDeviceCall, BeginControllerCall
<1>11. device \in I2cDevices /\ book[s] = device.selected[s]
       /\ (s \notin Controllers /\ state[s] # "none" => book[s] = OwnAddress)
  BY DEF I2cType
<1>16. c.read \in Seq(Registers) /\ c.before \in I2cDevices /\ c.sole \in BOOLEAN /\ c.failed = FALSE
  <2>1. c.read \in Seq(Registers)
    BY <1>7
  <2>. QED BY <1>7, <1>11, <2>1
<1>12. CASE all = <<[kind |-> "select", address |-> r.address]>> \o steps
  <2>1. Selecting(c) /\ Ahead(c) = steps /\ Head(c.steps) = [kind |-> "select", address |-> r.address]
    BY <1>7, <1>9, <1>12, SelectingStep
  <2>2. I2cCall(c, device.selected[s])
    BY <1>7, <1>9, <1>16, <2>1 DEF I2cCall
  <2>3. s \in Controllers
    <3>1. s \notin Controllers => all = steps
      BY <1>3
    <3>2. all # steps
      <4>. SUFFICES ASSUME all = steps
                    PROVE  FALSE
        OBVIOUS
      <4>1. ~ Selecting(c)
        BY <1>7, <1>9, NoSelecting
      <4>. QED BY <2>1, <4>1
    <3>. QED BY <3>1, <3>2
  <2>. QED BY <1>5, <1>7, <1>8, <1>10, <2>1, <2>2, <2>3 DEF c, steps
<1>13. CASE all = steps /\ device.selected[s] = r.address
  <2>1. ~ Selecting(c) /\ Ahead(c) = steps
    BY <1>7, <1>9, <1>13, NoSelecting
  <2>2. I2cCall(c, device.selected[s])
    BY <1>7, <1>9, <1>13, <1>16, <2>1 DEF I2cCall
  <2>. QED BY <1>5, <1>7, <1>8, <1>10, <2>1, <2>2 DEF c, steps
<1>14. CASE s \notin Controllers
  <2>1. r.address = OwnAddress /\ state[s] # "none"
    BY <1>3, <1>14, BeginFacts, <1>4 DEF BeginDeviceCall, BeginControllerCall
  <2>. QED BY <1>3, <1>11, <1>13, <1>14, <2>1
<1>15. CASE s \in Controllers
  <2>1. CASE book[s] # r.address
    BY <1>3, <1>12, <1>15, <2>1 DEF Select
  <2>2. CASE book[s] = r.address
    <3>1. <<>> \o steps = steps
      BY <1>9
    <3>. QED BY <1>3, <1>11, <1>13, <1>15, <2>2, <3>1 DEF Select
  <2>. QED BY <2>1, <2>2
<1>. QED BY <1>14, <1>15

\* A session goes on with its call, with these transfers ahead.
I2cGoesOn(s, ahead) ==
    /\ Others(s) /\ Shaped /\ state[s] = "busy" /\ state' = state
    /\ UNCHANGED <<stats, unsure, faults>>
    /\ IsCall(s, call'[s]) /\ I2cCall(call'[s], device'.selected[s]) /\ Ahead(call'[s]) = ahead
    /\ Selecting(call'[s]) => s \in Controllers
    /\ call'[s].request = call[s].request /\ call'[s].before = call[s].before
    /\ call'[s].sole = call[s].sole
    /\ device' \in I2cDevices /\ book'[s] = device'.selected[s]
    /\ device'.selected[s] # book[s] => s \in Controllers
    /\ \A t \in Sessions \ {s} : device'.selected[t] = device.selected[t]

LEMMA BusyCall ==
    ASSUME Base, I2cType, OnI2c, NEW s \in Sessions, state[s] = "busy"
    PROVE  /\ IsCall(s, call[s]) /\ I2cCall(call[s], device.selected[s])
           /\ device \in I2cDevices /\ book[s] = device.selected[s]
           /\ IsI2cRequest(call[s].request) /\ ValidI2c(call[s].request)
           /\ call[s].request.address \in Addresses
<1>1. IsCall(s, call[s])
  BY DEF Base
<1>. QED BY <1>1, RequestOfCall DEF I2cType

\* A call with other steps, and with something more read or a failure met.
GoneOn(c, steps, read, failed) ==
    [request |-> c.request, steps |-> steps, read |-> read, failed |-> failed,
     before |-> c.before, sole |-> c.sole, sure |-> c.sure]

LEMMA GoneOnFacts ==
    ASSUME NEW s, NEW c, IsCall(s, c), NEW steps, NEW read, NEW failed
    PROVE  LET d == GoneOn(c, steps, read, failed)
           IN  /\ IsCall(s, d) /\ d.request = c.request /\ d.before = c.before /\ d.sole = c.sole
               /\ d.steps = steps /\ d.read = read /\ d.failed = failed
BY DEF IsCall, IsRecord, GoneOn

LEMMA GoneOnIs ==
    ASSUME NEW s, NEW c, IsCall(s, c), NEW steps, NEW read, NEW failed
    PROVE  /\ [c EXCEPT !.steps = steps] = GoneOn(c, steps, c.read, c.failed)
           /\ [[c EXCEPT !.steps = steps] EXCEPT !.read = read] = GoneOn(c, steps, read, c.failed)
           /\ [c EXCEPT !.steps = steps, !.failed = failed] = GoneOn(c, steps, c.read, failed)
<1>1. PICK q, p, r, f, b, o, u : c = [request |-> q, steps |-> p, read |-> r, failed |-> f, before |-> b, sole |-> o, sure |-> u]
  BY DEF IsCall, IsRecord
<1>2. c.request = q /\ c.steps = p /\ c.read = r /\ c.failed = f /\ c.before = b /\ c.sole = o /\ c.sure = u
  BY <1>1
<1>3. [c EXCEPT !.steps = steps] = [request |-> q, steps |-> steps, read |-> r, failed |-> f, before |-> b, sole |-> o, sure |-> u]
  BY <1>1
<1>. DEFINE e == [c EXCEPT !.steps = steps]
<1>4. e = [request |-> q, steps |-> steps, read |-> r, failed |-> f, before |-> b, sole |-> o, sure |-> u]
  BY <1>3
<1>5. [c EXCEPT !.steps = steps, !.failed = failed] = [e EXCEPT !.failed = failed]
  OBVIOUS
<1>. HIDE DEF e
<1>6. [e EXCEPT !.read = read] =
            [request |-> q, steps |-> steps, read |-> read, failed |-> f, before |-> b, sole |-> o, sure |-> u]
  BY <1>4
<1>7. [e EXCEPT !.failed = failed] =
            [request |-> q, steps |-> steps, read |-> r, failed |-> failed, before |-> b, sole |-> o, sure |-> u]
  BY <1>4
<1>. QED BY <1>2, <1>3, <1>5, <1>6, <1>7 DEF GoneOn, e

\* Selecting the address leaves them ahead.
LEMMA I2cSelects ==
    ASSUME Base, I2cType, OnI2c, NEW s \in Sessions, SelectAddress(s)
    PROVE  /\ I2cGoesOn(s, Ahead(call[s]))
           /\ call'[s].read = call[s].read
           /\ device'.memory = device.memory /\ device'.pointer = device.pointer
           /\ \A t \in Sessions \ {s} : call'[t] = call[t]
           /\ delivered' = delivered
<1>. DEFINE c == call[s]
            a == NextStep(s).address
            d == [c EXCEPT !.steps = Tail(@)]
<1>1. /\ state[s] = "busy" /\ c.steps # <<>> /\ NextStep(s) = Head(c.steps) /\ NextStep(s).kind = "select"
      /\ device' = [device EXCEPT !.selected[s] = a] /\ book' = [book EXCEPT ![s] = a]
      /\ call' = [call EXCEPT ![s] = d]
      /\ UNCHANGED <<fixedVars, state, stats, delivered, unsure, faults>>
  BY DEF SelectAddress, AtStep, NextStep, Rest, driverVars
<1>2. IsCall(s, c) /\ I2cCall(c, device.selected[s]) /\ device \in I2cDevices
      /\ c.request.address \in Addresses /\ book[s] = device.selected[s]
  BY <1>1, BusyCall
<1>3. Selecting(c) /\ a = c.request.address /\ Ahead(c) = Tail(c.steps) /\ Ahead(c) \in Seq(I2cStepSet)
  BY <1>1, <1>2 DEF Selecting, Ahead, I2cCall
<1>4. /\ IsCall(s, d) /\ d.request = c.request /\ d.before = c.before /\ d.sole = c.sole
      /\ d.steps = Ahead(c) /\ d.read = c.read /\ d.failed = c.failed
  <2>1. d = GoneOn(c, Tail(c.steps), c.read, c.failed)
    BY <1>2, GoneOnIs
  <2>. HIDE DEF c, d
  <2>. QED BY <1>2, <1>3, <2>1, GoneOnFacts
<1>. HIDE DEF d, a
<1>5. ~ Selecting(d) /\ Ahead(d) = Ahead(c)
  <2>1. d.steps \in Seq(I2cStepSet)
    BY <1>3, <1>4
  <2>. QED BY <1>4, <2>1, NoSelecting
<1>6. /\ device' \in I2cDevices /\ device'.memory = device.memory /\ device'.pointer = device.pointer
      /\ device'.selected[s] = a /\ \A t \in Sessions \ {s} : device'.selected[t] = device.selected[t]
  <2>1. a \in Addresses
    BY <1>2, <1>3
  <2>. QED BY <1>1, <1>2, <2>1 DEF I2cDevices
<1>7. book'[s] = a /\ OfSessions(book)' /\ OfSessions(unsure)' /\ \A t \in Sessions \ {s} : book'[t] = book[t]
  BY <1>1 DEF Base, OfSessions
<1>8. I2cCall(d, device'.selected[s])
  BY <1>2, <1>3, <1>4, <1>5, <1>6 DEF I2cCall
<1>9. /\ Others(s) /\ Shaped /\ call'[s] = d
      /\ \A t \in Sessions \ {s} : call'[t] = call[t]
  BY <1>1, <1>7, StepFacts
<1>10. a # book[s] => s \in Controllers
  BY <1>1, <1>3 DEF I2cType
<1>. QED BY <1>1, <1>4, <1>5, <1>6, <1>7, <1>8, <1>9, <1>10 DEF I2cGoesOn

\* A call between two transfers has made the first of those ahead of it.
LEMMA I2cTransfers ==
    ASSUME Base, I2cType, OnI2c, NEW s \in Sessions, MakeTransfer(s)
    PROVE  LET steps == Ahead(call[s])
           IN  /\ steps # <<>> /\ Plays(Head(steps)) /\ I2cGoesOn(s, Tail(steps))
               /\ Now(call'[s], device') = Did(Now(call[s], device), Head(steps))
               /\ delivered'[s] = delivered[s] + Head(steps).carries
               /\ \A b \in Addresses \ {call[s].request.address} : device'.memory[b] = device.memory[b]
               /\ \A t \in Sessions \ {s} : state[t] = "busy" => call'[t].sole = FALSE
               /\ device'.selected = device.selected
<1>. DEFINE c == call[s]
            a == c.request.address
            step == Head(c.steps)
            done == MessageDone(device.memory[a], device.pointer[a], step)
            d == [[c EXCEPT !.steps = Tail(@)] EXCEPT !.read = @ \o done.read]
            y == Did(Now(c, device), step)
<1>1. state[s] = "busy" /\ c.steps # <<>> /\ step.kind \in {"transfer", "block"} /\ NextStep(s) = step
      /\ book' = book /\ unsure' = unsure
  BY DEF MakeTransfer, AtStep, NextStep
<1>2. IsCall(s, c) /\ I2cCall(c, device.selected[s]) /\ device \in I2cDevices /\ a \in Addresses
      /\ book[s] = device.selected[s]
  BY <1>1, BusyCall
<1>3. ~ Selecting(c) /\ Ahead(c) = c.steps /\ c.steps \in Seq(I2cStepSet) /\ device.selected[s] = a
      /\ c.read \in Seq(Registers)
  BY <1>1, <1>2 DEF Selecting, Ahead, I2cCall
<1>4. Touch(s, [device EXCEPT !.memory[a] = done.memory, !.pointer[a] = done.pointer], step.carries, d)
  BY <1>1, <1>3 DEF MakeTransfer, Rest, NextStep
<1>5. y.memory = done.memory /\ y.pointer = done.pointer /\ y.read = c.read \o done.read
  BY DEF Did, Now
<1>. HIDE DEF done
<1>6. step \in I2cStepSet /\ Plays(step) /\ IsMessage(step) /\ Tail(c.steps) \in Seq(I2cStepSet)
  <2>1. step \in I2cStepSet /\ Tail(c.steps) \in Seq(I2cStepSet)
    BY <1>1, <1>3
  <2>2. Plays(step)
    BY <1>1 DEF Plays
  <2>. QED BY <2>1, <2>2, StepIsMessage
<1>7. y \in Results
  <2>1. Now(c, device) \in Results
    BY <1>2, <1>3, NowType
  <2>2. RegisterCount \in Nat \ {0}
    BY I2cAssumption
  <2>. QED BY <1>6, <2>1, <2>2, DidFacts
<1>8. d = GoneOn(c, Tail(c.steps), y.read, c.failed)
  <2>1. [[c EXCEPT !.steps = Tail(c.steps)] EXCEPT !.read = y.read] = GoneOn(c, Tail(c.steps), y.read, c.failed)
    BY <1>2, GoneOnIs
  <2>2. [c EXCEPT !.steps = Tail(c.steps)].read = c.read
    BY <1>2 DEF IsCall, IsRecord
  <2>. QED BY <1>5, <2>1, <2>2
<1>. HIDE DEF d
<1>9. /\ IsCall(s, d) /\ d.request = c.request /\ d.before = c.before /\ d.sole = c.sole
      /\ d.steps = Tail(c.steps) /\ d.read = y.read /\ d.failed = c.failed
  BY <1>2, <1>8, GoneOnFacts
<1>. HIDE DEF y, c
<1>10. /\ Others(s)
       /\ OfSessions(state)' /\ OfSessions(book)' /\ OfSessions(call)' /\ OfSessions(stats)'
       /\ OfSessions(delivered)'
       /\ device' = [device EXCEPT !.memory[a] = done.memory, !.pointer[a] = done.pointer]
       /\ delivered'[s] = delivered[s] + step.carries /\ call'[s] = d
       /\ \A t \in Sessions \ {s} : state[t] = "busy" =>
                call'[t] = [call[t] EXCEPT !.sole = call[t].before = NoBook]
       /\ UNCHANGED <<state, stats, faults>>
  BY <1>1, <1>4, TouchFacts
<1>11. /\ device' \in I2cDevices /\ device'.selected = device.selected
       /\ device'.memory[a] = y.memory /\ device'.pointer[a] = y.pointer
       /\ \A b \in Addresses \ {a} : device'.memory[b] = device.memory[b]
  <2>1. y.memory \in Memories /\ y.pointer \in Registers
    BY <1>7 DEF Results
  <2>2. PICK p, m, i, l : device = [adapter |-> p, memory |-> m, pointer |-> i, selected |-> l]
        /\ p \in Adapters /\ m \in [Addresses -> Memories] /\ i \in [Addresses -> Registers]
        /\ l \in [Sessions -> Addresses \cup {NoBook}]
    BY <1>2, DeviceFacts
  <2>3. device' = [adapter |-> p, memory |-> [m EXCEPT ![a] = y.memory],
                   pointer |-> [i EXCEPT ![a] = y.pointer], selected |-> l]
    BY <1>5, <1>10, <2>2
  <2>4. [m EXCEPT ![a] = y.memory] \in [Addresses -> Memories]
        /\ [i EXCEPT ![a] = y.pointer] \in [Addresses -> Registers]
    BY <1>2, <2>1, <2>2
  <2>5. device' \in I2cDevices
    BY <2>2, <2>3, <2>4 DEF I2cDevices, Memories
  <2>. QED BY <1>2, <2>2, <2>3, <2>5
<1>12. Now(d, device') = y
  <2>1. y = [memory |-> y.memory, pointer |-> y.pointer, read |-> y.read]
    BY <1>7 DEF Results
  <2>. QED BY <1>9, <1>11, <2>1 DEF Now
<1>13. ~ Selecting(d) /\ Ahead(d) = Tail(c.steps)
  BY <1>6, <1>9, NoSelecting
<1>14. I2cCall(d, device'.selected[s])
  <2>1. y.read \in Seq(Registers)
    BY <1>7 DEF Results
  <2>. QED BY <1>2, <1>3, <1>6, <1>9, <1>11, <1>13, <2>1 DEF I2cCall
<1>15. \A t \in Sessions \ {s} : state[t] = "busy" => call'[t].sole = FALSE
  <2>. SUFFICES ASSUME NEW t \in Sessions \ {s}, state[t] = "busy"
                PROVE  call'[t].sole = FALSE
    OBVIOUS
  <2>1. IsCall(t, call[t]) /\ call[t].before # NoBook
    BY BusyCall, I2cAssumption DEF I2cCall
  <2>. QED BY <1>10, <2>1 DEF IsCall, IsRecord
<1>16. Shaped
  BY <1>1, <1>10 DEF Shaped, Base, OfSessions
<1>17. I2cGoesOn(s, Tail(c.steps))
  BY <1>1, <1>2, <1>9, <1>10, <1>11, <1>13, <1>14, <1>16 DEF I2cGoesOn, c
<1>18. Now(call'[s], device') = Did(Now(call[s], device), step)
  BY <1>10, <1>12 DEF y, c
<1>. QED BY <1>1, <1>3, <1>6, <1>10, <1>11, <1>15, <1>17, <1>18 DEF c

\* A block that gives way to its bytes leaves the call the same result.
LEMMA I2cBlockGivesWay ==
    ASSUME Base, I2cType, OnI2c, NEW s \in Sessions, BlockGivesWay(s)
    PROVE  LET steps == Ahead(call[s])
               ahead == Ahead(call'[s])
           IN  /\ steps # <<>> /\ Head(steps).kind = "block"
               /\ ahead = ReadSequence(Head(steps).write[1], Head(steps).read) \o Tail(steps)
               /\ I2cGoesOn(s, ahead)
               /\ Now(call'[s], device') = Now(call[s], device)
               /\ \A x \in Results : Ran(x, ahead) = Ran(x, steps)
               /\ NoRefusal(ahead) => NoRefusal(steps)
               /\ device' = device /\ delivered' = delivered
               /\ \A t \in Sessions \ {s} : call'[t] = call[t]
<1>. DEFINE c == call[s]
            step == Head(c.steps)
            ahead == ReadSequence(step.write[1], step.read) \o Tail(c.steps)
            d == [c EXCEPT !.steps = ahead]
<1>1. /\ state[s] = "busy" /\ c.steps # <<>> /\ step.kind = "block"
      /\ call' = [call EXCEPT ![s].steps = ReadSequence(step.write[1], step.read) \o Tail(@)]
      /\ UNCHANGED <<fixedVars, device, state, book, stats, delivered, unsure, faults>>
  BY DEF BlockGivesWay, AtStep, NextStep, driverVars
<1>2. IsCall(s, c) /\ I2cCall(c, device.selected[s]) /\ device \in I2cDevices
      /\ book[s] = device.selected[s]
  BY <1>1, BusyCall
<1>3. ~ Selecting(c) /\ Ahead(c) = c.steps /\ c.steps \in Seq(I2cStepSet)
      /\ c.read \in Seq(Registers) /\ device.selected[s] = c.request.address
  BY <1>1, <1>2 DEF Selecting, Ahead, I2cCall
<1>4. call' = [call EXCEPT ![s] = d]
  BY <1>1
<1>5. d = GoneOn(c, ahead, c.read, c.failed)
  BY <1>2, GoneOnIs
<1>. HIDE DEF d, ahead
<1>6. /\ IsCall(s, d) /\ d.request = c.request /\ d.before = c.before /\ d.sole = c.sole
      /\ d.steps = ahead /\ d.read = c.read /\ d.failed = c.failed
  BY <1>2, <1>5, GoneOnFacts
<1>7. /\ ahead \in Seq(I2cStepSet) /\ (NoRefusal(ahead) => NoRefusal(c.steps))
      /\ \A x \in Results : Ran(x, ahead) = Ran(x, c.steps)
  <2>1. RegisterCount \in Nat \ {0}
    BY I2cAssumption
  <2>2. ASSUME NEW x \in Results
        PROVE  ahead \in Seq(I2cStepSet) /\ (NoRefusal(ahead) => NoRefusal(c.steps)) /\ Ran(x, ahead) = Ran(x, c.steps)
    BY <1>1, <1>3, <2>1, RanOfBlock DEF ahead
  <2>3. Now(c, device) \in Results
    <3>1. c.request.address \in Addresses
      BY <1>1, BusyCall
    <3>. QED BY <1>2, <1>3, <3>1, NowType
  <2>. QED BY <2>2, <2>3
<1>8. ~ Selecting(d) /\ Ahead(d) = ahead
  BY <1>6, <1>7, NoSelecting
<1>9. OfSessions(book)' /\ OfSessions(unsure)' /\ \A t \in Sessions \ {s} : book'[t] = book[t]
  BY <1>1 DEF Base, OfSessions
<1>10. Others(s) /\ Shaped /\ call'[s] = d /\ \A t \in Sessions \ {s} : call'[t] = call[t]
  BY <1>1, <1>4, <1>9, StepFacts
<1>11. I2cCall(d, device.selected[s])
  BY <1>2, <1>3, <1>6, <1>7, <1>8 DEF I2cCall
<1>12. I2cGoesOn(s, ahead)
  BY <1>1, <1>2, <1>6, <1>8, <1>10, <1>11 DEF I2cGoesOn
<1>13. Now(call'[s], device') = Now(c, device)
  BY <1>1, <1>6, <1>10 DEF Now
<1>. QED BY <1>1, <1>3, <1>7, <1>8, <1>10, <1>12, <1>13 DEF ahead

-----------------------------------------------------------------------------
(* Every step keeps the sessions in shape *)

\* A step of a session, and of nobody else.
Advance(s) ==
    /\ Others(s) /\ Shaped
    /\ state'[s] \in SessionStates
    /\ state'[s] = "busy" => IsCall(s, call'[s])

\* Such a step keeps the calls in shape.
LEMMA AdvanceKeepsBase ==
    ASSUME Base, NEW s \in Sessions, Advance(s)
    PROVE  Base'
<1>1. interface' = interface /\ backend' = backend /\ access' = access
  BY DEF Advance, Others, fixedVars
<1>2. OfSessions(state)' /\ \A t \in Sessions : state'[t] \in SessionStates
  BY StateShape DEF Advance, Others, Shaped
<1>3. ASSUME NEW t \in Sessions, state'[t] = "busy"
      PROVE  IsCall(t, call[t])'
  <2>1. IsCall(t, call'[t])
    <3>1. CASE t = s
      BY <1>3, <3>1 DEF Advance
    <3>2. CASE t # s
      <4>1. state[t] = "busy" /\ SameCall(call[t], call'[t])
        BY <1>3, <3>2 DEF Advance, Others
      <4>2. IsCall(t, call[t])
        BY <4>1 DEF Base
      <4>. QED BY <4>1, <4>2, SameCallFacts
    <3>. QED BY <3>1, <3>2
  <2>. QED BY <1>1, <2>1 DEF IsCall
<1>4. state' \in [Sessions -> SessionStates]
  BY <1>2 DEF OfSessions
<1>. QED BY <1>1, <1>3, <1>4 DEF Base, Advance, Shaped

LEMMA QuietKeepsBase ==
    ASSUME Base, UNCHANGED <<fixedVars, state, book, call, stats, delivered, unsure>>
    PROVE  Base'
BY DEF Base, IsCall, IsRecord, OfSessions, fixedVars

\* A session goes on with its call: these steps are left of it.
Continues(s, steps) ==
    /\ Others(s) /\ Shaped /\ state[s] = "busy" /\ state' = state
    /\ UNCHANGED <<stats, faults>>
    /\ IsCall(s, call'[s]) /\ call'[s].steps = steps
    /\ call'[s].request = call[s].request /\ call'[s].read = call[s].read
    /\ call'[s].failed = call[s].failed

LEMMA RestFacts ==
    ASSUME Base, NEW s \in Sessions, state[s] = "busy"
    PROVE  LET d == Rest(s)
           IN  /\ IsCall(s, d) /\ d.request = call[s].request /\ d.steps = Tail(call[s].steps)
               /\ d.read = call[s].read /\ d.failed = call[s].failed
<1>1. IsCall(s, call[s])
  BY DEF Base
<1>2. Rest(s) = GoneOn(call[s], Tail(call[s].steps), call[s].read, call[s].failed)
  BY <1>1, GoneOnIs DEF Rest
<1>. QED BY <1>1, <1>2, GoneOnFacts

LEMMA PassFacts ==
    ASSUME Base, NEW s \in Sessions, state[s] = "busy", call' = [call EXCEPT ![s] = Rest(s)],
           UNCHANGED <<fixedVars, state, stats, delivered, faults>>, OfSessions(book)', OfSessions(unsure)',
           \A t \in Sessions \ {s} : book'[t] = book[t]
    PROVE  /\ Continues(s, Tail(call[s].steps)) /\ Advance(s)
           /\ \A t \in Sessions \ {s} : call'[t] = call[t]
<1>. DEFINE d == Rest(s)
<1>1. /\ IsCall(s, d) /\ d.request = call[s].request /\ d.steps = Tail(call[s].steps)
      /\ d.read = call[s].read /\ d.failed = call[s].failed
  BY RestFacts
<1>. HIDE DEF d
<1>2. call' = [call EXCEPT ![s] = d]
  BY DEF d
<1>3. /\ Others(s) /\ Shaped /\ call'[s] = d
      /\ \A t \in Sessions \ {s} : call'[t] = call[t]
  BY <1>2, StepFacts
<1>. QED BY <1>1, <1>3, StateShape DEF Continues, Advance

LEMMA TouchRestFacts ==
    ASSUME Base, NEW s \in Sessions, state[s] = "busy", NEW d, NEW carried,
           Touch(s, d, carried, Rest(s)), book' = book, OfSessions(unsure)'
    PROVE  /\ Continues(s, Tail(call[s].steps)) /\ Advance(s)
           /\ device' = d /\ delivered'[s] = delivered[s] + carried
<1>1. /\ IsCall(s, Rest(s)) /\ Rest(s).request = call[s].request /\ Rest(s).steps = Tail(call[s].steps)
      /\ Rest(s).read = call[s].read /\ Rest(s).failed = call[s].failed
  BY RestFacts
<1>2. /\ Others(s)
      /\ OfSessions(state)' /\ OfSessions(book)' /\ OfSessions(call)' /\ OfSessions(stats)'
      /\ OfSessions(delivered)'
      /\ device' = d /\ delivered'[s] = delivered[s] + carried /\ call'[s] = Rest(s)
      /\ UNCHANGED <<state, stats, faults>>
  BY TouchFacts
<1>3. Shaped
  BY <1>2 DEF Shaped
<1>. QED BY <1>1, <1>2, <1>3, StateShape DEF Continues, Advance

\* Opening, ending, closing and dropping are such steps,
LEMMA LifeAdvances ==
    ASSUME Base, NEW s \in Sessions,
           \/ \E d, b : Bind(s, d, b) /\ (unsure' = unsure \/ \E U : unsure' = [unsure EXCEPT ![s] = U])
           \/ MarkClosed(s)
           \/ \E d : Drop(s, d)
           \/ \E r \in Requests[s][interface] : \E steps : BeginCall(s, r, steps)
           \/ Fail(s)
           \/ \E b : Succeed(s, b) /\ OfSessions(unsure)'
    PROVE  Advance(s)
<1>1. ASSUME NEW d, NEW b, Bind(s, d, b), unsure' = unsure \/ \E U : unsure' = [unsure EXCEPT ![s] = U]
      PROVE  Advance(s)
  BY <1>1, BindFacts DEF Advance, SessionStates
<1>2. CASE MarkClosed(s)
  BY <1>2, MarkClosedFacts DEF Advance, SessionStates
<1>3. ASSUME NEW d, Drop(s, d) PROVE Advance(s)
  BY <1>3, DropFacts DEF Advance, SessionStates
<1>4. ASSUME NEW r \in Requests[s][interface], NEW steps, BeginCall(s, r, steps) PROVE Advance(s)
  BY <1>4, BeginFacts DEF Advance, SessionStates
<1>5. CASE Fail(s)
  BY <1>5, FailFacts DEF Advance, SessionStates
<1>6. ASSUME NEW b, Succeed(s, b), OfSessions(unsure)' PROVE Advance(s)
  <2>1. Shaped
    BY <1>6, SucceedFacts DEF Shaped
  <2>. QED BY <1>6, <2>1, SucceedFacts DEF Advance, SessionStates
<1>. QED BY <1>1, <1>2, <1>3, <1>4, <1>5, <1>6

-----------------------------------------------------------------------------
(* Serial sessions *)

\* What was read of a field that is set is not sure any more.
LEMMA DisturbedFacts ==
    ASSUME NEW c, IsRecord(c), NEW f
    PROVE  LET d == Disturbed(c, f)
           IN  /\ IsRecord(d) /\ d.request = c.request /\ d.steps = c.steps /\ d.read = c.read
               /\ d.failed = c.failed /\ d.sure = c.sure \ {f}
<1>. DEFINE left == c.sure \ {f}
            d == [c EXCEPT !.sure = left]
<1>. HIDE DEF left
<1>1. d = [request |-> c.request, steps |-> c.steps, read |-> c.read, failed |-> c.failed,
           before |-> c.before, sole |-> c.sole, sure |-> left]
  BY DEF IsRecord
<1>. HIDE DEF d
<1>2. /\ IsRecord(d) /\ d.request = c.request /\ d.steps = c.steps /\ d.read = c.read
      /\ d.failed = c.failed /\ d.sure = left
  BY <1>1 DEF IsRecord
<1>3. Disturbed(c, f) = d
  BY DEF Disturbed, d, left
<1>. QED BY <1>2, <1>3 DEF left

\* A call that has read a field.
Got(c, f, v) == [[c EXCEPT !.steps = Tail(@)] EXCEPT !.read = Noted(@, f, v), !.sure = @ \cup {f}]

LEMMA GotFacts ==
    ASSUME NEW c, IsRecord(c), NEW f, NEW v
    PROVE  LET d == Got(c, f, v)
           IN  /\ IsRecord(d) /\ d.request = c.request /\ d.steps = Tail(c.steps) /\ d.failed = c.failed
               /\ d.read = Noted(c.read, f, v) /\ d.sure = c.sure \cup {f}
<1>. DEFINE rest == Tail(c.steps)
            e == [c EXCEPT !.steps = rest]
            read == Noted(c.read, f, v)
            sure == c.sure \cup {f}
            d == [e EXCEPT !.read = read, !.sure = sure]
<1>1. e = [request |-> c.request, steps |-> rest, read |-> c.read, failed |-> c.failed,
           before |-> c.before, sole |-> c.sole, sure |-> c.sure]
  <2>. HIDE DEF rest
  <2>. QED BY DEF IsRecord
<1>2. Got(c, f, v) = d
  <2>1. e.read = c.read /\ e.sure = c.sure
    BY <1>1
  <2>. HIDE DEF read, sure
  <2>2. Noted(e.read, f, v) = read /\ e.sure \cup {f} = sure
    BY <2>1 DEF read, sure
  <2>. HIDE DEF e
  <2>3. [e EXCEPT !.read = Noted(e.read, f, v), !.sure = e.sure \cup {f}] = d
    BY <2>2
  <2>. QED BY <2>3 DEF Got, e
<1>. HIDE DEF rest, e, read, sure
<1>3. d = [request |-> c.request, steps |-> rest, read |-> read, failed |-> c.failed,
           before |-> c.before, sole |-> c.sole, sure |-> sure]
  <2>. DEFINE g == [e EXCEPT !.read = read]
  <2>1. g = [request |-> c.request, steps |-> rest, read |-> read, failed |-> c.failed,
             before |-> c.before, sole |-> c.sole, sure |-> c.sure]
    BY <1>1
  <2>2. d = [g EXCEPT !.sure = sure]
    OBVIOUS
  <2>. HIDE DEF g, d
  <2>. QED BY <2>1, <2>2
<1>. HIDE DEF d
<1>4. /\ IsRecord(d) /\ d.request = c.request /\ d.steps = rest /\ d.failed = c.failed
      /\ d.read = read /\ d.sure = sure
  BY <1>3 DEF IsRecord
<1>. QED BY <1>2, <1>4 DEF rest, read, sure

\* A field is set: what anybody read of it is not sure any more.
LEMMA SerialSets ==
    ASSUME Base, NEW s \in Sessions, SetStep(s)
    PROVE  /\ Continues(s, Tail(call[s].steps)) /\ Advance(s) /\ UNCHANGED <<book, delivered>>
           /\ call'[s] = Disturbed(Rest(s), NextStep(s).field)
           /\ \A t \in Sessions \ {s} :
                call'[t] = IF InCall(t) THEN Disturbed(call[t], NextStep(s).field) ELSE call[t]
           /\ unsure' = Unsure({NextStep(s).field})
           /\ \E v \in Granted(NextStep(s).field, NextStep(s).value) :
                device' = [device EXCEPT !.settings[NextStep(s).field] = v]
<1>. DEFINE f == NextStep(s).field
<1>1. /\ OnSerial /\ state[s] = "busy"
      /\ \E v \in Granted(f, NextStep(s).value) : device' = [device EXCEPT !.settings[f] = v]
      /\ call' = [t \in Sessions |->
                      IF t = s THEN Disturbed(Rest(s), f)
                      ELSE IF InCall(t) THEN Disturbed(call[t], f)
                      ELSE call[t]]
      /\ unsure' = Unsure({f})
      /\ UNCHANGED <<fixedVars, state, book, stats, delivered, faults>>
  BY DEF SetStep, AtStep
<1>. HIDE DEF f
<1>2. OfSessions(call') /\ call'[s] = Disturbed(Rest(s), f)
      /\ \A t \in Sessions \ {s} : call'[t] = IF InCall(t) THEN Disturbed(call[t], f) ELSE call[t]
  BY <1>1 DEF OfSessions
<1>3. OfSessions(unsure')
  BY <1>1 DEF Unsure, OfSessions
<1>4. Others(s)
  <2>1. \A t \in Sessions \ {s} : SameCall(call[t], call'[t])
    BY <1>1, <1>2 DEF SameCall
  <2>. QED BY <1>1, <2>1 DEF Others
<1>5. Shaped
  <2>1. OfSessions(state)' /\ OfSessions(book)' /\ OfSessions(stats)' /\ OfSessions(delivered)'
    BY <1>1, StateShape DEF Base, OfSessions
  <2>. QED BY <1>2, <1>3, <2>1 DEF Shaped, OfSessions
<1>6. IsCall(s, call'[s]) /\ call'[s].steps = Tail(call[s].steps) /\ call'[s].request = call[s].request
      /\ call'[s].read = call[s].read /\ call'[s].failed = call[s].failed
  <2>. DEFINE d == Rest(s)
  <2>1. /\ IsCall(s, d) /\ d.request = call[s].request /\ d.steps = Tail(call[s].steps)
        /\ d.read = call[s].read /\ d.failed = call[s].failed
    BY <1>1, RestFacts
  <2>2. SameCall(d, call'[s])
    BY <1>1, <1>2 DEF SameCall
  <2>. HIDE DEF d
  <2>. QED BY <2>1, <2>2, SameCallFacts
<1>7. Continues(s, Tail(call[s].steps))
  BY <1>1, <1>4, <1>5, <1>6 DEF Continues
<1>8. Advance(s)
  BY <1>1, <1>4, <1>5, <1>6, StateShape DEF Advance
<1>. QED BY <1>1, <1>2, <1>7, <1>8 DEF f

LEMMA SerialSends ==
    ASSUME Base, NEW s \in Sessions, Send(s)
    PROVE  /\ Continues(s, Tail(call[s].steps)) /\ Advance(s) /\ book' = book
           /\ delivered'[s] = delivered[s] + NextStep(s).carries
           /\ UNCHANGED <<state, unsure, device>> /\ call'[s] = Rest(s) /\ state[s] = "busy"
           /\ \A t \in Sessions \ {s} :
                \/ call'[t] = call[t]
                \/ state[t] = "busy" /\ call'[t] = [call[t] EXCEPT !.sole = call[t].before = NoBook]
<1>1. Touch(s, device, NextStep(s).carries, Rest(s)) /\ book' = book /\ unsure' = unsure /\ state[s] = "busy"
  BY DEF Send, AtStep
<1>2. OfSessions(unsure)'
  BY <1>1 DEF Base, OfSessions
<1>3. /\ Continues(s, Tail(call[s].steps)) /\ Advance(s) /\ device' = device
      /\ delivered'[s] = delivered[s] + NextStep(s).carries
  BY <1>1, <1>2, TouchRestFacts
<1>4. /\ call'[s] = Rest(s) /\ UNCHANGED state
      /\ \A t \in Sessions \ {s} :
                /\ state[t] = "busy" => call'[t] = [call[t] EXCEPT !.sole = call[t].before = NoBook]
                /\ state[t] # "busy" => call'[t] = call[t]
  BY <1>1, TouchFacts
<1>. QED BY <1>1, <1>3, <1>4

\* A field is read, in a call or on the way to a session.
LEMMA SerialGets ==
    ASSUME Base, NEW s \in Sessions, GetStep(s)
    PROVE  /\ Others(s) /\ Shaped /\ Advance(s)
           /\ InCall(s) /\ call[s].steps # <<>> /\ NextStep(s).kind = "get"
           /\ UNCHANGED <<device, state, book, stats, delivered, unsure, faults>>
           /\ call'[s] = Got(call[s], NextStep(s).field, device.settings[NextStep(s).field])
           /\ \A t \in Sessions \ {s} : call'[t] = call[t]
<1>. DEFINE f == NextStep(s).field
            d == Got(call[s], f, device.settings[f])
<1>1. /\ InCall(s) /\ call[s].steps # <<>> /\ NextStep(s).kind = "get"
      /\ call' = [call EXCEPT ![s] = d]
      /\ UNCHANGED <<fixedVars, device, state, book, stats, delivered, unsure, faults>>
  BY DEF GetStep, Got, Rest, driverVars
<1>2. IsCall(s, call[s]) => IsCall(s, d)
  BY GotFacts DEF IsCall
<1>. HIDE DEF d
<1>3. OfSessions(book)' /\ OfSessions(unsure)'
  BY <1>1 DEF Base, OfSessions
<1>4. Others(s) /\ Shaped /\ call'[s] = d /\ \A t \in Sessions \ {s} : call'[t] = call[t]
  BY <1>1, <1>3, StepFacts
<1>5. Advance(s)
  <2>1. state'[s] = "busy" => IsCall(s, call'[s])
    BY <1>1, <1>2, <1>4 DEF Base
  <2>. QED BY <1>1, <1>4, <2>1, StateShape DEF Advance
<1>. QED BY <1>1, <1>4, <1>5 DEF d

\* The settings are about to be read before there is a session, or could not be.
LEMMA SerialOpening ==
    ASSUME Base, NEW s \in Sessions, OpenSpi(s) \/ OpenSpiFails(s)
    PROVE  /\ Others(s) /\ Shaped /\ Advance(s) /\ state[s] = "none"
           /\ UNCHANGED <<device, state, book, stats, delivered, unsure, faults>>
           /\ OpenSpi(s) => call'[s] = Calling([op |-> "open"], ReadBack)
           /\ OpenSpiFails(s) => call'[s] = NoCall
           /\ \A t \in Sessions \ {s} : call'[t] = call[t]
<1>1. PICK c : /\ call' = [call EXCEPT ![s] = c]
               /\ OpenSpi(s) => c = Calling([op |-> "open"], ReadBack)
               /\ OpenSpiFails(s) => c = NoCall
  <2>1. CASE OpenSpi(s) /\ ~ OpenSpiFails(s)
    BY <2>1 DEF OpenSpi
  <2>2. CASE OpenSpiFails(s)
    <3>1. ~ OpenSpi(s)
      BY <2>2 DEF OpenSpi, OpenSpiFails, Opening
    <3>2. call' = [call EXCEPT ![s] = NoCall]
      BY <2>2 DEF OpenSpiFails
    <3>. QED BY <3>1, <3>2
  <2>. QED BY <2>1, <2>2
<1>2. state[s] = "none" /\ UNCHANGED <<fixedVars, device, state, book, stats, delivered, unsure, faults>>
  BY DEF OpenSpi, OpenSpiFails, Opening, driverVars
<1>3. OfSessions(book)' /\ OfSessions(unsure)'
  BY <1>2 DEF Base, OfSessions
<1>4. Others(s) /\ Shaped /\ call'[s] = c /\ \A t \in Sessions \ {s} : call'[t] = call[t]
  BY <1>1, <1>2, <1>3, StepFacts
<1>5. Advance(s)
  BY <1>2, <1>4, StateShape DEF Advance
<1>. QED BY <1>1, <1>2, <1>4, <1>5

\* A call has ended: what it read is what is remembered.
LEMMA SerialFinishes ==
    ASSUME Base, NEW s \in Sessions, FinishSerial(s)
    PROVE  /\ Succeed(s, RememberSettings(s)) /\ Advance(s)
           /\ unsure'[s] = unsure[s] \ call[s].sure
           /\ \A t \in Sessions \ {s} : unsure'[t] = unsure[t]
<1>1. Succeed(s, RememberSettings(s)) /\ unsure' = [unsure EXCEPT ![s] = @ \ call[s].sure]
  BY DEF FinishSerial
<1>2. OfSessions(unsure)
  BY DEF Base
<1>3. OfSessions(unsure') /\ unsure'[s] = unsure[s] \ call[s].sure
      /\ \A t \in Sessions \ {s} : unsure'[t] = unsure[t]
  BY <1>1, <1>2 DEF OfSessions
<1>4. OfSessions(unsure)'
  BY <1>3 DEF OfSessions
<1>5. Advance(s)
  BY <1>1, <1>4, LifeAdvances
<1>. QED BY <1>1, <1>3, <1>5

LEMMA PassContinues ==
    ASSUME Base, NEW s \in Sessions, state[s] = "busy", Pass(s)
    PROVE  /\ Continues(s, Tail(call[s].steps)) /\ Advance(s)
           /\ UNCHANGED <<state, book, unsure, delivered, device>> /\ call'[s] = Rest(s)
           /\ \A t \in Sessions \ {s} : call'[t] = call[t]
<1>1. call' = [call EXCEPT ![s] = Rest(s)]
      /\ UNCHANGED <<fixedVars, device, state, book, stats, delivered, unsure, faults>>
  BY DEF Pass, driverVars
<1>2. OfSessions(book)' /\ OfSessions(unsure)'
  BY <1>1 DEF Base, OfSessions
<1>3. Continues(s, Tail(call[s].steps)) /\ Advance(s) /\ \A t \in Sessions \ {s} : call'[t] = call[t]
  BY <1>1, <1>2, PassFacts
<1>4. call'[s] = Rest(s)
  BY <1>1 DEF Base, OfSessions
<1>. QED BY <1>1, <1>3, <1>4

LEMMA SameUnsure ==
    ASSUME Base, unsure' = unsure
    PROVE  OfSessions(unsure)'
BY DEF Base, OfSessions

\* and so is every step of a serial call,
LEMMA SerialAdvances ==
    ASSUME Base, NEW s \in Sessions, SerialStep(s)
    PROVE  Advance(s) \/ UNCHANGED <<fixedVars, state, book, call, stats, delivered, unsure>>
<1>1. CASE SetStep(s)
  BY <1>1, SerialSets
<1>2. CASE Send(s)
  BY <1>2, SerialSends
<1>3. CASE GetStep(s) \/ OpenSpi(s) \/ OpenSpiFails(s) \/ FinishSerial(s)
  BY <1>3, SerialGets, SerialOpening, SerialFinishes
<1>4. CASE AskPort(s)
  BY <1>4, PassContinues DEF AskPort, AtStep
<1>5. CASE OpenFails(s)
  BY <1>5 DEF OpenFails, driverVars
<1>6. CASE BindSpi(s) \/ BindUart(s)
  BY <1>6, LifeAdvances DEF BindSpi, BindUart
<1>7. ASSUME NEW r \in Requests[s].spi, BeginSpi(s, r) PROVE Advance(s)
  <2>1. r \in Requests[s][interface] /\ BeginCall(s, r, SpiSteps(r))
    BY <1>7 DEF BeginSpi, OnSpi
  <2>. QED BY <2>1, LifeAdvances
<1>8. ASSUME NEW r \in Requests[s].uart, BeginUart(s, r) PROVE Advance(s)
  <2>1. r \in Requests[s][interface] /\ BeginCall(s, r, UartSteps(r))
    BY <1>8 DEF BeginUart, OnUart
  <2>. QED BY <2>1, LifeAdvances
<1>9. CASE \/ OnSerial /\ MarkClosed(s)
           \/ OnSerial /\ Drop(s, Released(s))
  BY <1>9, LifeAdvances
<1>. QED BY <1>1, <1>2, <1>3, <1>4, <1>5, <1>6, <1>7, <1>8, <1>9 DEF SerialStep, SpiStep, UartStep

-----------------------------------------------------------------------------
(* Lines, usb, i2c and the mock *)

LEMMA CdevSets ==
    ASSUME Base, NEW s \in Sessions, SetLevel(s)
    PROVE  /\ Continues(s, Tail(call[s].steps)) /\ Advance(s)
           /\ device' = [device EXCEPT !.settings["level"] = NextStep(s).value]
           /\ delivered'[s] = delivered[s] + 0
           /\ UNCHANGED <<book, unsure>>
<1>1. Touch(s, [device EXCEPT !.settings["level"] = NextStep(s).value], 0, Rest(s))
      /\ book' = book /\ unsure' = unsure /\ state[s] = "busy"
  BY DEF SetLevel, AtStep
<1>. QED BY <1>1, SameUnsure, TouchRestFacts

\* of a line,
LEMMA CdevAdvances ==
    ASSUME Base, NEW s \in Sessions, CdevStep(s)
    PROVE  Advance(s)
<1>1. CASE SetLevel(s)
  BY <1>1, CdevSets
<1>2. CASE GetLevel(s)
  BY <1>2, PassContinues DEF GetLevel, AtStep
<1>3. CASE BindCdev(s)
  BY <1>3, LifeAdvances DEF BindCdev
<1>4. ASSUME NEW r \in Requests[s].gpio, BeginCdev(s, r) PROVE Advance(s)
  <2>1. r \in Requests[s][interface] /\ BeginCall(s, r, CdevSteps(r))
    BY <1>4 DEF BeginCdev, OnCdev
  <2>. QED BY <2>1, LifeAdvances
<1>5. CASE \/ OnCdev /\ Succeed(s, book[s]) /\ UNCHANGED unsure
           \/ OnCdev /\ MarkClosed(s)
           \/ OnCdev /\ Drop(s, Released(s))
  BY <1>5, LifeAdvances, SameUnsure
<1>. QED BY <1>1, <1>2, <1>3, <1>4, <1>5 DEF CdevStep

LEMMA UsbClaims ==
    ASSUME Base, NEW s \in Sessions, TakeClaim(s)
    PROVE  /\ Continues(s, Tail(call[s].steps)) /\ Advance(s)
           /\ NextStep(s).number \in Numbers
           /\ device.claimant[NextStep(s).number] \in {NoHolder, s}
           /\ device' = Give({NextStep(s).number}, s)
           /\ delivered'[s] = delivered[s] + 0
           /\ UNCHANGED <<book, unsure>>
<1>1. Touch(s, Give({NextStep(s).number}, s), 0, Rest(s))
      /\ NextStep(s).number \in Numbers /\ device.claimant[NextStep(s).number] \in {NoHolder, s}
      /\ book' = book /\ unsure' = unsure /\ state[s] = "busy"
  BY DEF TakeClaim, AtStep
<1>. QED BY <1>1, SameUnsure, TouchRestFacts

LEMMA UsbGivesBack ==
    ASSUME Base, NEW s \in Sessions, GiveBack(s)
    PROVE  /\ Continues(s, Tail(call[s].steps)) /\ Advance(s)
           /\ NextStep(s).number \in Claimed(s)
           /\ device' = Give({NextStep(s).number}, NoHolder)
           /\ delivered'[s] = delivered[s] + 0
           /\ UNCHANGED <<book, unsure>>
<1>1. Touch(s, Give({NextStep(s).number}, NoHolder), 0, Rest(s))
      /\ NextStep(s).number \in Claimed(s)
      /\ book' = book /\ unsure' = unsure /\ state[s] = "busy"
  BY DEF GiveBack, AtStep
<1>. QED BY <1>1, SameUnsure, TouchRestFacts

LEMMA UsbExchanges ==
    ASSUME Base, NEW s \in Sessions, Exchange(s)
    PROVE  /\ Continues(s, Tail(call[s].steps)) /\ Advance(s)
           /\ \E moved \in Moved(call[s].request) : delivered'[s] = delivered[s] + moved
           /\ UNCHANGED <<device, book, unsure>>
<1>1. PICK moved \in Moved(call[s].request) : Touch(s, device, moved, Rest(s))
  BY DEF Exchange
<1>2. book' = book /\ unsure' = unsure /\ state[s] = "busy"
  BY DEF Exchange, AtStep
<1>3. Continues(s, Tail(call[s].steps)) /\ Advance(s) /\ device' = device /\ delivered'[s] = delivered[s] + moved
  BY <1>1, <1>2, SameUnsure, TouchRestFacts
<1>. QED BY <1>2, <1>3

LEMMA UsbAlternates ==
    ASSUME Base, NEW s \in Sessions, SetAlternate(s)
    PROVE  /\ Continues(s, Tail(call[s].steps)) /\ Advance(s)
           /\ UNCHANGED <<device, book, delivered, unsure>>
<1>1. call' = [call EXCEPT ![s] = Rest(s)] /\ state[s] = "busy"
      /\ UNCHANGED <<fixedVars, device, state, book, stats, delivered, unsure, faults>>
  BY DEF SetAlternate, AtStep, driverVars
<1>2. OfSessions(book)' /\ OfSessions(unsure)'
  BY <1>1 DEF Base, OfSessions
<1>. QED BY <1>1, <1>2, PassFacts

\* The alternate setting is refused, and the claim has to be given back.
LEMMA UsbTakesBack ==
    ASSUME Base, NEW s \in Sessions, AlternateFails(s)
    PROVE  LET n == NextStep(s).number
           IN  /\ Advance(s) /\ state[s] = "busy" /\ state' = state
               /\ call[s].steps # <<>> /\ NextStep(s).kind = "alternate"
               /\ call'[s].request = call[s].request
               /\ call'[s].steps = <<Step("release", n)>> /\ call'[s].failed = TRUE
               /\ unsure'[s] = unsure[s] \cup {n}
               /\ \A t \in Sessions \ {s} : unsure'[t] = unsure[t]
               /\ UNCHANGED <<device, book, stats, delivered>>
<1>. DEFINE c == call[s]
            n == NextStep(s).number
            steps == <<Step("release", n)>>
            yes == TRUE
            e == [c EXCEPT !.steps = steps]
            d == [e EXCEPT !.failed = yes]
<1>1. /\ state[s] = "busy" /\ c.steps # <<>> /\ NextStep(s).kind = "alternate"
      /\ call' = [call EXCEPT ![s].steps = steps, ![s].failed = TRUE]
      /\ unsure' = [unsure EXCEPT ![s] = @ \cup {n}]
      /\ UNCHANGED <<fixedVars, device, state, book, stats, delivered, faults>>
  BY DEF AlternateFails, AtStep
<1>2. IsCall(s, c) /\ OfSessions(call) /\ OfSessions(unsure)
  BY <1>1 DEF Base
<1>4. call' = [call EXCEPT ![s] = d]
  BY <1>1, <1>2 DEF OfSessions
<1>. HIDE DEF steps, yes
<1>3. d = GoneOn(c, steps, c.read, yes)
  <2>. HIDE DEF c
  <2>1. PICK q, p, v, f, b, o, u :
            c = [request |-> q, steps |-> p, read |-> v, failed |-> f, before |-> b, sole |-> o, sure |-> u]
    BY <1>2 DEF IsCall, IsRecord
  <2>2. c.request = q /\ c.read = v /\ c.before = b /\ c.sole = o /\ c.sure = u
    BY <2>1
  <2>4. e = [request |-> q, steps |-> steps, read |-> v, failed |-> f, before |-> b, sole |-> o, sure |-> u]
    BY <2>1
  <2>. HIDE DEF e
  <2>3. d = [request |-> q, steps |-> steps, read |-> v, failed |-> yes, before |-> b, sole |-> o, sure |-> u]
    BY <2>4
  <2>. HIDE DEF d
  <2>. QED BY <2>2, <2>3 DEF GoneOn
<1>. HIDE DEF d
<1>5. IsCall(s, d) /\ d.request = c.request /\ d.steps = steps /\ d.failed = yes
  BY <1>2, <1>3, GoneOnFacts
<1>6. OfSessions(unsure') /\ unsure'[s] = unsure[s] \cup {n} /\ \A t \in Sessions \ {s} : unsure'[t] = unsure[t]
  BY <1>1, <1>2 DEF OfSessions
<1>7. OfSessions(book)' /\ OfSessions(unsure)'
  BY <1>1, <1>6 DEF Base, OfSessions
<1>8. Others(s) /\ Shaped /\ call'[s] = d
  BY <1>1, <1>4, <1>7, StepFacts
<1>. QED BY <1>1, <1>5, <1>6, <1>8, StateShape DEF Advance, steps, yes

\* A close that releases everything, or fails at some claim.
LEMMA UsbCloses ==
    ASSUME Base, NEW s \in Sessions, CloseUsb(s) \/ CloseFails(s)
    PROVE  /\ Advance(s) /\ state[s] \in {"idle", "faulted", "closed"}
           /\ state'[s] \in {state[s], "closed"} /\ state'[s] # "busy"
           /\ book'[s] = {}
           /\ \A t \in Sessions \ {s} : unsure'[t] = unsure[t]
           /\ UNCHANGED <<call, stats, delivered>>
<1>1. CASE CloseUsb(s)
  <2>1. /\ state[s] \in {"idle", "faulted", "closed"}
        /\ book' = [book EXCEPT ![s] = {}] /\ state' = [state EXCEPT ![s] = "closed"]
        /\ UNCHANGED <<fixedVars, call, stats, delivered, unsure, faults>>
    BY <1>1 DEF CloseUsb, driverVars
  <2>2. OfSessions(state) /\ OfSessions(book)
    BY StateShape DEF Base
  <2>3. OfSessions(state') /\ state'[s] = "closed" /\ \A t \in Sessions \ {s} : state'[t] = state[t]
    BY <2>1, <2>2 DEF OfSessions
  <2>4. OfSessions(book') /\ book'[s] = {} /\ \A t \in Sessions \ {s} : book'[t] = book[t]
    BY <2>1, <2>2 DEF OfSessions
  <2>5. OfSessions(call)' /\ OfSessions(stats)' /\ OfSessions(delivered)' /\ OfSessions(unsure)'
    BY <2>1 DEF Base, OfSessions
  <2>6. Others(s) /\ Shaped
    BY <2>1, <2>3, <2>4, <2>5 DEF Others, Shaped, SameCall, OfSessions
  <2>. QED BY <2>1, <2>3, <2>4, <2>6 DEF Advance, SessionStates
<1>2. CASE CloseFails(s)
  <2>1. /\ state[s] \in {"idle", "faulted", "closed"}
        /\ book' = [book EXCEPT ![s] = {}] /\ unsure' = [unsure EXCEPT ![s] = @ \cup book[s]]
        /\ UNCHANGED <<fixedVars, state, call, stats, delivered, faults>>
    BY <1>2 DEF CloseFails
  <2>2. OfSessions(unsure) /\ OfSessions(book)
    BY DEF Base
  <2>3. OfSessions(unsure') /\ \A t \in Sessions \ {s} : unsure'[t] = unsure[t]
    BY <2>1, <2>2 DEF OfSessions
  <2>4. OfSessions(book') /\ book'[s] = {} /\ \A t \in Sessions \ {s} : book'[t] = book[t]
    BY <2>1, <2>2 DEF OfSessions
  <2>5. OfSessions(call)' /\ OfSessions(stats)' /\ OfSessions(delivered)' /\ OfSessions(state)'
    BY <2>1, StateShape DEF Base, OfSessions
  <2>6. Others(s) /\ Shaped
    BY <2>1, <2>3, <2>4, <2>5 DEF Others, Shaped, SameCall, OfSessions
  <2>. QED BY <2>1, <2>3, <2>4, <2>6 DEF Advance, SessionStates
<1>. QED BY <1>1, <1>2

\* A call that succeeds makes the session remember or forget its interface.
LEMMA UsbFinishes ==
    ASSUME Base, NEW s \in Sessions, FinishUsb(s)
    PROVE  LET r == call[s].request
               touched == IF r.op \in {"claim_interface", "release_interface"} THEN {r.number} ELSE {}
           IN  /\ Advance(s) /\ state[s] = "busy" /\ state'[s] = "idle"
               /\ call[s].steps = <<>> /\ ~ call[s].failed
               /\ book'[s] = Remember(s)
               /\ stats'[s] = Recorded(interface, stats[s], r)
               /\ unsure'[s] = unsure[s] \ touched
               /\ \A t \in Sessions \ {s} : unsure'[t] = unsure[t] /\ call'[t] = call[t]
               /\ UNCHANGED <<device, delivered>>
<1>. DEFINE r == call[s].request
<1>1. Succeed(s, Remember(s))
      /\ unsure' = [unsure EXCEPT ![s] = IF r.op \in {"claim_interface", "release_interface"}
                                         THEN @ \ {r.number} ELSE @]
  BY DEF FinishUsb
<1>2. OfSessions(unsure)
  BY DEF Base
<1>. HIDE DEF r
<1>3. OfSessions(unsure') /\ \A t \in Sessions \ {s} : unsure'[t] = unsure[t]
  BY <1>1, <1>2 DEF OfSessions
<1>4. unsure'[s] = unsure[s] \ (IF r.op \in {"claim_interface", "release_interface"} THEN {r.number} ELSE {})
  BY <1>1, <1>2 DEF OfSessions
<1>5. OfSessions(unsure)'
  BY <1>3 DEF OfSessions
<1>6. Advance(s)
  BY <1>1, <1>5, LifeAdvances
<1>. QED BY <1>1, <1>3, <1>4, <1>6, SucceedFacts DEF r

\* of a usb call,
LEMMA UsbAdvances ==
    ASSUME Base, NEW s \in Sessions, UsbStep(s)
    PROVE  Advance(s)
<1>1. CASE TakeClaim(s)
  BY <1>1, UsbClaims
<1>2. CASE SetAlternate(s)
  BY <1>2, UsbAlternates
<1>3. CASE AlternateFails(s)
  BY <1>3, UsbTakesBack
<1>4. CASE GiveBack(s)
  BY <1>4, UsbGivesBack
<1>5. CASE Exchange(s)
  BY <1>5, UsbExchanges
<1>6. CASE FinishUsb(s)
  BY <1>6, UsbFinishes
<1>7. CASE CloseUsb(s) \/ CloseFails(s)
  BY <1>7, UsbCloses
<1>8. CASE BindUsb(s)
  BY <1>8, LifeAdvances DEF BindUsb
<1>9. CASE OnUsb /\ Drop(s, Give(Claimed(s), NoHolder))
  BY <1>9, LifeAdvances
<1>10. ASSUME NEW r \in Requests[s].usb, BeginUsb(s, r) PROVE Advance(s)
  <2>1. r \in Requests[s][interface] /\ BeginCall(s, r, UsbSteps(r))
    BY <1>10 DEF BeginUsb, OnUsb
  <2>. QED BY <2>1, LifeAdvances
<1>. QED BY <1>1, <1>2, <1>3, <1>4, <1>5, <1>6, <1>7, <1>8, <1>9, <1>10 DEF UsbStep

\* A call of the mock meets an injected error, or goes on.
LEMMA MockInjects ==
    ASSUME Base, NEW s \in Sessions, Injected(s)
    PROVE  /\ Advance(s)
           /\ \A t \in Sessions \ {s} : call'[t] = call[t]
           /\ UNCHANGED <<device, book, stats, delivered, unsure>>
           /\ \/ state'[s] = "faulted"
              \/ Continues(s, Tail(call[s].steps))
<1>1. state[s] = "busy" /\ UNCHANGED <<fixedVars, device, book, stats, delivered, unsure>>
  BY DEF Injected, AtStep, driverVars
<1>2. OfSessions(book)' /\ OfSessions(unsure)' /\ OfSessions(stats)' /\ OfSessions(delivered)'
  BY <1>1 DEF Base, OfSessions
<1>3. CASE Queued(call[s].request.op)
  <2>1. state' = [state EXCEPT ![s] = "faulted"] /\ call' = [call EXCEPT ![s] = NoCall]
    BY <1>3 DEF Injected
  <2>2. OfSessions(state) /\ OfSessions(call)
    BY StateShape DEF Base
  <2>3. /\ OfSessions(state') /\ state'[s] = "faulted" /\ \A t \in Sessions \ {s} : state'[t] = state[t]
        /\ OfSessions(call') /\ \A t \in Sessions \ {s} : call'[t] = call[t]
    BY <2>1, <2>2 DEF OfSessions
  <2>4. Others(s) /\ Shaped
    BY <1>1, <1>2, <2>3 DEF Others, Shaped, SameCall, OfSessions
  <2>. QED BY <1>1, <2>3, <2>4 DEF Advance, SessionStates
<1>4. CASE ~ Queued(call[s].request.op)
  <2>1. call' = [call EXCEPT ![s] = Rest(s)] /\ UNCHANGED <<state, faults>>
    BY <1>4 DEF Injected
  <2>2. Continues(s, Tail(call[s].steps)) /\ Advance(s) /\ \A t \in Sessions \ {s} : call'[t] = call[t]
    BY <1>1, <1>2, <2>1, PassFacts
  <2>. QED BY <1>1, <2>2
<1>. QED BY <1>3, <1>4

LEMMA MockEffect ==
    ASSUME Base, NEW s \in Sessions, Effect(s)
    PROVE  LET done == RequestOutcome(call[s].request)
           IN  /\ Continues(s, Tail(call[s].steps)) /\ Advance(s) /\ done.ok
               /\ device' = [device EXCEPT !.content = done.content]
               /\ delivered'[s] = delivered[s] + done.carried
               /\ UNCHANGED <<book, unsure>>
<1>. DEFINE done == RequestOutcome(call[s].request)
<1>1. Touch(s, [device EXCEPT !.content = done.content], done.carried, Rest(s)) /\ done.ok
      /\ book' = book /\ unsure' = unsure /\ state[s] = "busy"
  BY DEF Effect, AtStep
<1>. HIDE DEF done
<1>2. /\ Continues(s, Tail(call[s].steps)) /\ Advance(s)
      /\ device' = [device EXCEPT !.content = done.content]
      /\ delivered'[s] = delivered[s] + done.carried
  BY <1>1, SameUnsure, TouchRestFacts
<1>. QED BY <1>1, <1>2 DEF done

LEMMA MockFails ==
    ASSUME Base, NEW s \in Sessions, EffectFails(s)
    PROVE  /\ Advance(s) /\ state[s] = "busy" /\ state'[s] = "faulted"
           /\ \A t \in Sessions \ {s} : call'[t] = call[t]
           /\ UNCHANGED <<book, stats, unsure>>
           /\ \/ delivered' = delivered
              \/ interface = "i2c" /\ delivered'[s] = delivered[s] + RequestOutcome(call[s].request).carried
<1>. DEFINE carried == RequestOutcome(call[s].request).carried
<1>1. /\ state[s] = "busy" /\ UNCHANGED <<fixedVars, book, stats, unsure>>
      /\ state' = [state EXCEPT ![s] = "faulted"] /\ call' = [call EXCEPT ![s] = NoCall]
  BY DEF EffectFails, AtStep
<1>2. OfSessions(book)' /\ OfSessions(unsure)' /\ OfSessions(stats)'
  BY <1>1 DEF Base, OfSessions
<1>3. OfSessions(state) /\ OfSessions(call) /\ OfSessions(delivered)
  BY StateShape DEF Base
<1>4. /\ OfSessions(state') /\ state'[s] = "faulted" /\ \A t \in Sessions \ {s} : state'[t] = state[t]
      /\ OfSessions(call') /\ \A t \in Sessions \ {s} : call'[t] = call[t]
  BY <1>1, <1>3 DEF OfSessions
<1>5. delivered' = delivered \/ (interface = "i2c" /\ delivered' = [delivered EXCEPT ![s] = @ + carried])
  BY DEF EffectFails
<1>. HIDE DEF carried
<1>6. /\ OfSessions(delivered') /\ \A t \in Sessions \ {s} : delivered'[t] = delivered[t]
      /\ delivered' = delivered \/ (interface = "i2c" /\ delivered'[s] = delivered[s] + carried)
  BY <1>3, <1>5 DEF OfSessions
<1>7. Others(s) /\ Shaped
  BY <1>1, <1>2, <1>4, <1>6 DEF Others, Shaped, SameCall, OfSessions
<1>. QED BY <1>1, <1>4, <1>6, <1>7 DEF Advance, SessionStates, carried

\* of the mock,
LEMMA MockAdvances ==
    ASSUME Base, NEW s \in Sessions, MockStep(s)
    PROVE  Advance(s) \/ UNCHANGED <<fixedVars, state, book, call, stats, delivered, unsure>>
<1>1. CASE OpenMock(s)
  BY <1>1, LifeAdvances DEF OpenMock
<1>2. CASE OpenInjected(s)
  BY <1>2 DEF OpenInjected, driverVars
<1>3. ASSUME NEW r \in Requests[s][interface], BeginMock(s, r) PROVE Advance(s)
  BY <1>3, LifeAdvances DEF BeginMock
<1>4. CASE Injected(s) \/ Effect(s) \/ EffectFails(s)
  BY <1>4, MockInjects, MockEffect, MockFails
<1>5. CASE \/ OnMock /\ Succeed(s, book[s]) /\ UNCHANGED unsure
           \/ OnMock /\ MarkClosed(s)
           \/ OnMock /\ Drop(s, device)
  BY <1>5, LifeAdvances, SameUnsure
<1>. QED BY <1>1, <1>2, <1>3, <1>4, <1>5 DEF MockStep

LEMMA I2cGoesAdvances ==
    ASSUME Base, NEW s \in Sessions, NEW ahead, I2cGoesOn(s, ahead)
    PROVE  Advance(s)
BY StateShape DEF I2cGoesOn, Advance

\* and of an i2c call.
LEMMA I2cAdvances ==
    ASSUME Base, I2cType, NEW s \in Sessions, I2cStep(s)
    PROVE  Advance(s)
<1>0. OnI2c /\ interface = "i2c"
  BY I2cOnly, Transports
<1>1. CASE BindDevice(s) \/ BindController(s)
  BY <1>1, LifeAdvances DEF BindDevice, BindController
<1>2. ASSUME NEW r \in Requests[s].i2c, BeginDeviceCall(s, r) \/ BeginControllerCall(s, r) PROVE Advance(s)
  BY <1>0, <1>2, LifeAdvances DEF BeginDeviceCall, BeginControllerCall
<1>3. CASE SelectAddress(s)
  BY <1>0, <1>3, I2cSelects, I2cGoesAdvances
<1>4. CASE MakeTransfer(s)
  <2>1. I2cGoesOn(s, Tail(Ahead(call[s])))
    BY <1>0, <1>4, I2cTransfers
  <2>. QED BY <2>1, I2cGoesAdvances
<1>5. CASE BlockGivesWay(s)
  <2>1. I2cGoesOn(s, Ahead(call'[s]))
    BY <1>0, <1>5, I2cBlockGivesWay
  <2>. QED BY <2>1, I2cGoesAdvances
<1>6. CASE \/ OnI2c /\ Succeed(s, book[s]) /\ UNCHANGED unsure
           \/ OnI2c /\ MarkClosed(s)
           \/ OnI2c /\ Drop(s, [device EXCEPT !.selected[s] = NoBook])
  BY <1>6, LifeAdvances, SameUnsure
<1>. QED BY <1>1, <1>2, <1>3, <1>4, <1>5, <1>6 DEF I2cStep

\* Every step is one of one session, or one that touches no session.
LEMMA StepAdvances ==
    ASSUME Base, I2cType, [Next]_deviceVars
    PROVE  \/ \E s \in Sessions : SessionStep(s) /\ Advance(s)
           \/ UNCHANGED <<fixedVars, state, book, call, stats, delivered, unsure>>
<1>1. CASE UNCHANGED deviceVars
  BY <1>1 DEF deviceVars, driverVars
<1>2. CASE LineChanges
  BY <1>2 DEF LineChanges, driverVars
<1>3. CASE MockTest
  BY <1>3 DEF MockTest, QueueError, ClearFaults, RemoveDevice, AttachDevice, driverVars
<1>4. ASSUME NEW s \in Sessions, SessionStep(s)
      PROVE  Advance(s) \/ UNCHANGED <<fixedVars, state, book, call, stats, delivered, unsure>>
  <2>1. CASE LinuxFails(s)
    BY <2>1, LifeAdvances DEF LinuxFails
  <2>. QED BY <1>4, <2>1, I2cAdvances, SerialAdvances, CdevAdvances, UsbAdvances, MockAdvances DEF SessionStep
<1>. QED BY <1>1, <1>2, <1>3, <1>4 DEF Next

\* Every step keeps the calls in shape.
LEMMA BaseStep ==
    ASSUME Base, I2cType, [Next]_deviceVars
    PROVE  Base'
BY StepAdvances, AdvanceKeepsBase, QuietKeepsBase

LEMMA BaseInit ==
    ASSUME Init
    PROVE  Base
<1>1. interface \in Interfaces /\ backend \in {"linux", "mock"} /\ (interface = "pwm" => backend = "mock")
  BY DEF Init, I2cInit, SerialInit, UsbInit, MockInit, Interfaces, Operations
<1>2. /\ state \in [Sessions -> SessionStates] /\ access \in [Sessions -> SessionAccess]
      /\ \A s \in Sessions : state[s] = "none"
  BY DEF Init, SessionStates
<1>3. OfSessions(book) /\ OfSessions(call) /\ OfSessions(stats) /\ OfSessions(delivered) /\ OfSessions(unsure)
  BY DEF Init, OfSessions
<1>. QED BY <1>1, <1>2, <1>3 DEF Base

-----------------------------------------------------------------------------
(* What i2c sessions hold *)

\* A step of s keeps the types if what it leaves of s has them.
LEMMA I2cTypeFrom ==
    ASSUME Base, I2cType, OnI2c, NEW s \in Sessions, Others(s), device' \in I2cDevices,
           \A t \in Sessions \ {s} : device'.selected[t] = device.selected[t],
           book'[s] = device'.selected[s],
           state'[s] = "none" => book'[s] = NoBook,
           s \notin Controllers /\ state'[s] # "none" => book'[s] = OwnAddress,
           state'[s] = "busy" => I2cCall(call'[s], device'.selected[s]) /\ (Selecting(call'[s]) => s \in Controllers)
    PROVE  I2cType'
<1>1. \A t \in Sessions \ {s} :
                /\ book'[t] = device'.selected[t]
                /\ state'[t] = "none" => book'[t] = NoBook
                /\ t \notin Controllers /\ state'[t] # "none" => book'[t] = OwnAddress
                /\ state'[t] = "busy" => I2cCall(call'[t], device'.selected[t]) /\ (Selecting(call'[t]) => t \in Controllers)
  BY I2cOthers
<1>. QED BY <1>1 DEF I2cType, I2cCall, Selecting, Ahead

LEMMA I2cTypeGoesOn ==
    ASSUME Base, I2cType, OnI2c, NEW s \in Sessions, NEW ahead, I2cGoesOn(s, ahead)
    PROVE  I2cType'
<1>1. (s \notin Controllers /\ state'[s] # "none" => book'[s] = OwnAddress) /\ state'[s] # "none"
  BY DEF I2cGoesOn, I2cType
<1>. QED BY <1>1, I2cTypeFrom DEF I2cGoesOn

\* A selection touches no memory.
LEMMA SelectedFacts ==
    ASSUME device \in I2cDevices, NEW s \in Sessions, NEW a \in Addresses \cup {NoBook},
           device' = [device EXCEPT !.selected[s] = a]
    PROVE  /\ device' \in I2cDevices /\ device'.memory = device.memory /\ device'.pointer = device.pointer
           /\ device'.selected[s] = a /\ \A t \in Sessions \ {s} : device'.selected[t] = device.selected[t]
BY DEF I2cDevices

\* Opening a session, and dropping it.
LEMMA I2cOpens ==
    ASSUME Base, I2cType, NEW s \in Sessions, BindDevice(s) \/ BindController(s)
    PROVE  /\ OnI2c /\ Others(s) /\ Shaped /\ state'[s] = "idle" /\ stats'[s] = Fresh /\ delivered'[s] = 0
           /\ state[s] = "none"
           /\ device' \in I2cDevices /\ device'.memory = device.memory /\ device'.pointer = device.pointer
           /\ book'[s] = device'.selected[s] /\ (s \notin Controllers => book'[s] = OwnAddress)
           /\ \A t \in Sessions \ {s} : device'.selected[t] = device.selected[t]
           /\ \A t \in Sessions \ {s} : call'[t] = call[t]
<1>1. OnI2c /\ device \in I2cDevices
  BY DEF I2cType, BindDevice, BindController
<1>2. CASE BindDevice(s)
  <2>1. Bind(s, [device EXCEPT !.selected[s] = OwnAddress], OwnAddress) /\ unsure' = unsure
    BY <1>2 DEF BindDevice
  <2>2. device' = [device EXCEPT !.selected[s] = OwnAddress] /\ book'[s] = OwnAddress
        /\ Others(s) /\ Shaped /\ state'[s] = "idle" /\ stats'[s] = Fresh /\ delivered'[s] = 0
        /\ state[s] = "none" /\ \A t \in Sessions \ {s} : call'[t] = call[t]
    BY <2>1, BindFacts
  <2>3. /\ device' \in I2cDevices /\ device'.memory = device.memory /\ device'.pointer = device.pointer
        /\ device'.selected[s] = OwnAddress /\ \A t \in Sessions \ {s} : device'.selected[t] = device.selected[t]
    BY <1>1, <2>2, DeviceAssumption, SelectedFacts
  <2>. QED BY <1>1, <2>2, <2>3
<1>3. CASE BindController(s)
  <2>1. Bind(s, device, NoBook) /\ unsure' = unsure /\ s \in Controllers
    BY <1>3 DEF BindController
  <2>2. /\ device' = device /\ book'[s] = NoBook /\ Others(s) /\ Shaped /\ state'[s] = "idle"
        /\ state[s] = "none" /\ stats'[s] = Fresh /\ delivered'[s] = 0
        /\ \A t \in Sessions \ {s} : call'[t] = call[t]
    BY <2>1, BindFacts
  <2>3. device.selected[s] = NoBook
    <3>. QED BY <1>1, <2>2 DEF I2cType
  <2>. QED BY <1>1, <2>1, <2>2, <2>3
<1>. QED BY <1>2, <1>3

\* A call that is made alone has left the other addresses as they were, and
\* its transfers ahead, if none is refused, end where plain ones would have.
Faithful(c, d) ==
    LET a == c.request.address
    IN  /\ \A b \in Addresses \ {a} : d.memory[b] = c.before.memory[b]
        /\ NoRefusal(Ahead(c)) =>
              Ran(Now(c, d), Ahead(c)) =
                  PlainResult(c.before.memory[a], c.before.pointer[a], c.request.messages)

\* Every call that is made alone is faithful.
I2cExact == OnI2c => \A s \in Sessions : state[s] = "busy" /\ call[s].sole => Faithful(call[s], device)

\* Selecting an address changes no memory, and leaves a call faithful.
LEMMA SameFaithful ==
    ASSUME NEW c, NEW d, Faithful(c, d), NEW e, e.memory = d.memory, e.pointer = d.pointer
    PROVE  Faithful(c, e)
<1>1. Now(c, e) = Now(c, d)
  BY DEF Now
<1>. QED BY <1>1 DEF Faithful

\* What a step leaves of the calls of the other sessions.
LEMMA I2cOthersExact ==
    ASSUME I2cExact, OnI2c, NEW s \in Sessions, Others(s),
           device'.memory = device.memory /\ device'.pointer = device.pointer,
           \A t \in Sessions \ {s} : call'[t] = call[t]
    PROVE  \A t \in Sessions \ {s} : state'[t] = "busy" /\ call'[t].sole => Faithful(call'[t], device')
<1>. SUFFICES ASSUME NEW t \in Sessions \ {s}, state'[t] = "busy", call'[t].sole
              PROVE  Faithful(call'[t], device')
  OBVIOUS
<1>1. state[t] = "busy" /\ call'[t] = call[t]
  BY DEF Others
<1>2. Faithful(call[t], device)
  BY <1>1 DEF I2cExact
<1>. QED BY <1>1, <1>2, SameFaithful

\* A step of s keeps all calls faithful if it keeps its own and the others.
LEMMA I2cExactFrom ==
    ASSUME NEW s \in Sessions,
           \A t \in Sessions \ {s} : state'[t] = "busy" /\ call'[t].sole => Faithful(call'[t], device'),
           state'[s] = "busy" /\ call'[s].sole => Faithful(call'[s], device')
    PROVE  I2cExact'
BY DEF I2cExact, Faithful, Now, Ahead, Selecting

\* The call of a session that has just begun, or made a step.
LEMMA BeginIsFaithful ==
    ASSUME Base, I2cType, OnI2c, NEW s \in Sessions, NEW r \in Requests[s].i2c,
           BeginDeviceCall(s, r) \/ BeginControllerCall(s, r)
    PROVE  Faithful(call'[s], device')
<1>. DEFINE c == call'[s]
            x == Now(c, device)
<1>1. /\ I2cCall(c, device.selected[s])
      /\ Ahead(c) = RequestSteps(device.adapter, r)
      /\ c.request = r /\ c.read = <<>> /\ c.before = device
      /\ IsI2cRequest(r) /\ ValidI2c(r) /\ device' = device
  BY I2cBegins
<1>2. device \in I2cDevices /\ r.address \in Addresses /\ c.read \in Seq(Registers)
  BY <1>1, RequestFacts DEF I2cType
<1>3. x \in Results
  BY <1>1, <1>2, NowType
<1>4. x.read = <<>> /\ x.memory = device.memory[r.address] /\ x.pointer = device.pointer[r.address]
  BY <1>1 DEF Now
<1>. HIDE DEF x, c
<1>5. RegisterCount \in Nat \ {0}
  BY I2cAssumption
<1>6. NoRefusal(RequestSteps(device.adapter, r)) =>
            Ran(x, RequestSteps(device.adapter, r)) = PlainResult(x.memory, x.pointer, r.messages)
  BY <1>1, <1>3, <1>4, <1>5, RequestIsExact
<1>7. x = Now(c, device)
  BY DEF x, c
<1>8. Faithful(c, device)
  BY <1>1, <1>4, <1>6, <1>7 DEF Faithful
<1>. QED BY <1>1, <1>8 DEF c

\* The step that selects the address does,
LEMMA SelectIsFaithful ==
    ASSUME Base, I2cType, OnI2c, NEW s \in Sessions, SelectAddress(s), Faithful(call[s], device)
    PROVE  Faithful(call'[s], device')
<1>1. /\ Ahead(call'[s]) = Ahead(call[s]) /\ call'[s].request = call[s].request /\ call'[s].before = call[s].before
      /\ call'[s].read = call[s].read /\ device'.memory = device.memory /\ device'.pointer = device.pointer
  BY I2cSelects DEF I2cGoesOn
<1>2. Now(call'[s], device') = Now(call[s], device)
  BY <1>1 DEF Now
<1>. QED BY <1>1, <1>2 DEF Faithful

\* so does a transfer,
LEMMA TransferIsFaithful ==
    ASSUME Base, I2cType, OnI2c, NEW s \in Sessions, MakeTransfer(s), Faithful(call[s], device)
    PROVE  Faithful(call'[s], device')
<1>. DEFINE steps == Ahead(call[s])
            a == call[s].request.address
            x == Now(call[s], device)
<1>1. /\ steps # <<>> /\ Plays(Head(steps)) /\ Ahead(call'[s]) = Tail(steps)
      /\ call'[s].request = call[s].request /\ call'[s].before = call[s].before
      /\ Now(call'[s], device') = Did(x, Head(steps))
      /\ \A b \in Addresses \ {a} : device'.memory[b] = device.memory[b]
      /\ state[s] = "busy"
  BY I2cTransfers DEF I2cGoesOn
<1>2. I2cCall(call[s], device.selected[s]) /\ device \in I2cDevices /\ a \in Addresses
  BY <1>1, BusyCall
<1>3. steps \in Seq(I2cStepSet) /\ call[s].read \in Seq(Registers)
  BY <1>2 DEF I2cCall
<1>4. x \in Results
  BY <1>2, <1>3, NowType
<1>. HIDE DEF steps, x
<1>5. Ran(x, steps) = Ran(Did(x, Head(steps)), Tail(steps))
      /\ Head(steps) \in I2cStepSet /\ Tail(steps) \in Seq(I2cStepSet)
  <2>1. RegisterCount \in Nat \ {0}
    BY I2cAssumption
  <2>2. Ran(x, steps) = Ran(After(x, Head(steps)), Tail(steps))
        /\ Head(steps) \in I2cStepSet /\ Tail(steps) \in Seq(I2cStepSet)
    BY <1>1, <1>3, <1>4, <2>1, RanOfFirst
  <2>. QED BY <1>1, <2>2 DEF After
<1>6. NoRefusal(Tail(steps)) => NoRefusal(steps)
  <2>. SUFFICES ASSUME NoRefusal(Tail(steps)), NEW k \in 1 .. Len(steps)
                PROVE  steps[k].kind # "refusal"
    BY DEF NoRefusal
  <2>1. CASE k = 1
    <3>1. steps[1] = Head(steps)
      BY <1>1, <1>3
    <3>. QED BY <1>1, <2>1, <3>1 DEF Plays
  <2>2. CASE k # 1
    <3>1. k - 1 \in 1 .. Len(Tail(steps)) /\ Tail(steps)[k - 1] = steps[k]
      BY <1>1, <1>3, <2>2
    <3>. QED BY <3>1 DEF NoRefusal
  <2>. QED BY <2>1, <2>2
<1>7. steps = Ahead(call[s]) /\ x = Now(call[s], device)
  BY DEF steps, x
<1>. QED BY <1>1, <1>5, <1>6, <1>7 DEF Faithful

\* and a block read.
LEMMA BlockIsFaithful ==
    ASSUME Base, I2cType, OnI2c, NEW s \in Sessions, BlockGivesWay(s), Faithful(call[s], device)
    PROVE  Faithful(call'[s], device')
<1>1. /\ I2cGoesOn(s, Ahead(call'[s])) /\ device' = device
      /\ Now(call'[s], device') = Now(call[s], device)
      /\ \A x \in Results : Ran(x, Ahead(call'[s])) = Ran(x, Ahead(call[s]))
      /\ NoRefusal(Ahead(call'[s])) => NoRefusal(Ahead(call[s]))
  BY I2cBlockGivesWay
<1>2. call'[s].request = call[s].request /\ call'[s].before = call[s].before /\ state[s] = "busy"
  BY <1>1 DEF I2cGoesOn
<1>3. Now(call[s], device) \in Results
  <2>1. I2cCall(call[s], device.selected[s]) /\ device \in I2cDevices /\ call[s].request.address \in Addresses
    BY <1>2, BusyCall
  <2>. QED BY <2>1, NowType DEF I2cCall
<1>. QED BY <1>1, <1>2, <1>3 DEF Faithful

\* The life of an i2c session: what steps do that make no transfer.
LEMMA I2cRests ==
    ASSUME Base, I2cType, OnI2c, NEW s \in Sessions,
           \/ BindDevice(s) \/ BindController(s)
           \/ Succeed(s, book[s]) /\ unsure' = unsure
           \/ MarkClosed(s) \/ Drop(s, [device EXCEPT !.selected[s] = NoBook]) \/ Fail(s)
    PROVE  /\ I2cType' /\ Others(s) /\ state'[s] # "busy"
           /\ device'.memory = device.memory /\ device'.pointer = device.pointer
           /\ \A t \in Sessions \ {s} : call'[t] = call[t]
<1>0. device \in I2cDevices
  BY DEF I2cType
<1>1. CASE BindDevice(s) \/ BindController(s)
  <2>1. /\ Others(s) /\ state'[s] = "idle"
        /\ device' \in I2cDevices /\ device'.memory = device.memory /\ device'.pointer = device.pointer
        /\ book'[s] = device'.selected[s] /\ (s \notin Controllers => book'[s] = OwnAddress)
        /\ \A t \in Sessions \ {s} : device'.selected[t] = device.selected[t]
        /\ \A t \in Sessions \ {s} : call'[t] = call[t]
    BY <1>1, I2cOpens
  <2>2. I2cType'
    BY <2>1, I2cTypeFrom
  <2>. QED BY <2>1, <2>2
<1>2. CASE Succeed(s, book[s]) /\ unsure' = unsure
  <2>1. /\ Others(s) /\ state[s] = "busy" /\ state'[s] = "idle" /\ book'[s] = book[s] /\ device' = device
        /\ \A t \in Sessions \ {s} : call'[t] = call[t]
    BY <1>2, SucceedFacts
  <2>2. book[s] = device.selected[s] /\ (s \notin Controllers => book[s] = OwnAddress)
    BY <2>1 DEF I2cType
  <2>3. I2cType'
    BY <1>0, <2>1, <2>2, I2cTypeFrom
  <2>. QED BY <2>1, <2>3
<1>3. CASE MarkClosed(s)
  <2>1. /\ Others(s) /\ state[s] # "none" /\ state'[s] = "closed" /\ UNCHANGED <<book, device, call>>
    BY <1>3, MarkClosedFacts
  <2>2. book[s] = device.selected[s] /\ (s \notin Controllers => book[s] = OwnAddress)
    BY <2>1 DEF I2cType
  <2>3. I2cType'
    BY <1>0, <2>1, <2>2, I2cTypeFrom
  <2>. QED BY <2>1, <2>3
<1>4. CASE Drop(s, [device EXCEPT !.selected[s] = NoBook])
  <2>1. /\ Others(s) /\ state'[s] = "none" /\ book'[s] = NoBook /\ call' = call
        /\ device' = [device EXCEPT !.selected[s] = NoBook]
    BY <1>4, DropFacts
  <2>2. /\ device' \in I2cDevices /\ device'.memory = device.memory /\ device'.pointer = device.pointer
        /\ device'.selected[s] = NoBook /\ \A t \in Sessions \ {s} : device'.selected[t] = device.selected[t]
    BY <1>0, <2>1, SelectedFacts
  <2>3. I2cType'
    BY <2>1, <2>2, I2cTypeFrom
  <2>. QED BY <2>1, <2>2, <2>3
<1>5. CASE Fail(s)
  <2>1. /\ Others(s) /\ state[s] = "busy" /\ state'[s] = "faulted" /\ UNCHANGED <<book, device>>
        /\ \A t \in Sessions \ {s} : call'[t] = call[t]
    BY <1>5, FailFacts
  <2>2. book[s] = device.selected[s] /\ (s \notin Controllers => book[s] = OwnAddress)
    BY <2>1 DEF I2cType
  <2>3. I2cType'
    BY <1>0, <2>1, <2>2, I2cTypeFrom
  <2>. QED BY <2>1, <2>3
<1>. QED BY <1>1, <1>2, <1>3, <1>4, <1>5

\* Every step of an i2c session keeps the types and the calls faithful.
LEMMA I2cStepKeeps ==
    ASSUME Base, I2cType, I2cExact, OnI2c, NEW s \in Sessions, I2cStep(s) \/ Fail(s)
    PROVE  I2cType' /\ I2cExact'
<1>1. CASE \/ BindDevice(s) \/ BindController(s)
           \/ Succeed(s, book[s]) /\ unsure' = unsure
           \/ MarkClosed(s) \/ Drop(s, [device EXCEPT !.selected[s] = NoBook]) \/ Fail(s)
  <2>1. /\ I2cType' /\ Others(s) /\ state'[s] # "busy"
        /\ device'.memory = device.memory /\ device'.pointer = device.pointer
        /\ \A t \in Sessions \ {s} : call'[t] = call[t]
    BY <1>1, I2cRests
  <2>2. \A t \in Sessions \ {s} : state'[t] = "busy" /\ call'[t].sole => Faithful(call'[t], device')
    BY <2>1, I2cOthersExact
  <2>. QED BY <2>1, <2>2, I2cExactFrom
<1>2. ASSUME NEW r \in Requests[s].i2c, BeginDeviceCall(s, r) \/ BeginControllerCall(s, r)
      PROVE  I2cType' /\ I2cExact'
  <2>1. /\ state'[s] = "busy" /\ Others(s)
        /\ I2cCall(call'[s], device.selected[s]) /\ (Selecting(call'[s]) => s \in Controllers)
        /\ \A t \in Sessions \ {s} : call'[t] = call[t]
        /\ UNCHANGED <<device, book>>
    BY <1>2, I2cBegins
  <2>2. Faithful(call'[s], device')
    BY <1>2, BeginIsFaithful
  <2>3. state[s] # "none" /\ device \in I2cDevices /\ book[s] = device.selected[s]
        /\ (s \notin Controllers => book[s] = OwnAddress)
    <3>1. state[s] # "none"
      BY <1>2 DEF BeginDeviceCall, BeginControllerCall, BeginCall, EnsureOpen
    <3>. QED BY <3>1 DEF I2cType
  <2>4. I2cType'
    BY <2>1, <2>3, I2cTypeFrom
  <2>5. \A t \in Sessions \ {s} : state'[t] = "busy" /\ call'[t].sole => Faithful(call'[t], device')
    BY <2>1, I2cOthersExact
  <2>. QED BY <2>2, <2>4, <2>5, I2cExactFrom
<1>3. CASE SelectAddress(s)
  <2>1. I2cGoesOn(s, Ahead(call[s]))
        /\ device'.memory = device.memory /\ device'.pointer = device.pointer
        /\ \A t \in Sessions \ {s} : call'[t] = call[t]
    BY <1>3, I2cSelects
  <2>2. Others(s) /\ state[s] = "busy" /\ call'[s].sole = call[s].sole /\ I2cType'
    BY <2>1, I2cTypeGoesOn DEF I2cGoesOn
  <2>3. \A t \in Sessions \ {s} : state'[t] = "busy" /\ call'[t].sole => Faithful(call'[t], device')
    BY <2>1, <2>2, I2cOthersExact
  <2>4. call'[s].sole => Faithful(call'[s], device')
    BY <1>3, <2>2, SelectIsFaithful DEF I2cExact
  <2>. QED BY <2>2, <2>3, <2>4, I2cExactFrom
<1>4. CASE MakeTransfer(s)
  <2>1. I2cGoesOn(s, Tail(Ahead(call[s]))) /\ \A t \in Sessions \ {s} : state[t] = "busy" => call'[t].sole = FALSE
    BY <1>4, I2cTransfers
  <2>2. state' = state /\ state[s] = "busy" /\ call'[s].sole = call[s].sole /\ I2cType'
    BY <2>1, I2cTypeGoesOn DEF I2cGoesOn
  <2>3. call'[s].sole => Faithful(call'[s], device')
    BY <1>4, <2>2, TransferIsFaithful DEF I2cExact
  <2>. QED BY <2>1, <2>2, <2>3, I2cExactFrom
<1>5. CASE BlockGivesWay(s)
  <2>1. I2cGoesOn(s, Ahead(call'[s])) /\ device' = device /\ \A t \in Sessions \ {s} : call'[t] = call[t]
    BY <1>5, I2cBlockGivesWay
  <2>2. Others(s) /\ state[s] = "busy" /\ call'[s].sole = call[s].sole /\ I2cType'
    BY <2>1, I2cTypeGoesOn DEF I2cGoesOn
  <2>3. \A t \in Sessions \ {s} : state'[t] = "busy" /\ call'[t].sole => Faithful(call'[t], device')
    BY <2>1, <2>2, I2cOthersExact
  <2>4. call'[s].sole => Faithful(call'[s], device')
    BY <1>5, <2>2, BlockIsFaithful DEF I2cExact
  <2>. QED BY <2>2, <2>3, <2>4, I2cExactFrom
<1>. QED BY <1>1, <1>2, <1>3, <1>4, <1>5 DEF I2cStep

I2cInv == Base /\ I2cType /\ I2cExact

\* The i2c part of the invariant is kept by every step of the system,
LEMMA I2cInvStep ==
    ASSUME I2cInv, [Next]_deviceVars
    PROVE  I2cInv'
<1>1. Base /\ I2cType /\ I2cExact
  BY DEF I2cInv
<1>2. Base'
  BY <1>1, BaseStep
<1>3. I2cType' /\ I2cExact'
  <2>1. CASE UNCHANGED deviceVars
    BY <1>1, <2>1 DEF deviceVars, driverVars, fixedVars, I2cType, I2cExact, OnI2c, I2cCall, Selecting, Ahead, Faithful, Now
  <2>2. CASE ~ OnI2c
    <3>1. UNCHANGED fixedVars
      BY <1>1, StepAdvances DEF Advance, Others
    <3>2. ~ OnI2c'
      BY <2>2, <3>1 DEF fixedVars, OnI2c
    <3>. QED BY <3>2 DEF I2cType, I2cExact
  <2>3. CASE OnI2c
    <3>1. ASSUME NEW s \in Sessions, I2cStep(s) \/ Fail(s)
          PROVE  I2cType' /\ I2cExact'
      BY <1>1, <2>3, <3>1, I2cStepKeeps
    <3>. QED BY <2>1, <2>3, <3>1, WhoSteps, Transports
  <2>. QED BY <2>2, <2>3
<1>. QED BY <1>2, <1>3 DEF I2cInv

\* and true at the start.
LEMMA I2cInvInit ==
    ASSUME Init
    PROVE  I2cInv
<1>1. Base
  BY BaseInit
<1>2. \A s \in Sessions : state[s] = "none" /\ book[s] = NoBook
  BY DEF Init
<1>3. I2cExact
  BY <1>2 DEF I2cExact
<1>4. ASSUME OnI2c
      PROVE  device \in I2cDevices /\ \A s \in Sessions : book[s] = device.selected[s]
  <2>1. I2cInit
    BY <1>4 DEF Init, SerialInit, UsbInit, MockInit, OnI2c
  <2>2. 0 \in Registers
    BY I2cAssumption DEF Registers
  <2>. QED BY <1>2, <2>1, <2>2 DEF I2cInit, I2cDevices
<1>5. I2cType
  BY <1>2, <1>4 DEF I2cType
<1>. QED BY <1>1, <1>3, <1>5 DEF I2cInv

\* The types of i2c sessions, and that every i2c call made alone is faithful,
\* are invariants.
THEOREM I2cInvariant == Spec => []I2cInv
<1>1. Init => I2cInv
  BY I2cInvInit
<1>2. I2cInv /\ [Next]_deviceVars => I2cInv'
  BY I2cInvStep
<1>. QED BY <1>1, <1>2, PTL DEF Spec

\* An i2c call that succeeded and was made alone has written and read what its
\* messages say, in whatever blocks and bytes the adapter made the kernel
\* transport split them (crates/lemnos-linux, the transfers of i2c sessions).
THEOREM Transferred == Spec => []TransfersAreExact
<1>1. I2cInv => TransfersAreExact
  <2>. SUFFICES ASSUME I2cInv, NEW s \in Sessions, OnI2c, Done(s), call[s].sole
                PROVE  LET r == call[s].request
                           plain == PlainResult(call[s].before.memory[r.address],
                                                call[s].before.pointer[r.address], r.messages)
                       IN  /\ device.memory = [call[s].before.memory EXCEPT ![r.address] = plain.memory]
                           /\ call[s].read = plain.read
    BY DEF TransfersAreExact
  <2>. DEFINE c == call[s]
              a == c.request.address
              x == Now(c, device)
              plain == PlainResult(c.before.memory[a], c.before.pointer[a], c.request.messages)
  <2>1. Base /\ I2cType /\ I2cExact /\ state[s] = "busy" /\ c.steps = <<>>
    BY DEF I2cInv, Done
  <2>2. I2cCall(c, device.selected[s]) /\ device \in I2cDevices /\ a \in Addresses
    BY <2>1, BusyCall
  <2>3. Ahead(c) = <<>> /\ c.read \in Seq(Registers) /\ c.before \in I2cDevices
    BY <2>1, <2>2 DEF I2cCall, Ahead, Selecting
  <2>4. x \in Results
    BY <2>2, <2>3, NowType
  <2>5. Ran(x, <<>>) = x
    BY <2>4, RanOfNone
  <2>6. Faithful(c, device)
    BY <2>1 DEF I2cExact
  <2>7. NoRefusal(<<>>)
    BY DEF NoRefusal
  <2>8. plain = x /\ \A b \in Addresses \ {a} : device.memory[b] = c.before.memory[b]
    BY <2>3, <2>5, <2>6, <2>7 DEF Faithful
  <2>9. plain.memory = device.memory[a] /\ plain.read = c.read
    BY <2>8 DEF Now
  <2>10. device.memory \in [Addresses -> Memories] /\ c.before.memory \in [Addresses -> Memories]
    BY <2>2, <2>3, DeviceFacts
  <2>. HIDE DEF plain, x
  <2>11. device.memory = [c.before.memory EXCEPT ![a] = plain.memory]
    BY <2>2, <2>8, <2>9, <2>10
  <2>. QED BY <2>9, <2>11 DEF plain
<1>. QED BY <1>1, I2cInvariant, PTL

-----------------------------------------------------------------------------
(* What serial sessions hold *)

\* The settings of a spi or uart device.
FieldNames == ToSet(Fields[interface])

Settings == [FieldNames -> Values]

\* The steps of serial calls.
SetSteppings == [kind : {"set"}, field : FieldNames, value : Values]
Gettings == {GetField(f) : f \in FieldNames}
Sendings == [kind : {"send"}, carries : Nat]
SerialStepSet == SetSteppings \cup Gettings \cup Sendings \cup {[kind |-> "ask"]}

\* The settings that steps have still to read.
Owing(steps) == {f \in FieldNames : \E k \in 1 .. Len(steps) : steps[k] = GetField(f)}

\* A call has values of settings, and of those it is sure they are so.
Reading(c, d) ==
    /\ IsRecord(c)
    /\ c.steps \in Seq(SerialStepSet) /\ c.failed = FALSE
    /\ c.read = [f \in DOMAIN c.read |-> c.read[f]]
    /\ \A f \in DOMAIN c.read : f \in FieldNames /\ c.read[f] \in Values
    /\ c.sure \subseteq DOMAIN c.read
    /\ \A f \in c.sure : c.read[f] = d.settings[f]

\* What it has not read it is about to read.
Whole(c) == FieldNames \subseteq DOMAIN c.read \cup Owing(c.steps)

\* A session in state st that remembers b, with the call c, is right about the
\* settings of the device d but for those of u: others, or a failure, may have
\* changed them since.  So is a call about those it has read.
Holds(s, st, b, c, u, d) ==
    /\ st = "none" => u = {} /\ (c # NoCall => interface = "spi" /\ Reading(c, d) /\ Whole(c))
    /\ st # "none" =>
        /\ b \in Settings
        /\ \A f \in FieldNames \ u : b[f] = d.settings[f]
        /\ interface = "uart" => d.holder = s
    /\ st \in {"idle", "faulted", "closed"} => c = NoCall
    /\ st = "busy" =>
        /\ Reading(c, d)
        /\ DOMAIN c.read \ c.sure \subseteq u
        /\ c.request.op = "configure" => Whole(c)
        /\ c.request.op # "configure" => c.sure = {} /\ Owing(c.steps) = {}

SerialSession(s) == Holds(s, state[s], book[s], call[s], unsure[s], device)

SerialInv == OnSerial =>
    /\ device \in [settings : Settings, holder : Holders]
    /\ \A s \in Sessions : SerialSession(s)

LEMMA SerialFrom ==
    ASSUME OnSerial, UNCHANGED fixedVars, device' \in [settings : Settings, holder : Holders],
           \A t \in Sessions : Holds(t, state'[t], book'[t], call'[t], unsure'[t], device')
    PROVE  SerialInv'
<1>1. interface' = interface
  BY DEF fixedVars
<1>2. FieldNames' = FieldNames
  BY <1>1 DEF FieldNames
<1>3. Settings' = Settings
  BY <1>2 DEF Settings
<1>4. Gettings' = Gettings
  BY <1>2 DEF Gettings, GetField
<1>5. SerialStepSet' = SerialStepSet
  BY <1>2, <1>4 DEF SerialStepSet, SetSteppings, Sendings
<1>6. ASSUME NEW t \in Sessions
      PROVE  SerialSession(t)'
  <2>1. Holds(t, state'[t], book'[t], call'[t], unsure'[t], device')
    OBVIOUS
  <2>2. Owing(call[t].steps)' = Owing(call'[t].steps)
    BY <1>2 DEF Owing, GetField
  <2>3. Whole(call[t])' <=> Whole(call'[t])
    BY <1>2, <2>2 DEF Whole
  <2>4. Reading(call[t], device)' <=> Reading(call'[t], device')
    BY <1>2, <1>5 DEF Reading, IsRecord
  <2>. QED BY <1>1, <1>2, <1>3, <2>1, <2>2, <2>3, <2>4 DEF SerialSession, Holds
<1>. QED BY <1>3, <1>6 DEF SerialInv

LEMMA SerialDevice ==
    ASSUME SerialInv, OnSerial
    PROVE  /\ device \in [settings : Settings, holder : Holders]
           /\ device.settings \in Settings /\ device.holder \in Holders
           /\ device = [settings |-> device.settings, holder |-> device.holder]
           /\ \A s \in Sessions : SerialSession(s)
BY DEF SerialInv

\* A session that nothing touches stays right.
LEMMA QuietHolds ==
    ASSUME NEW s, NEW st, NEW b, NEW c, NEW u, NEW d, NEW e, Holds(s, st, b, c, u, d),
           e.settings = d.settings, d.holder = s => e.holder = s
    PROVE  Holds(s, st, b, c, u, e)
<1>1. Reading(c, d) => Reading(c, e)
  BY DEF Reading
<1>. QED BY <1>1 DEF Holds

\* So does one whose call is told that another session was at the device.
LEMMA SoleHolds ==
    ASSUME NEW s, NEW st, NEW b, NEW c, NEW u, NEW d, NEW x, Holds(s, st, b, c, u, d), st = "busy"
    PROVE  Holds(s, st, b, [c EXCEPT !.sole = x], u, d)
<1>. DEFINE e == [c EXCEPT !.sole = x]
<1>1. Reading(c, d)
  BY DEF Holds
<1>2. e = [request |-> c.request, steps |-> c.steps, read |-> c.read, failed |-> c.failed,
           before |-> c.before, sole |-> x, sure |-> c.sure]
  BY <1>1 DEF Reading, IsRecord
<1>. HIDE DEF e
<1>3. /\ IsRecord(e) /\ e.request = c.request /\ e.steps = c.steps /\ e.read = c.read
      /\ e.failed = c.failed /\ e.sure = c.sure
  BY <1>2 DEF IsRecord
<1>4. Reading(e, d)
  BY <1>1, <1>3 DEF Reading
<1>5. Whole(c) => Whole(e)
  BY <1>3 DEF Whole
<1>6. Holds(s, st, b, e, u, d)
  BY <1>3, <1>4, <1>5 DEF Holds
<1>. QED BY <1>6 DEF e

\* What a step of s that sets nothing leaves to the other sessions.
LEMMA OthersHold ==
    ASSUME SerialInv, OnSerial, NEW s \in Sessions, Others(s),
           \A t \in Sessions \ {s} : unsure'[t] = unsure[t],
           \A t \in Sessions \ {s} :
                \/ call'[t] = call[t]
                \/ state[t] = "busy" /\ call'[t] = [call[t] EXCEPT !.sole = call[t].before = NoBook],
           device'.settings = device.settings,
           \A t \in Sessions \ {s} : device.holder = t => device'.holder = t
    PROVE  \A t \in Sessions \ {s} : Holds(t, state'[t], book'[t], call'[t], unsure'[t], device')
<1>. SUFFICES ASSUME NEW t \in Sessions \ {s}
              PROVE  Holds(t, state'[t], book'[t], call'[t], unsure'[t], device')
  OBVIOUS
<1>1. Holds(t, state[t], book[t], call[t], unsure[t], device)
  BY DEF SerialInv, SerialSession
<1>2. Holds(t, state[t], book[t], call[t], unsure[t], device')
  BY <1>1, QuietHolds
<1>3. Holds(t, state[t], book[t], call'[t], unsure[t], device')
  <2>1. CASE call'[t] = call[t]
    BY <1>2, <2>1
  <2>2. CASE state[t] = "busy" /\ call'[t] = [call[t] EXCEPT !.sole = call[t].before = NoBook]
    BY <1>2, <2>2, SoleHolds
  <2>. QED BY <2>1, <2>2
<1>. QED BY <1>3 DEF Others

\* A field of the device is set: what is remembered of it is not sure,
LEMMA SetUnderHolds ==
    ASSUME NEW s, NEW st, NEW b, NEW c, NEW u, NEW d, NEW e, NEW f \in FieldNames,
           Holds(s, st, b, c, u, d), st # "busy", st = "none" => c = NoCall,
           \A g \in FieldNames \ {f} : e.settings[g] = d.settings[g], e.holder = d.holder
    PROVE  Holds(s, st, b, c, IF st = "none" THEN {} ELSE u \cup {f}, e)
BY DEF Holds

\* nor is what a call has read of it.
LEMMA DisturbedHolds ==
    ASSUME NEW s, NEW st, NEW b, NEW c, NEW u, NEW d, NEW e, NEW f \in FieldNames,
           Holds(s, st, b, c, u, d), st = "busy" \/ (st = "none" /\ c # NoCall),
           \A g \in FieldNames \ {f} : e.settings[g] = d.settings[g], e.holder = d.holder
    PROVE  Holds(s, st, b, Disturbed(c, f), IF st = "none" THEN {} ELSE u \cup {f}, e)
<1>. DEFINE x == Disturbed(c, f)
            v == IF st = "none" THEN {} ELSE u \cup {f}
<1>1. Reading(c, d)
  BY DEF Holds
<1>2. IsRecord(x) /\ x.request = c.request /\ x.steps = c.steps /\ x.read = c.read
      /\ x.failed = c.failed /\ x.sure = c.sure \ {f}
  BY <1>1, DisturbedFacts DEF Reading
<1>. HIDE DEF x
<1>3. Reading(x, e)
  BY <1>1, <1>2 DEF Reading
<1>4. Whole(c) => Whole(x)
  BY <1>2 DEF Whole
<1>5. CASE st = "busy"
  <2>1. /\ b \in Settings /\ (interface = "uart" => e.holder = s)
        /\ \A g \in FieldNames \ v : b[g] = e.settings[g]
    BY <1>5 DEF Holds
  <2>2. DOMAIN x.read \ x.sure \subseteq v
    BY <1>2, <1>5 DEF Holds
  <2>3. /\ x.request.op = "configure" => Whole(x)
        /\ x.request.op # "configure" => x.sure = {} /\ Owing(x.steps) = {}
    BY <1>2, <1>4, <1>5 DEF Holds
  <2>. HIDE DEF v
  <2>4. Holds(s, st, b, x, v, e)
    BY <1>3, <1>5, <2>1, <2>2, <2>3 DEF Holds
  <2>. QED BY <2>4 DEF x, v
<1>6. CASE st = "none"
  <2>1. Whole(x)
    BY <1>4, <1>6 DEF Holds
  <2>2. Holds(s, st, b, x, v, e)
    BY <1>3, <1>6, <2>1 DEF Holds
  <2>. QED BY <2>2 DEF x, v
<1>. QED BY <1>5, <1>6

\* The steps of a call are made one by one.
LEMMA OwingFacts ==
    ASSUME NEW S, NEW steps \in Seq(S), steps # <<>>
    PROVE  /\ Owing(Tail(steps)) \subseteq Owing(steps)
           /\ Owing(steps) \subseteq Owing(Tail(steps)) \cup {f \in FieldNames : Head(steps) = GetField(f)}
<1>. DEFINE n == Len(steps)
            rest == Tail(steps)
<1>1. n \in Nat \ {0} /\ Len(rest) = n - 1 /\ Head(steps) = steps[1]
  OBVIOUS
<1>2. \A k \in 1 .. Len(rest) : rest[k] = steps[k + 1]
  OBVIOUS
<1>. HIDE DEF n, rest
<1>3. ASSUME NEW f \in Owing(rest)
      PROVE  f \in Owing(steps)
  <2>1. PICK k \in 1 .. Len(rest) : rest[k] = GetField(f)
    BY DEF Owing
  <2>2. k + 1 \in 1 .. n /\ steps[k + 1] = GetField(f)
    BY <1>1, <1>2, <2>1
  <2>. QED BY <2>2 DEF Owing, n
<1>4. ASSUME NEW f \in Owing(steps), Head(steps) # GetField(f)
      PROVE  f \in Owing(rest)
  <2>1. PICK k \in 1 .. n : steps[k] = GetField(f)
    BY DEF Owing, n
  <2>2. k - 1 \in 1 .. Len(rest) /\ k - 1 + 1 = k
    BY <1>1, <1>4, <2>1
  <2>3. rest[k - 1] = GetField(f)
    BY <1>2, <2>1, <2>2
  <2>. QED BY <2>2, <2>3 DEF Owing
<1>5. Owing(steps) \subseteq FieldNames
  BY DEF Owing
<1>. QED BY <1>3, <1>4, <1>5 DEF rest

LEMMA SerialKinds ==
    ASSUME NEW step \in SerialStepSet
    PROVE  /\ step.kind = "set" => step \in SetSteppings
           /\ step.kind = "send" => step \in Sendings
           /\ step.kind = "get" => step.field \in FieldNames /\ step = GetField(step.field)
           /\ \A f \in FieldNames : step = GetField(f) => step.kind = "get" /\ step.field = f
           /\ step.kind \in {"set", "get", "send", "ask"}
BY DEF SerialStepSet, SetSteppings, Sendings, Gettings, GetField

LEMMA RestHolds ==
    ASSUME NEW s \in Sessions, NEW b, NEW u, NEW d, Holds(s, "busy", b, call[s], u, d),
           call[s].steps # <<>>, NextStep(s).kind # "get"
    PROVE  Holds(s, "busy", b, Rest(s), u, d)
<1>. DEFINE c == call[s]
            rest == Tail(c.steps)
            e == [c EXCEPT !.steps = rest]
<1>1. Reading(c, d) /\ c.steps \in Seq(SerialStepSet) /\ c.steps # <<>> /\ Head(c.steps).kind # "get"
  BY DEF Holds, Reading, NextStep
<1>2. rest \in Seq(SerialStepSet) /\ Head(c.steps) \in SerialStepSet
  BY <1>1
<1>3. Owing(rest) = Owing(c.steps)
  <2>1. {f \in FieldNames : Head(c.steps) = GetField(f)} = {}
    BY <1>1, <1>2, SerialKinds
  <2>. QED BY <1>1, <2>1, OwingFacts
<1>. HIDE DEF rest
<1>4. e = [request |-> c.request, steps |-> rest, read |-> c.read, failed |-> c.failed,
           before |-> c.before, sole |-> c.sole, sure |-> c.sure]
  BY <1>1 DEF Reading, IsRecord
<1>5. Rest(s) = e
  BY DEF Rest, rest
<1>. HIDE DEF e
<1>6. IsRecord(e) /\ e.request = c.request /\ e.steps = rest /\ e.read = c.read /\ e.failed = c.failed
      /\ e.sure = c.sure
  BY <1>4 DEF IsRecord
<1>. HIDE DEF c
<1>7. Holds(s, "busy", b, c, u, d)
  BY DEF c
<1>8. Reading(e, d)
  BY <1>1, <1>2, <1>6 DEF Reading
<1>9. (Whole(c) => Whole(e)) /\ Owing(e.steps) = Owing(c.steps)
  BY <1>3, <1>6 DEF Whole
<1>10. Holds(s, "busy", b, e, u, d)
  BY <1>6, <1>7, <1>8, <1>9 DEF Holds
<1>. QED BY <1>5, <1>10

LEMMA GotHolds ==
    ASSUME NEW s \in Sessions, NEW st, NEW b, NEW u, NEW d, d.settings \in Settings, NEW c,
           Holds(s, st, b, c, u, d), st = "busy" \/ (st = "none" /\ c # NoCall),
           c.steps # <<>>, Head(c.steps).kind = "get"
    PROVE  LET f == Head(c.steps).field IN Holds(s, st, b, Got(c, f, d.settings[f]), u, d)
<1>. DEFINE f == Head(c.steps).field
            v == d.settings[f]
            e == Got(c, f, v)
            h == Noted(c.read, f, v)
<1>1. Reading(c, d) /\ c.steps \in Seq(SerialStepSet)
  BY DEF Holds, Reading
<1>2. Tail(c.steps) \in Seq(SerialStepSet) /\ Head(c.steps) \in SerialStepSet
  BY <1>1
<1>3. f \in FieldNames /\ Head(c.steps) = GetField(f) /\ v \in Values
      /\ \A g \in FieldNames : Head(c.steps) = GetField(g) => g = f
  BY <1>2, SerialKinds DEF Settings
<1>4. f \in Owing(c.steps) /\ Owing(c.steps) \subseteq Owing(Tail(c.steps)) \cup {f}
  <2>1. Len(c.steps) \in Nat \ {0} /\ Head(c.steps) = c.steps[1]
    BY <1>1
  <2>2. 1 \in 1 .. Len(c.steps)
    BY <2>1
  <2>3. f \in Owing(c.steps)
    BY <1>3, <2>1, <2>2 DEF Owing
  <2>. QED BY <1>1, <1>3, <2>3, OwingFacts
<1>. HIDE DEF f, v
<1>5. /\ IsRecord(e) /\ e.request = c.request /\ e.steps = Tail(c.steps) /\ e.failed = c.failed
      /\ e.read = h /\ e.sure = c.sure \cup {f}
  <2>1. IsRecord(c)
    BY <1>1 DEF Reading
  <2>. QED BY <2>1, GotFacts
<1>6. /\ DOMAIN h = DOMAIN c.read \cup {f} /\ h[f] = v
      /\ h = [x \in DOMAIN c.read \cup {f} |-> h[x]]
      /\ \A x \in DOMAIN c.read \ {f} : h[x] = c.read[x]
  BY DEF Noted
<1>. HIDE DEF e, h
<1>7. Reading(e, d)
  <2>1. e.read = [x \in DOMAIN e.read |-> e.read[x]]
    BY <1>5, <1>6
  <2>2. \A x \in DOMAIN e.read : x \in FieldNames /\ e.read[x] \in Values
    BY <1>1, <1>3, <1>5, <1>6 DEF Reading
  <2>3. e.sure \subseteq DOMAIN e.read /\ \A x \in e.sure : e.read[x] = d.settings[x]
    BY <1>1, <1>5, <1>6 DEF Reading, v
  <2>. QED BY <1>1, <1>2, <1>5, <2>1, <2>2, <2>3 DEF Reading
<1>8. Whole(c) => Whole(e)
  BY <1>4, <1>5, <1>6 DEF Whole
<1>9. DOMAIN c.read \ c.sure \subseteq u => DOMAIN e.read \ e.sure \subseteq u
  BY <1>5, <1>6
<1>10. Holds(s, st, b, e, u, d)
  <2>1. CASE st = "busy"
    <3>1. c.request.op = "configure"
      BY <1>4, <2>1 DEF Holds
    <3>. QED BY <1>5, <1>7, <1>8, <1>9, <2>1, <3>1 DEF Holds
  <2>2. CASE st = "none"
    BY <1>7, <1>8, <2>2 DEF Holds
  <2>. QED BY <2>1, <2>2
<1>. QED BY <1>10 DEF e, f, v

\* A configuration is a sequence of settings.
LEMMA SetStepsType ==
    ASSUME OnSerial, NEW fields, fields \in UNION {[D -> Values] : D \in SUBSET FieldNames},
           NEW S, SetSteppings \subseteq S
    PROVE  SetSteps(fields) \in Seq(S)
<1>. DEFINE order == Fields[interface]
            P == [k \in DOMAIN order |->
                        IF order[k] \in DOMAIN fields THEN <<SetField(order[k], fields[order[k]])>> ELSE <<>>]
<1>1. order \in Seq(STRING) /\ DOMAIN order = 1 .. Len(order) /\ Len(order) \in Nat
  BY SerialAssumption DEF OnSerial
<1>2. \A k \in DOMAIN order : order[k] \in FieldNames
  BY DEF FieldNames, ToSet
<1>. HIDE DEF order
<1>3. ASSUME NEW k \in DOMAIN order
      PROVE  P[k] \in Seq(S)
  <2>1. CASE order[k] \in DOMAIN fields
    <3>1. fields[order[k]] \in Values
      BY <2>1
    <3>2. SetField(order[k], fields[order[k]]) \in S
      BY <1>2, <3>1 DEF SetField, SetSteppings
    <3>. QED BY <2>1, <3>2
  <2>2. CASE order[k] \notin DOMAIN fields
    BY <2>2
  <2>. QED BY <2>1, <2>2
<1>4. P \in Seq(Seq(S))
  BY <1>1, <1>3
<1>5. SetSteps(fields) = FlattenSeq(P)
  BY DEF SetSteps, order
<1>. HIDE DEF P
<1>6. PICK W : IsFlat(W, S, P)
  BY <1>4, FlatFacts
<1>7. Len(P) \in Nat
  BY <1>4
<1>. QED BY <1>5, <1>6, <1>7 DEF IsFlat

LEMMA SerialRequest ==
    ASSUME OnSerial, NEW s \in Sessions, NEW r \in Requests[s][interface]
    PROVE  /\ IsSerialRequest(interface, r)
           /\ "messages" \in DOMAIN r => r.messages \in Messages(Nat)
           /\ Payload(r) \in Nat
           /\ r.op = "configure" => r.fields \in UNION {[D -> Values] : D \in SUBSET FieldNames}
<1>1. IsSerialRequest(interface, r)
  BY SerialAssumption DEF OnSerial
<1>2. "messages" \in DOMAIN r => r.messages \in Messages(Nat)
  BY <1>1 DEF IsSerialRequest, Messages
<1>. QED BY <1>1, <1>2, PayloadType DEF IsSerialRequest, FieldNames

\* The steps of a request that spi and uart sessions begin.
SerialStepsOf(r) == IF interface = "spi" THEN SpiSteps(r) ELSE UartSteps(r)

\* The settings are read in an order that has them all.
LEMMA ReadBackFacts ==
    ASSUME OnSerial
    PROVE  /\ ReadBack \in Seq(Gettings) /\ ReadBack \in Seq(SerialStepSet)
           /\ \A f \in FieldNames : \E k \in 1 .. Len(ReadBack) : ReadBack[k] = GetField(f)
<1>. DEFINE order == ReadOrder[interface]
            steps == [k \in DOMAIN order |-> GetField(order[k])]
<1>1. order \in Seq(STRING) /\ ToSet(order) = FieldNames
  BY SerialAssumption DEF OnSerial, FieldNames
<1>. HIDE DEF order
<1>2. DOMAIN order = 1 .. Len(order) /\ Len(order) \in Nat
  BY <1>1
<1>3. \A k \in DOMAIN order : order[k] \in FieldNames
  BY <1>1 DEF ToSet
<1>4. \A k \in DOMAIN order : GetField(order[k]) \in Gettings /\ GetField(order[k]) \in SerialStepSet
  BY <1>3 DEF SerialStepSet, Gettings
<1>5. steps \in Seq(Gettings) /\ steps \in Seq(SerialStepSet) /\ Len(steps) = Len(order)
  BY <1>2, <1>4
<1>6. ASSUME NEW f \in FieldNames
      PROVE  \E k \in 1 .. Len(steps) : steps[k] = GetField(f)
  <2>1. PICK k \in DOMAIN order : order[k] = f
    BY <1>1 DEF ToSet
  <2>2. k \in 1 .. Len(steps) /\ steps[k] = GetField(f)
    BY <1>2, <1>5, <2>1
  <2>. QED BY <2>2
<1>7. ReadBack = steps
  BY DEF ReadBack, order
<1>. HIDE DEF steps
<1>. QED BY <1>5, <1>6, <1>7

\* A configuration sets some, and reads all.
LEMMA ConfigureFacts ==
    ASSUME OnSerial, NEW fields, fields \in UNION {[D -> Values] : D \in SUBSET FieldNames}
    PROVE  LET steps == SetSteps(fields) \o ReadBack
           IN  steps \in Seq(SerialStepSet) /\ FieldNames \subseteq Owing(steps)
<1>. DEFINE p == SetSteps(fields)
            q == ReadBack
            steps == p \o q
<1>1. p \in Seq(SerialStepSet)
  BY SetStepsType DEF SerialStepSet
<1>2. q \in Seq(SerialStepSet) /\ \A f \in FieldNames : \E k \in 1 .. Len(q) : q[k] = GetField(f)
  BY ReadBackFacts
<1>. HIDE DEF p, q
<1>3. /\ steps \in Seq(SerialStepSet) /\ Len(steps) = Len(p) + Len(q)
      /\ \A k \in 1 .. Len(p) + Len(q) : steps[k] = IF k <= Len(p) THEN p[k] ELSE q[k - Len(p)]
  BY <1>1, <1>2, ConcatProperties
<1>4. Len(p) \in Nat /\ Len(q) \in Nat
  BY <1>1, <1>2
<1>. HIDE DEF steps
<1>5. ASSUME NEW f \in FieldNames
      PROVE  f \in Owing(steps)
  <2>1. PICK k \in 1 .. Len(q) : q[k] = GetField(f)
    BY <1>2
  <2>2. Len(p) + k \in 1 .. Len(steps) /\ ~ (Len(p) + k <= Len(p)) /\ Len(p) + k - Len(p) = k
    BY <1>3, <1>4
  <2>3. steps[Len(p) + k] = GetField(f)
    BY <1>3, <2>1, <2>2
  <2>. QED BY <2>2, <2>3 DEF Owing
<1>. QED BY <1>3, <1>5 DEF steps, p, q

\* Steps that read no setting owe none.
LEMMA OwingNothing ==
    ASSUME NEW steps, \A k \in 1 .. Len(steps) : steps[k].kind # "get"
    PROVE  Owing(steps) = {}
BY DEF Owing, GetField

\* What a serial call begins with.
LEMMA SerialBegins ==
    ASSUME Base, OnSerial, NEW s \in Sessions,
           (\E r \in Requests[s].spi : BeginSpi(s, r)) \/ (\E r \in Requests[s].uart : BeginUart(s, r))
    PROVE  \E r \in Requests[s][interface] :
                /\ BeginCall(s, r, SerialStepsOf(r)) /\ SerialStepsOf(r) \in Seq(SerialStepSet)
                /\ r.op # "get_configuration" /\ (CanWrite(s) \/ r.op = "read")
                /\ r.op = "configure" => FieldNames \subseteq Owing(SerialStepsOf(r))
                /\ r.op # "configure" => Owing(SerialStepsOf(r)) = {}
<1>1. ASSUME NEW r \in Requests[s][interface], r.op = "configure"
      PROVE  /\ SetSteps(r.fields) \o ReadBack \in Seq(SerialStepSet)
             /\ FieldNames \subseteq Owing(SetSteps(r.fields) \o ReadBack)
  BY <1>1, SerialRequest, ConfigureFacts
<1>2. ASSUME NEW n \in Nat
      PROVE  /\ SendBytes(n) \in Seq(SerialStepSet) /\ Owing(SendBytes(n)) = {}
             /\ <<[kind |-> "send", carries |-> n]>> \in Seq(SerialStepSet)
             /\ Owing(<<[kind |-> "send", carries |-> n]>>) = {}
  <2>1. [kind |-> "send", carries |-> 1] \in SerialStepSet /\ [kind |-> "send", carries |-> n] \in SerialStepSet
    BY DEF SerialStepSet, Sendings
  <2>2. SendBytes(n) \in Seq(SerialStepSet) /\ <<[kind |-> "send", carries |-> n]>> \in Seq(SerialStepSet)
    BY <2>1 DEF SendBytes
  <2>3. \A k \in 1 .. Len(SendBytes(n)) : SendBytes(n)[k].kind # "get"
    BY DEF SendBytes
  <2>4. \A k \in 1 .. Len(<<[kind |-> "send", carries |-> n]>>) :
            <<[kind |-> "send", carries |-> n]>>[k].kind # "get"
    OBVIOUS
  <2>. QED BY <2>2, <2>3, <2>4, OwingNothing
<1>3. <<[kind |-> "ask"]>> \in Seq(SerialStepSet) /\ Owing(<<[kind |-> "ask"]>>) = {}
  <2>1. \A k \in 1 .. Len(<<[kind |-> "ask"]>>) : <<[kind |-> "ask"]>>[k].kind # "get"
    OBVIOUS
  <2>. QED BY <2>1, OwingNothing DEF SerialStepSet
<1>4. ASSUME NEW r \in Requests[s].spi, BeginSpi(s, r)
      PROVE  /\ r \in Requests[s][interface]
             /\ BeginCall(s, r, SerialStepsOf(r)) /\ SerialStepsOf(r) \in Seq(SerialStepSet)
             /\ r.op # "get_configuration" /\ CanWrite(s)
             /\ r.op = "configure" => FieldNames \subseteq Owing(SerialStepsOf(r))
             /\ r.op # "configure" => Owing(SerialStepsOf(r)) = {}
  <2>1. interface = "spi" /\ r \in Requests[s][interface] /\ r.op # "get_configuration" /\ CanWrite(s)
        /\ BeginCall(s, r, SpiSteps(r)) /\ SerialStepsOf(r) = SpiSteps(r)
    BY <1>4 DEF BeginSpi, OnSpi, SerialStepsOf
  <2>2. r.op \in SpiOperations
    BY <2>1 DEF BeginCall, Supported, Operations
  <2>3. Payload(r) \in Nat
    BY <2>1, SerialRequest
  <2>4. r.op \in {"configure", "transfer", "write"}
    BY <2>1, <2>2 DEF SpiOperations
  <2>5. /\ SpiSteps(r) \in Seq(SerialStepSet)
        /\ r.op = "configure" => FieldNames \subseteq Owing(SpiSteps(r))
        /\ r.op # "configure" => Owing(SpiSteps(r)) = {}
    BY <1>1, <1>2, <2>1, <2>3, <2>4 DEF SpiSteps, SpiConfigureSteps
  <2>. QED BY <2>1, <2>5
<1>5. ASSUME NEW r \in Requests[s].uart, BeginUart(s, r)
      PROVE  /\ r \in Requests[s][interface]
             /\ BeginCall(s, r, SerialStepsOf(r)) /\ SerialStepsOf(r) \in Seq(SerialStepSet)
             /\ r.op # "get_configuration" /\ (CanWrite(s) \/ r.op = "read")
             /\ r.op = "configure" => FieldNames \subseteq Owing(SerialStepsOf(r))
             /\ r.op # "configure" => Owing(SerialStepsOf(r)) = {}
  <2>1. interface = "uart" /\ r \in Requests[s][interface] /\ r.op # "get_configuration"
        /\ (CanWrite(s) \/ r.op = "read")
        /\ BeginCall(s, r, UartSteps(r)) /\ SerialStepsOf(r) = UartSteps(r)
    BY <1>5 DEF BeginUart, OnUart, SerialStepsOf
  <2>2. r.op \in UartOperations
    BY <2>1 DEF BeginCall, Supported, Operations
  <2>3. Payload(r) \in Nat
    BY <2>1, SerialRequest
  <2>4. r.op \in {"configure", "read", "write", "flush"}
    BY <2>1, <2>2 DEF UartOperations
  <2>5. /\ UartSteps(r) \in Seq(SerialStepSet)
        /\ r.op = "configure" => FieldNames \subseteq Owing(UartSteps(r))
        /\ r.op # "configure" => Owing(UartSteps(r)) = {}
    BY <1>1, <1>2, <1>3, <2>1, <2>3, <2>4 DEF UartSteps, UartConfigureSteps
  <2>. QED BY <2>1, <2>5
<1>. QED BY <1>4, <1>5

\* The port is free as long as nobody has opened it.
LEMMA FreePort ==
    ASSUME SerialInv, OnUart, device.holder = NoHolder
    PROVE  \A t \in Sessions : state[t] = "none" /\ unsure[t] = {} /\ call[t] = NoCall
<1>1. OnSerial /\ interface = "uart"
  BY DEF OnSerial, OnUart
<1>. QED BY <1>1, DeviceAssumption DEF SerialInv, SerialSession, Holds

LEMMA GrantedValues ==
    ASSUME NEW f, NEW v \in Values
    PROVE  Granted(f, v) \subseteq Values
BY DEF Granted

LEMMA OpenedFacts ==
    ASSUME OnUart, NEW speed \in Granted("speed", DefaultSpeed)
    PROVE  Opened(speed) \in Settings
<1>1. OnSerial /\ interface = "uart"
  BY DEF OnSerial, OnUart
<1>2. speed \in Values /\ DefaultSetting \in Values
  BY SerialAssumption, GrantedValues
<1>. QED BY <1>1, <1>2 DEF Opened, Settings, FieldNames

LEMMA SerialOpens ==
    ASSUME Base, SerialInv, OnSerial, NEW s \in Sessions, BindSpi(s) \/ BindUart(s)
    PROVE  SerialInv'
<1>0. /\ device \in [settings : Settings, holder : Holders]
      /\ device.settings \in Settings /\ \A t \in Sessions : SerialSession(t)
  BY SerialDevice
<1>1. CASE BindSpi(s)
  <2>. DEFINE c == call[s]
  <2>1. Bind(s, device, c.read) /\ unsure' = [unsure EXCEPT ![s] = ToSet(Fields["spi"]) \ c.sure]
        /\ interface = "spi" /\ state[s] = "none" /\ c # NoCall /\ c.steps = <<>>
    BY <1>1 DEF BindSpi, OnSpi, Opening
  <2>2. /\ Others(s) /\ state'[s] = "idle" /\ device' = device /\ book'[s] = c.read /\ call'[s] = NoCall
        /\ \A t \in Sessions \ {s} : call'[t] = call[t] /\ unsure'[t] = unsure[t]
    BY <2>1, BindFacts
  <2>3. unsure'[s] = FieldNames \ c.sure
    BY <2>1 DEF Base, OfSessions, FieldNames
  <2>4. Reading(c, device) /\ Whole(c)
    BY <1>0, <2>1 DEF SerialSession, Holds
  <2>5. FieldNames \subseteq DOMAIN c.read
    <3>1. Owing(<<>>) = {}
      BY OwingNothing
    <3>. QED BY <2>1, <2>4, <3>1 DEF Whole
  <2>6. c.read \in Settings /\ \A f \in FieldNames \ (FieldNames \ c.sure) : c.read[f] = device.settings[f]
    <3>1. DOMAIN c.read = FieldNames
      BY <2>4, <2>5 DEF Reading
    <3>. QED BY <2>4, <3>1 DEF Reading, Settings
  <2>. HIDE DEF c
  <2>7. Holds(s, state'[s], book'[s], call'[s], unsure'[s], device')
    BY <2>1, <2>2, <2>3, <2>6 DEF Holds
  <2>8. \A t \in Sessions \ {s} : Holds(t, state'[t], book'[t], call'[t], unsure'[t], device')
    BY <2>2, OthersHold
  <2>9. UNCHANGED fixedVars
    BY <2>2 DEF Others
  <2>. QED BY <1>0, <2>2, <2>7, <2>8, <2>9, SerialFrom
<1>2. CASE BindUart(s)
  <2>1. PICK speed \in Granted("speed", DefaultSpeed) :
            Bind(s, [settings |-> Opened(speed), holder |-> s], Opened(speed))
    BY <1>2 DEF BindUart
  <2>2. OnUart /\ device.holder = NoHolder /\ unsure' = unsure /\ interface = "uart"
    BY <1>2 DEF BindUart, OpenPort, OnUart
  <2>3. /\ Opened(speed) \in Settings
        /\ \A t \in Sessions : state[t] = "none" /\ unsure[t] = {} /\ call[t] = NoCall
    BY <2>2, OpenedFacts, FreePort
  <2>4. /\ Others(s) /\ state'[s] = "idle" /\ book'[s] = Opened(speed) /\ call'[s] = NoCall
        /\ device' = [settings |-> Opened(speed), holder |-> s]
        /\ \A t \in Sessions \ {s} : call'[t] = call[t]
    BY <2>1, <2>2, BindFacts
  <2>. HIDE DEF Opened
  <2>5. Holds(s, state'[s], book'[s], call'[s], unsure'[s], device')
    BY <2>2, <2>3, <2>4 DEF Holds
  <2>6. \A t \in Sessions \ {s} : Holds(t, state'[t], book'[t], call'[t], unsure'[t], device')
    BY <2>2, <2>3, <2>4 DEF Holds, Others
  <2>7. device' \in [settings : Settings, holder : Holders]
    BY <2>3, <2>4 DEF Holders
  <2>8. UNCHANGED fixedVars
    BY <2>4 DEF Others
  <2>. QED BY <2>5, <2>6, <2>7, <2>8, SerialFrom
<1>. QED BY <1>1, <1>2

\* A port that could not be opened is nobody's, whatever its settings are.
LEMMA SerialOpenFails ==
    ASSUME Base, SerialInv, OnSerial, NEW s \in Sessions, OpenFails(s)
    PROVE  SerialInv'
<1>1. PICK speed \in Granted("speed", DefaultSpeed) : device' = [device EXCEPT !.settings = Opened(speed)]
  BY DEF OpenFails
<1>2. OnUart /\ device.holder = NoHolder /\ UNCHANGED <<fixedVars, state, book, call, unsure>>
  BY DEF OpenFails, OpenPort, driverVars
<1>3. /\ Opened(speed) \in Settings
      /\ \A t \in Sessions : state[t] = "none" /\ unsure[t] = {} /\ call[t] = NoCall
  BY <1>2, OpenedFacts, FreePort
<1>4. device \in [settings : Settings, holder : Holders]
  BY SerialDevice
<1>. HIDE DEF Opened
<1>5. device' \in [settings : Settings, holder : Holders]
  BY <1>1, <1>3, <1>4
<1>6. \A t \in Sessions : Holds(t, state'[t], book'[t], call'[t], unsure'[t], device')
  BY <1>2, <1>3 DEF Holds
<1>. QED BY <1>2, <1>5, <1>6, SerialFrom

\* The settings are about to be read for a session that is being opened.
LEMMA OpeningKeepsSerial ==
    ASSUME Base, SerialInv, OnSerial, NEW s \in Sessions, OpenSpi(s) \/ OpenSpiFails(s)
    PROVE  SerialInv'
<1>0. device \in [settings : Settings, holder : Holders] /\ \A t \in Sessions : SerialSession(t)
  BY SerialDevice
<1>1. /\ Others(s) /\ state[s] = "none" /\ UNCHANGED <<device, state, book, unsure>>
      /\ OpenSpi(s) => call'[s] = Calling([op |-> "open"], ReadBack)
      /\ OpenSpiFails(s) => call'[s] = NoCall
      /\ \A t \in Sessions \ {s} : call'[t] = call[t]
  BY SerialOpening
<1>2. interface = "spi" /\ unsure[s] = {}
  BY <1>0, <1>1 DEF OpenSpi, OpenSpiFails, OnSpi, SerialSession, Holds
<1>3. ASSUME NEW c, c = Calling([op |-> "open"], ReadBack)
      PROVE  Reading(c, device) /\ Whole(c)
  <2>. DEFINE steps == ReadBack
              r == [op |-> "open"]
              was == IF interface = "i2c" /\ backend = "linux" THEN device ELSE NoBook
  <2>1. c = Calling(r, steps)
    BY <1>3
  <2>2. steps \in Seq(SerialStepSet) /\ FieldNames \subseteq Owing(steps)
    BY ReadBackFacts DEF Owing
  <2>. HIDE DEF steps, r
  <2>3. c = [request |-> r, steps |-> steps, read |-> <<>>, failed |-> FALSE, before |-> was, sole |-> TRUE,
             sure |-> {}]
    BY <2>1 DEF Calling
  <2>. HIDE DEF was
  <2>4. IsRecord(c) /\ c.steps = steps /\ c.failed = FALSE /\ c.read = <<>> /\ c.sure = {}
    BY <2>3 DEF IsRecord
  <2>5. DOMAIN <<>> = {} /\ <<>> = [f \in DOMAIN <<>> |-> <<>>[f]]
    OBVIOUS
  <2>6. DOMAIN c.read = {} /\ c.read = [f \in DOMAIN c.read |-> c.read[f]]
    BY <2>4, <2>5
  <2>. QED BY <2>2, <2>4, <2>6 DEF Reading, Whole
<1>4. Holds(s, state'[s], book'[s], call'[s], unsure'[s], device')
  BY <1>1, <1>2, <1>3 DEF Holds
<1>5. \A t \in Sessions \ {s} : Holds(t, state'[t], book'[t], call'[t], unsure'[t], device')
  BY <1>1, OthersHold
<1>6. UNCHANGED fixedVars
  BY <1>1 DEF Others
<1>. QED BY <1>0, <1>1, <1>4, <1>5, <1>6, SerialFrom

\* A setting that is written is not sure to any session.
LEMMA SetKeepsSerial ==
    ASSUME Base, SerialInv, OnSerial, NEW s \in Sessions, SetStep(s)
    PROVE  SerialInv'
<1>. DEFINE f == NextStep(s).field
            x == NextStep(s).value
<1>1. /\ device = [settings |-> device.settings, holder |-> device.holder]
      /\ device.settings \in Settings /\ device.holder \in Holders /\ \A t \in Sessions : SerialSession(t)
  BY SerialDevice
<1>2. /\ Continues(s, Tail(call[s].steps)) /\ book' = book /\ unsure' = Unsure({f})
      /\ call'[s] = Disturbed(Rest(s), f)
      /\ \A t \in Sessions \ {s} : call'[t] = IF InCall(t) THEN Disturbed(call[t], f) ELSE call[t]
      /\ \E v \in Granted(f, x) : device' = [device EXCEPT !.settings[f] = v]
  BY SerialSets
<1>3. PICK v \in Granted(f, x) : device' = [device EXCEPT !.settings[f] = v]
  BY <1>2
<1>4. state[s] = "busy" /\ call[s].steps # <<>> /\ NextStep(s).kind = "set"
      /\ call[s].steps \in Seq(SerialStepSet) /\ NextStep(s) = Head(call[s].steps)
  BY <1>1 DEF SetStep, AtStep, NextStep, SerialSession, Holds, Reading
<1>5. NextStep(s) \in SetSteppings
  BY <1>4, SerialKinds
<1>6. f \in FieldNames /\ x \in Values
  BY <1>5 DEF SetSteppings
<1>7. Holds(s, "busy", book[s], Rest(s), unsure[s], device)
  BY <1>1, <1>4, RestHolds DEF SerialSession
<1>. HIDE DEF f, x
<1>8. v \in Values
  BY <1>6, GrantedValues
<1>9. /\ device' \in [settings : Settings, holder : Holders] /\ device'.holder = device.holder
      /\ \A g \in FieldNames \ {f} : device'.settings[g] = device.settings[g]
  <2>1. PICK c, h : device = [settings |-> c, holder |-> h] /\ c \in [FieldNames -> Values] /\ h \in Holders
    BY <1>1 DEF Settings
  <2>2. device' = [settings |-> [c EXCEPT ![f] = v], holder |-> h]
    BY <1>3, <2>1
  <2>3. [c EXCEPT ![f] = v] \in [FieldNames -> Values]
    BY <1>6, <1>8, <2>1
  <2>. QED BY <1>6, <2>1, <2>2, <2>3 DEF Settings
<1>10. \A t \in Sessions : unsure'[t] = IF state[t] = "none" THEN {} ELSE unsure[t] \cup {f}
  BY <1>2 DEF Unsure
<1>11. Others(s) /\ state' = state
  BY <1>2 DEF Continues
<1>12. ASSUME NEW t \in Sessions
       PROVE  Holds(t, state'[t], book'[t], call'[t], unsure'[t], device')
  <2>1. Holds(t, state[t], book[t], call[t], unsure[t], device)
    BY <1>1 DEF SerialSession
  <2>2. CASE t = s
    <3>1. Holds(s, "busy", book[s], Disturbed(Rest(s), f), IF "busy" = "none" THEN {} ELSE unsure[s] \cup {f}, device')
      BY <1>6, <1>7, <1>9, DisturbedHolds
    <3>. QED BY <1>2, <1>4, <1>10, <1>11, <2>2, <3>1
  <2>3. CASE t # s /\ InCall(t)
    <3>1. Holds(t, state[t], book[t], Disturbed(call[t], f),
                IF state[t] = "none" THEN {} ELSE unsure[t] \cup {f}, device')
      BY <1>6, <1>9, <2>1, <2>3, DisturbedHolds DEF InCall, Opening
    <3>. QED BY <1>2, <1>10, <1>11, <2>3, <3>1
  <2>4. CASE t # s /\ ~ InCall(t)
    <3>1. Holds(t, state[t], book[t], call[t], IF state[t] = "none" THEN {} ELSE unsure[t] \cup {f}, device')
      BY <1>6, <1>9, <2>1, <2>4, SetUnderHolds DEF InCall, Opening
    <3>. QED BY <1>2, <1>10, <1>11, <2>4, <3>1
  <2>. QED BY <2>2, <2>3, <2>4
<1>13. UNCHANGED fixedVars
  BY <1>11 DEF Others
<1>. QED BY <1>9, <1>12, <1>13, SerialFrom

\* So do the steps that set nothing,
LEMMA RestsKeepSerial ==
    ASSUME Base, SerialInv, OnSerial, NEW s \in Sessions, Send(s) \/ AskPort(s) \/ GetStep(s)
    PROVE  SerialInv'
<1>1. /\ device \in [settings : Settings, holder : Holders]
      /\ device.settings \in Settings /\ \A t \in Sessions : SerialSession(t)
  BY SerialDevice
<1>2. /\ Others(s) /\ UNCHANGED <<device, state, book, unsure>>
      /\ \A t \in Sessions \ {s} :
            \/ call'[t] = call[t]
            \/ state[t] = "busy" /\ call'[t] = [call[t] EXCEPT !.sole = call[t].before = NoBook]
  <2>1. CASE Send(s)
    BY <2>1, SerialSends DEF Continues
  <2>2. CASE AskPort(s)
    BY <2>2, PassContinues DEF AskPort, AtStep, Continues
  <2>3. CASE GetStep(s)
    BY <2>3, SerialGets
  <2>. QED BY <2>1, <2>2, <2>3
<1>3. Holds(s, state[s], book[s], call[s], unsure[s], device)
  BY <1>1 DEF SerialSession
<1>4. Holds(s, state[s], book[s], call'[s], unsure[s], device)
  <2>1. CASE Send(s)
    <3>1. call'[s] = Rest(s) /\ state[s] = "busy" /\ call[s].steps # <<>> /\ NextStep(s).kind = "send"
      BY <2>1, SerialSends DEF Send, AtStep
    <3>. QED BY <1>3, <3>1, RestHolds
  <2>2. CASE AskPort(s)
    <3>1. call'[s] = Rest(s) /\ state[s] = "busy" /\ call[s].steps # <<>> /\ NextStep(s).kind = "ask"
      BY <2>2, PassContinues DEF AskPort, AtStep
    <3>. QED BY <1>3, <3>1, RestHolds
  <2>3. CASE GetStep(s)
    <3>1. /\ InCall(s) /\ call[s].steps # <<>> /\ NextStep(s) = Head(call[s].steps) /\ NextStep(s).kind = "get"
          /\ call'[s] = Got(call[s], NextStep(s).field, device.settings[NextStep(s).field])
      BY <2>3, SerialGets DEF NextStep
    <3>. QED BY <1>1, <1>3, <3>1, GotHolds DEF InCall, Opening
  <2>. QED BY <2>1, <2>2, <2>3
<1>5. \A t \in Sessions \ {s} : Holds(t, state'[t], book'[t], call'[t], unsure'[t], device')
  BY <1>2, OthersHold
<1>6. Holds(s, state'[s], book'[s], call'[s], unsure'[s], device')
  BY <1>2, <1>4
<1>7. UNCHANGED fixedVars
  BY <1>2 DEF Others
<1>. QED BY <1>1, <1>2, <1>5, <1>6, <1>7, SerialFrom

\* A session that is in no call, and whose device is as it was.
LEMMA SerialEnds ==
    ASSUME SerialInv, OnSerial, NEW s \in Sessions, Others(s), state'[s] \in {"idle", "closed", "faulted"},
           device' = device, call'[s] = NoCall,
           \A t \in Sessions \ {s} : call'[t] = call[t] /\ unsure'[t] = unsure[t],
           book'[s] \in Settings,
           \A f \in FieldNames \ unsure'[s] : book'[s][f] = device.settings[f],
           interface = "uart" => device.holder = s
    PROVE  SerialInv'
<1>1. device \in [settings : Settings, holder : Holders]
  BY SerialDevice
<1>2. Holds(s, state'[s], book'[s], call'[s], unsure'[s], device')
  BY DEF Holds
<1>3. \A t \in Sessions \ {s} : Holds(t, state'[t], book'[t], call'[t], unsure'[t], device')
  BY OthersHold
<1>4. UNCHANGED fixedVars
  BY DEF Others
<1>. QED BY <1>1, <1>2, <1>3, <1>4, SerialFrom

\* and the end of a call, which remembers what it has read,
LEMMA FinishKeepsSerial ==
    ASSUME Base, SerialInv, OnSerial, NEW s \in Sessions, FinishSerial(s)
    PROVE  SerialInv'
<1>. DEFINE c == call[s]
<1>1. device \in [settings : Settings, holder : Holders] /\ \A t \in Sessions : SerialSession(t)
  BY SerialDevice
<1>2. /\ Succeed(s, RememberSettings(s))
      /\ unsure'[s] = unsure[s] \ c.sure /\ \A t \in Sessions \ {s} : unsure'[t] = unsure[t]
  BY SerialFinishes
<1>3. /\ Others(s) /\ state[s] = "busy" /\ c.steps = <<>> /\ state'[s] = "idle" /\ device' = device
      /\ book'[s] = RememberSettings(s) /\ \A t \in Sessions \ {s} : call'[t] = call[t]
  BY <1>2, SucceedFacts
<1>4. call'[s] = NoCall
  BY <1>2 DEF Succeed, Return, Base, OfSessions
<1>5. Holds(s, "busy", book[s], c, unsure[s], device)
  BY <1>1, <1>3 DEF SerialSession
<1>6. CASE c.request.op = "configure"
  <2>1. Reading(c, device) /\ Whole(c) /\ DOMAIN c.read \ c.sure \subseteq unsure[s]
    BY <1>5, <1>6 DEF Holds
  <2>2. DOMAIN c.read = FieldNames
    <3>1. Owing(<<>>) = {}
      BY OwingNothing
    <3>. QED BY <1>3, <2>1, <3>1 DEF Whole, Reading
  <2>3. c.read \in Settings
    BY <2>1, <2>2 DEF Reading, Settings
  <2>4. \A f \in FieldNames \ (unsure[s] \ c.sure) : c.read[f] = device.settings[f]
    BY <2>1, <2>2 DEF Reading
  <2>5. book'[s] = c.read
    BY <1>3, <1>6 DEF RememberSettings
  <2>6. interface = "uart" => device.holder = s
    BY <1>5 DEF Holds
  <2>. HIDE DEF c
  <2>. QED BY <1>2, <1>3, <1>4, <2>3, <2>4, <2>5, <2>6, SerialEnds
<1>7. CASE c.request.op # "configure"
  <2>1. book'[s] = book[s]
    BY <1>3, <1>7 DEF RememberSettings
  <2>2. c.sure = {}
    BY <1>5, <1>7 DEF Holds
  <2>3. /\ book[s] \in Settings
        /\ \A f \in FieldNames \ unsure[s] : book[s][f] = device.settings[f]
        /\ interface = "uart" => device.holder = s
    BY <1>5 DEF Holds
  <2>. HIDE DEF c
  <2>. QED BY <1>2, <1>3, <1>4, <2>1, <2>2, <2>3, SerialEnds
<1>. QED BY <1>6, <1>7

\* closing, dropping and failing.
LEMMA LifeKeepsSerial ==
    ASSUME Base, SerialInv, OnSerial, NEW s \in Sessions,
           MarkClosed(s) \/ Drop(s, Released(s)) \/ Fail(s)
    PROVE  SerialInv'
<1>1. /\ device \in [settings : Settings, holder : Holders]
      /\ device.settings \in Settings /\ \A t \in Sessions : SerialSession(t)
      /\ device = [settings |-> device.settings, holder |-> device.holder]
  BY SerialDevice
<1>2. Holds(s, state[s], book[s], call[s], unsure[s], device)
  BY <1>1 DEF SerialSession
<1>3. CASE MarkClosed(s) \/ Fail(s)
  <2>1. /\ Others(s) /\ state[s] # "none" /\ state'[s] \in {"closed", "faulted"}
        /\ UNCHANGED <<device, book, unsure>>
        /\ \A t \in Sessions \ {s} : call'[t] = call[t]
    BY <1>3, MarkClosedFacts, FailFacts
  <2>2. call'[s] = NoCall
    <3>1. CASE MarkClosed(s)
      BY <1>2, <3>1, MarkClosedFacts DEF Holds
    <3>2. CASE Fail(s)
      BY <3>2 DEF Fail, Return, Base, OfSessions
    <3>. QED BY <1>3, <3>1, <3>2
  <2>3. /\ book[s] \in Settings
        /\ \A f \in FieldNames \ unsure[s] : book[s][f] = device.settings[f]
        /\ interface = "uart" => device.holder = s
    BY <1>2, <2>1 DEF Holds
  <2>. QED BY <1>1, <2>1, <2>2, <2>3, SerialEnds
<1>4. CASE Drop(s, Released(s))
  <2>1. /\ Others(s) /\ state'[s] = "none" /\ unsure'[s] = {} /\ device' = Released(s) /\ call' = call
        /\ state[s] \in {"idle", "faulted", "closed"}
        /\ \A t \in Sessions \ {s} : unsure'[t] = unsure[t]
    BY <1>4, DropFacts
  <2>2. /\ device' \in [settings : Settings, holder : Holders] /\ device'.settings = device.settings
        /\ \A t \in Sessions \ {s} : device.holder = t => device'.holder = t
    BY <1>1, <2>1 DEF Released, Holders
  <2>3. \A t \in Sessions \ {s} : Holds(t, state'[t], book'[t], call'[t], unsure'[t], device')
    BY <2>1, <2>2, OthersHold
  <2>4. call[s] = NoCall
    BY <1>2, <2>1 DEF Holds
  <2>5. Holds(s, state'[s], book'[s], call'[s], unsure'[s], device')
    BY <2>1, <2>4 DEF Holds
  <2>6. UNCHANGED fixedVars
    BY <2>1 DEF Others
  <2>. QED BY <2>2, <2>3, <2>5, <2>6, SerialFrom
<1>. QED BY <1>3, <1>4

\* A call begins.
LEMMA BeginKeepsSerial ==
    ASSUME Base, SerialInv, OnSerial, NEW s \in Sessions,
           (\E r \in Requests[s].spi : BeginSpi(s, r)) \/ (\E r \in Requests[s].uart : BeginUart(s, r))
    PROVE  SerialInv'
<1>1. /\ device \in [settings : Settings, holder : Holders] /\ \A t \in Sessions : SerialSession(t)
  BY SerialDevice
<1>2. PICK r \in Requests[s][interface] :
        /\ BeginCall(s, r, SerialStepsOf(r)) /\ SerialStepsOf(r) \in Seq(SerialStepSet)
        /\ r.op = "configure" => FieldNames \subseteq Owing(SerialStepsOf(r))
        /\ r.op # "configure" => Owing(SerialStepsOf(r)) = {}
  BY SerialBegins
<1>. DEFINE steps == SerialStepsOf(r)
            was == IF interface = "i2c" /\ backend = "linux" THEN device ELSE NoBook
            c == call'[s]
<1>. HIDE DEF steps
<1>3. BeginCall(s, r, steps) /\ steps \in Seq(SerialStepSet)
      /\ (r.op = "configure" => FieldNames \subseteq Owing(steps))
      /\ (r.op # "configure" => Owing(steps) = {})
  BY <1>2 DEF steps
<1>4. Others(s) /\ state[s] # "none" /\ state'[s] = "busy" /\ c = Calling(r, steps)
      /\ UNCHANGED <<device, book, unsure>> /\ \A t \in Sessions \ {s} : call'[t] = call[t]
  BY <1>3, BeginFacts
<1>5. c = [request |-> r, steps |-> steps, read |-> <<>>, failed |-> FALSE, before |-> was, sole |-> TRUE,
           sure |-> {}]
  BY <1>4 DEF Calling
<1>. HIDE DEF was, c
<1>6. IsRecord(c) /\ c.request = r /\ c.steps = steps /\ c.failed = FALSE /\ c.read = <<>> /\ c.sure = {}
  BY <1>5 DEF IsRecord
<1>7. DOMAIN <<>> = {} /\ <<>> = [f \in DOMAIN <<>> |-> <<>>[f]]
  OBVIOUS
<1>8. DOMAIN c.read = {} /\ c.read = [f \in DOMAIN c.read |-> c.read[f]]
  BY <1>6, <1>7
<1>9. Reading(c, device)
  BY <1>3, <1>6, <1>8 DEF Reading
<1>10. r.op = "configure" => Whole(c)
  BY <1>3, <1>6 DEF Whole
<1>11. /\ book[s] \in Settings
       /\ \A f \in FieldNames \ unsure[s] : book[s][f] = device.settings[f]
       /\ interface = "uart" => device.holder = s
  BY <1>1, <1>4 DEF SerialSession, Holds
<1>12. Holds(s, "busy", book[s], c, unsure[s], device)
  BY <1>3, <1>6, <1>8, <1>9, <1>10, <1>11 DEF Holds
<1>13. Holds(s, state'[s], book'[s], call'[s], unsure'[s], device')
  BY <1>4, <1>12 DEF c
<1>14. \A t \in Sessions \ {s} : Holds(t, state'[t], book'[t], call'[t], unsure'[t], device')
  BY <1>4, OthersHold
<1>15. UNCHANGED fixedVars
  BY <1>4 DEF Others
<1>. QED BY <1>1, <1>4, <1>13, <1>14, <1>15, SerialFrom

\* Every step of a serial session keeps that.
LEMMA SerialStepKeeps ==
    ASSUME Base, SerialInv, OnSerial, NEW s \in Sessions, SerialStep(s) \/ Fail(s)
    PROVE  SerialInv'
BY SerialOpens, SerialOpenFails, OpeningKeepsSerial, SetKeepsSerial, RestsKeepSerial, FinishKeepsSerial,
   LifeKeepsSerial, BeginKeepsSerial
   DEF SerialStep, SpiStep, UartStep

-----------------------------------------------------------------------------
(* What a session of a line holds *)

\* The steps of a write to a line.
LevelSteps == {<<[kind |-> "level", value |-> v]>> : v \in Values}

\* A session holds its line; only one that may write is writing to it.
CdevSession(s) ==
    /\ state[s] # "none" => device.holder = s /\ book[s] = LineInfo
    /\ state[s] = "busy" =>
        /\ call[s].failed = FALSE
        /\ \/ call[s].steps \in {<<>>, <<[kind |-> "refusal"]>>, <<[kind |-> "ask"]>>}
           \/ CanWrite(s) /\ call[s].steps \in LevelSteps

CdevInv == OnCdev =>
    /\ device \in [settings : Settings, holder : Holders]
    /\ \A s \in Sessions : CdevSession(s)

LEMMA CdevDevice ==
    ASSUME CdevInv, OnCdev
    PROVE  /\ device \in [settings : Settings, holder : Holders]
           /\ device.settings \in Settings /\ device.holder \in Holders
           /\ device = [settings |-> device.settings, holder |-> device.holder]
           /\ "output" \in FieldNames /\ "level" \in FieldNames /\ FieldNames = ToSet(Fields["gpio"])
           /\ \A s \in Sessions : CdevSession(s)
BY SerialAssumption DEF CdevInv, FieldNames, OnCdev

\* One session at most is bound.
LEMMA CdevFrom ==
    ASSUME Base, CdevInv, OnCdev, NEW s \in Sessions, Others(s),
           device' \in [settings : Settings, holder : Holders],
           device.holder \in {s, NoHolder},
           state'[s] # "none" => device'.holder = s /\ book'[s] = LineInfo',
           state'[s] = "busy" =>
              /\ call'[s].failed = FALSE
              /\ \/ call'[s].steps \in {<<>>, <<[kind |-> "refusal"]>>, <<[kind |-> "ask"]>>}
                 \/ CanWrite(s) /\ call'[s].steps \in LevelSteps
    PROVE  CdevInv'
<1>1. interface' = interface /\ backend' = backend /\ access' = access
  BY DEF Others, fixedVars
<1>2. Settings' = Settings
  BY <1>1 DEF Settings, FieldNames
<1>3. CdevSession(s)'
  BY <1>1 DEF CdevSession, CanWrite
<1>4. ASSUME NEW t \in Sessions \ {s}
      PROVE  CdevSession(t)'
  <2>1. state'[t] = state[t] /\ CdevSession(t)
    BY CdevDevice DEF Others
  <2>2. state[t] = "none"
    BY <2>1, DeviceAssumption DEF CdevSession
  <2>. QED BY <2>1, <2>2 DEF CdevSession
<1>. QED BY <1>2, <1>3, <1>4 DEF CdevInv

\* The session that holds the line, or that may take it.
LEMMA CdevOwner ==
    ASSUME CdevInv, OnCdev, NEW s \in Sessions, state[s] # "none"
    PROVE  device.holder = s /\ book[s] = LineInfo
BY DEF CdevInv, CdevSession

LEMMA CdevOpens ==
    ASSUME Base, CdevInv, OnCdev, NEW s \in Sessions, BindCdev(s)
    PROVE  CdevInv'
<1>1. device.holder = NoHolder /\ unsure' = unsure
      /\ Bind(s, [settings |-> Requested(LineInfo), holder |-> s], LineInfo)
  BY DEF BindCdev
<1>. DEFINE x == Requested(LineInfo)
            i == LineInfo
<1>2. x \in Settings /\ x["output"] = device.settings["output"]
  <2>1. PICK c : c = device.settings /\ c \in [FieldNames -> Values]
    BY CdevDevice DEF Settings
  <2>2. "output" \in FieldNames /\ "level" \in FieldNames /\ 0 \in Values
    BY CdevDevice, SerialAssumption
  <2>3. LineInfo["output"] = c["output"] /\ "level" \notin DOMAIN LineInfo
    BY <2>1 DEF LineInfo
  <2>. DEFINE v == IF c["output"] = 0 THEN c["level"] ELSE 0
              a == c["output"]
  <2>4. v \in Values /\ a \in Values
    BY <2>1, <2>2
  <2>5. x = [[c EXCEPT !["output"] = a] EXCEPT !["level"] = v]
    BY <2>1, <2>2, <2>3 DEF Requested
  <2>. HIDE DEF a, v, x
  <2>6. x \in [FieldNames -> Values] /\ x["output"] = a
    BY <2>1, <2>2, <2>4, <2>5
  <2>. QED BY <2>1, <2>6 DEF Settings, a
<1>. HIDE DEF x, i
<1>3. Others(s) /\ state'[s] = "idle" /\ device' = [settings |-> x, holder |-> s] /\ book'[s] = i
  BY <1>1, BindFacts DEF x, i
<1>4. device' \in [settings : Settings, holder : Holders] /\ device'.holder = s
  BY <1>2, <1>3 DEF Holders
<1>5. book'[s] = LineInfo'
  BY <1>2, <1>3 DEF LineInfo, i
<1>. QED BY <1>1, <1>3, <1>4, <1>5, CdevFrom

LEMMA LevelKeepsCdev ==
    ASSUME Base, CdevInv, OnCdev, NEW s \in Sessions, SetLevel(s)
    PROVE  CdevInv' /\ CanWrite(s)
<1>. DEFINE w == NextStep(s).value
<1>1. /\ Continues(s, Tail(call[s].steps)) /\ book' = book
      /\ device' = [device EXCEPT !.settings["level"] = w]
      /\ state[s] = "busy" /\ call[s].steps # <<>> /\ NextStep(s).kind = "level" /\ NextStep(s) = Head(call[s].steps)
  BY CdevSets DEF SetLevel, AtStep, NextStep
<1>2. CdevSession(s)
  BY CdevDevice
<1>3. CanWrite(s) /\ call[s].steps \in LevelSteps /\ call[s].failed = FALSE
  <2>1. call[s].steps \notin {<<[kind |-> "refusal"]>>, <<[kind |-> "ask"]>>}
    BY <1>1
  <2>. QED BY <1>1, <1>2, <2>1 DEF CdevSession
<1>4. PICK v \in Values : call[s].steps = <<[kind |-> "level", value |-> v]>>
  BY <1>3 DEF LevelSteps
<1>5. w = v /\ Tail(call[s].steps) = <<>>
  BY <1>1, <1>4
<1>. HIDE DEF w
<1>6. /\ device' \in [settings : Settings, holder : Holders] /\ device'.holder = device.holder
      /\ device'.settings["output"] = device.settings["output"]
  <2>1. PICK c, h : device = [settings |-> c, holder |-> h] /\ c \in [FieldNames -> Values] /\ h \in Holders
    BY CdevDevice DEF Settings
  <2>2. device' = [settings |-> [c EXCEPT !["level"] = v], holder |-> h]
    BY <1>1, <1>5, <2>1
  <2>3. "output" \in FieldNames /\ "level" \in FieldNames
    BY CdevDevice
  <2>. DEFINE e == [c EXCEPT !["level"] = v]
  <2>4. e \in [FieldNames -> Values] /\ e["output"] = c["output"]
    BY <2>1, <2>3
  <2>. HIDE DEF e
  <2>5. device' = [settings |-> e, holder |-> h]
    BY <2>2 DEF e
  <2>. QED BY <2>1, <2>4, <2>5 DEF Settings
<1>7. device.holder = s /\ book[s] = LineInfo
  BY <1>1, CdevOwner
<1>8. LineInfo' = LineInfo
  BY <1>6 DEF LineInfo
<1>9. Others(s) /\ call'[s].steps = <<>> /\ call'[s].failed = FALSE
  BY <1>1, <1>3, <1>5 DEF Continues
<1>10. CdevInv'
  BY <1>1, <1>6, <1>7, <1>8, <1>9, CdevFrom
<1>. QED BY <1>3, <1>10

LEMMA RestsKeepCdev ==
    ASSUME Base, CdevInv, OnCdev, NEW s \in Sessions,
           \/ GetLevel(s) \/ (\E r \in Requests[s].gpio : BeginCdev(s, r))
           \/ Succeed(s, book[s]) /\ unsure' = unsure
           \/ MarkClosed(s) \/ Drop(s, Released(s)) \/ Fail(s)
    PROVE  CdevInv'
<1>0. device \in [settings : Settings, holder : Holders]
      /\ device = [settings |-> device.settings, holder |-> device.holder]
      /\ \A t \in Sessions : CdevSession(t)
  BY CdevDevice
<1>1. CASE GetLevel(s)
  <2>1. /\ Continues(s, Tail(call[s].steps)) /\ UNCHANGED <<device, book>>
        /\ state[s] = "busy" /\ call[s].steps # <<>> /\ Head(call[s].steps).kind = "ask"
    BY <1>1, PassContinues DEF GetLevel, AtStep, NextStep
  <2>2. Others(s) /\ call'[s].steps = Tail(call[s].steps) /\ call'[s].failed = call[s].failed
    BY <2>1 DEF Continues
  <2>3. call[s].failed = FALSE /\ Tail(call[s].steps) = <<>>
    <3>. DEFINE x == call[s].steps
                refused == <<[kind |-> "refusal"]>>
                asked == <<[kind |-> "ask"]>>
    <3>1. x \in {<<>>, refused, asked} \/ x \in LevelSteps
      BY <1>0, <2>1 DEF CdevSession
    <3>2. Tail(refused) = <<>> /\ Tail(asked) = <<>> /\ \A y \in LevelSteps : Tail(y) = <<>>
      <4>1. \A a : Tail(<<a>>) = <<>>
        OBVIOUS
      <4>. QED BY <4>1 DEF LevelSteps
    <3>3. call[s].failed = FALSE
      BY <1>0, <2>1 DEF CdevSession
    <3>. HIDE DEF refused, asked
    <3>. QED BY <2>1, <3>1, <3>2, <3>3
  <2>4. LineInfo' = LineInfo /\ device.holder = s /\ book[s] = LineInfo
    BY <2>1, CdevOwner DEF LineInfo
  <2>. QED BY <1>0, <2>1, <2>2, <2>3, <2>4, CdevFrom
<1>2. ASSUME NEW r \in Requests[s].gpio, BeginCdev(s, r)
      PROVE  CdevInv'
  <2>1. r \in Requests[s][interface] /\ BeginCall(s, r, CdevSteps(r)) /\ interface = "gpio"
        /\ (r.op = "write" => CanWrite(s)) /\ r.op \in {"read", "write", "configure"}
    BY <1>2 DEF BeginCdev, OnCdev
  <2>. DEFINE steps == CdevSteps(r)
  <2>2. \/ steps \in {<<>>, <<[kind |-> "refusal"]>>, <<[kind |-> "ask"]>>}
        \/ CanWrite(s) /\ steps \in LevelSteps
    <3>1. r.op = "write" => r.value \in Values
      BY <2>1, SerialAssumption DEF IsSerialRequest
    <3>. QED BY <2>1, <3>1 DEF CdevSteps, LevelSteps
  <2>. HIDE DEF steps
  <2>3. BeginCall(s, r, steps)
    BY <2>1 DEF steps
  <2>4. Others(s) /\ state[s] # "none" /\ call'[s] = Calling(r, steps) /\ UNCHANGED <<device, book>>
    BY <2>1, <2>3, BeginFacts
  <2>5. call'[s].steps = steps /\ call'[s].failed = FALSE
    BY <2>4 DEF Calling
  <2>6. LineInfo' = LineInfo /\ device.holder = s /\ book[s] = LineInfo
    BY <2>4, CdevOwner DEF LineInfo
  <2>. QED BY <1>0, <2>2, <2>4, <2>5, <2>6, CdevFrom
<1>3. CASE (Succeed(s, book[s]) /\ unsure' = unsure) \/ MarkClosed(s) \/ Fail(s)
  <2>1. Others(s) /\ state[s] # "none" /\ state'[s] \in {"idle", "closed", "faulted"} /\ book'[s] = book[s] /\ device' = device
    BY <1>3, SucceedFacts, MarkClosedFacts, FailFacts
  <2>2. LineInfo' = LineInfo /\ device.holder = s /\ book[s] = LineInfo
    BY <2>1, CdevOwner DEF LineInfo
  <2>. QED BY <1>0, <2>1, <2>2, CdevFrom
<1>4. CASE Drop(s, Released(s))
  <2>1. Others(s) /\ state[s] # "none" /\ state'[s] = "none" /\ device' = Released(s)
    BY <1>4, DropFacts
  <2>2. device.holder = s
    BY <2>1, CdevOwner
  <2>3. device' \in [settings : Settings, holder : Holders]
    BY <1>0, <2>1 DEF Released, Holders
  <2>. QED BY <2>1, <2>2, <2>3, CdevFrom
<1>. QED BY <1>1, <1>2, <1>3, <1>4

\* Every step of a line session keeps that,
LEMMA CdevStepKeeps ==
    ASSUME Base, CdevInv, OnCdev, NEW s \in Sessions, CdevStep(s) \/ Fail(s)
    PROVE  CdevInv'
BY CdevOpens, LevelKeepsCdev, RestsKeepCdev DEF CdevStep

\* and so does a change of the line by its hardware.
LEMMA LineKeepsCdev ==
    ASSUME Base, CdevInv, LineChanges
    PROVE  CdevInv'
<1>1. OnCdev /\ device.holder = NoHolder /\ UNCHANGED <<fixedVars, state, book, call>>
  BY DEF LineChanges
<1>2. PICK v \in {0, 1} : device' = [device EXCEPT !.settings["output"] = v]
  BY DEF LineChanges
<1>3. device' \in [settings : Settings, holder : Holders]
  <2>1. PICK c, h : device = [settings |-> c, holder |-> h] /\ c \in [FieldNames -> Values] /\ h \in Holders
    BY <1>1, CdevDevice DEF Settings
  <2>2. device' = [settings |-> [c EXCEPT !["output"] = v], holder |-> h]
    BY <1>2, <2>1
  <2>3. v \in Values
    BY SerialAssumption
  <2>4. [c EXCEPT !["output"] = v] \in [FieldNames -> Values]
    BY <2>1, <2>3
  <2>. QED BY <2>1, <2>2, <2>4 DEF Settings
<1>4. \A t \in Sessions : state[t] = "none"
  BY <1>1, CdevDevice, DeviceAssumption DEF CdevSession
<1>5. Settings' = Settings /\ state' = state
  BY <1>1 DEF fixedVars, Settings, FieldNames
<1>. QED BY <1>3, <1>4, <1>5 DEF CdevInv, CdevSession

-----------------------------------------------------------------------------
(* What usb sessions hold *)

\* The interface that a call has claimed or released without having said so.
InFlight(s) ==
    IF state[s] = "busy" /\ call[s].request.op \in {"claim_interface", "release_interface"}
       /\ call[s].steps # UsbSteps(call[s].request)
    THEN {call[s].request.number} ELSE {}

\* Where a claim is: begun, taken, to be given back, given back, or there.
ClaimCall(s) ==
    LET c == call[s]
        n == c.request.number
    IN  \/ c.steps = ClaimSteps(c.request) /\ c.failed = FALSE
        \/ c.steps = <<Step("alternate", n)>> /\ c.failed = FALSE /\ n \in Claimed(s)
        \/ c.steps = <<Step("release", n)>> /\ c.failed = TRUE /\ n \in unsure[s]
        \/ c.steps = <<>> /\ c.failed = TRUE /\ n \in unsure[s]
        \/ c.steps = <<>> /\ c.failed = FALSE /\ n \in Claimed(s)

\* Where a release is, and a transfer.
ReleaseCall(s) ==
    LET c == call[s]
        n == c.request.number
    IN  /\ c.failed = FALSE
        /\ c.steps = <<Step("release", n)>> \/ (c.steps = <<>> /\ n \notin Claimed(s))

TransferCall(s) == call[s].failed = FALSE /\ call[s].steps \in {<<Step("exchange", 0)>>, <<>>}

\* Where the call of a usb session is.
UsbCall(s) ==
    /\ call[s].request.op = "claim_interface" => ClaimCall(s)
    /\ call[s].request.op = "release_interface" => ReleaseCall(s)
    /\ call[s].request.op \notin {"claim_interface", "release_interface"} => TransferCall(s)

IsCounters(x) == x = [written |-> x.written, claimed |-> x.claimed]

\* A session knows which interfaces it has claimed, and so do the counters of
\* its driver, but for what is on its way or a failed undo left open.
UsbSession(s) ==
    /\ IsCounters(stats[s])
    /\ state[s] = "none" => Claimed(s) = {} /\ unsure[s] = {}
    /\ state[s] # "none" =>
        \A n \in Numbers \ (unsure[s] \cup InFlight(s)) : n \in book[s] <=> n \in Claimed(s)
    /\ state[s] \in {"idle", "busy", "faulted"} =>
        \A n \in Numbers \ (unsure[s] \cup InFlight(s)) : n \in stats[s].claimed <=> n \in Claimed(s)
    /\ state[s] = "busy" => UsbCall(s)

UsbInv == OnUsb => device \in UsbDevices /\ \A s \in Sessions : UsbSession(s)

\* What a step leaves of a session that does not make it.
LEMMA UsbLeft ==
    ASSUME Base, UsbInv, OnUsb, NEW s \in Sessions, Others(s), NEW t \in Sessions \ {s},
           Claimed(t)' = Claimed(t), unsure'[t] = unsure[t]
    PROVE  UsbSession(t)'
<1>1. state'[t] = state[t] /\ book'[t] = book[t] /\ stats'[t] = stats[t] /\ SameCall(call[t], call'[t])
  BY DEF Others
<1>2. UsbSession(t)
  BY DEF UsbInv
<1>3. state[t] = "busy" => /\ call'[t].request = call[t].request /\ call'[t].steps = call[t].steps
                           /\ call'[t].failed = call[t].failed
  BY <1>1, SameCallFacts DEF Base
<1>4. InFlight(t)' = InFlight(t)
  BY <1>1, <1>3 DEF InFlight
<1>5. state[t] = "busy" => UsbCall(t)'
  BY <1>2, <1>3 DEF UsbSession, UsbCall, ClaimCall, ReleaseCall, TransferCall
<1>. QED BY <1>1, <1>2, <1>4, <1>5 DEF UsbSession, IsCounters

\* A step of s keeps the sessions if it keeps its own.
LEMMA UsbFrom ==
    ASSUME Base, UsbInv, OnUsb, NEW s \in Sessions, Others(s), device' \in UsbDevices,
           \A t \in Sessions \ {s} : Claimed(t)' = Claimed(t) /\ unsure'[t] = unsure[t],
           UsbSession(s)'
    PROVE  UsbInv'
BY UsbLeft DEF UsbInv

LEMMA SameClaims ==
    ASSUME device' = device
    PROVE  \A t : Claimed(t)' = Claimed(t)
BY DEF Claimed

\* Claims that are given to a session, or back, by who has them or may.
LEMMA GiveFacts ==
    ASSUME device \in UsbDevices, NEW s \in Sessions, NEW numbers, NEW to \in {s, NoHolder},
           \A n \in numbers \cap Numbers : device.claimant[n] \in {s, NoHolder},
           device' = Give(numbers, to)
    PROVE  /\ device' \in UsbDevices
           /\ Claimed(s)' = IF to = s THEN Claimed(s) \cup (numbers \cap Numbers) ELSE Claimed(s) \ numbers
           /\ \A t \in Sessions \ {s} : Claimed(t)' = Claimed(t)
<1>1. PICK c : device = [claimant |-> c] /\ c \in [Numbers -> Holders]
  BY DEF UsbDevices
<1>. DEFINE e == [n \in Numbers |-> IF n \in numbers THEN to ELSE c[n]]
<1>2. device' = [claimant |-> e]
  BY <1>1 DEF Give
<1>3. e \in [Numbers -> Holders]
  BY <1>1 DEF Holders
<1>4. \A n \in Numbers : e[n] = IF n \in numbers THEN to ELSE c[n]
  OBVIOUS
<1>. HIDE DEF e
<1>5. \A t : Claimed(t) = {n \in Numbers : c[n] = t} /\ Claimed(t)' = {n \in Numbers : e[n] = t}
  BY <1>1, <1>2 DEF Claimed
<1>6. NoHolder \notin Sessions /\ \A n \in numbers \cap Numbers : c[n] \in {s, NoHolder}
  BY <1>1, DeviceAssumption
<1>7. \A t \in Sessions \ {s} : Claimed(t)' = Claimed(t)
  BY <1>4, <1>5, <1>6
<1>8. Claimed(s)' = IF to = s THEN Claimed(s) \cup (numbers \cap Numbers) ELSE Claimed(s) \ numbers
  <2>1. CASE to = s
    BY <1>4, <1>5, <1>6, <2>1
  <2>2. CASE to # s
    BY <1>4, <1>5, <1>6, <2>2
  <2>. QED BY <2>1, <2>2
<1>. QED BY <1>2, <1>3, <1>7, <1>8 DEF UsbDevices

LEMMA RecordedFacts ==
    ASSUME NEW x, IsCounters(x), NEW r, NEW i, i \in Interfaces
    PROVE  /\ IsCounters(Recorded(i, x, r))
           /\ i = "usb" => Recorded(i, x, r).claimed = Claims(x.claimed, r)
           /\ Recorded(i, x, r).written \in {x.written, x.written + Payload(r)}
<1>1. PICK w, c : x = [written |-> w, claimed |-> c] /\ w = x.written /\ c = x.claimed
  BY DEF IsCounters
<1>2. Sent(x, r) = [written |-> w + Payload(r), claimed |-> c]
  BY <1>1 DEF Sent
<1>. DEFINE d == Claims(c, r)
            y == [x EXCEPT !.claimed = Claims(@, r)]
<1>3. y = [written |-> w, claimed |-> d]
  BY <1>1
<1>. HIDE DEF y, d
<1>4. Sent(y, r) = [written |-> w + Payload(r), claimed |-> d]
  BY <1>3 DEF Sent
<1>5. UsbRecorded(x, r) \in {y, Sent(y, r)}
  BY DEF UsbRecorded, y
<1>. DEFINE z == Recorded(i, x, r)
            v == w + Payload(r)
<1>6. /\ i = "usb" => z = UsbRecorded(x, r)
      /\ i # "usb" => z \in {x, Sent(x, r)}
  BY DEF Recorded, I2cRecorded, SpiRecorded, UartRecorded
<1>. HIDE DEF z, v
<1>7. z \in {[written |-> w, claimed |-> c], [written |-> v, claimed |-> c],
             [written |-> w, claimed |-> d], [written |-> v, claimed |-> d]}
  BY <1>1, <1>2, <1>3, <1>4, <1>5, <1>6 DEF v
<1>8. i = "usb" => z \in {[written |-> w, claimed |-> d], [written |-> v, claimed |-> d]}
  BY <1>3, <1>4, <1>5, <1>6 DEF v
<1>9. IsCounters(z) /\ z.written \in {w, v} /\ (i = "usb" => z.claimed = d)
  BY <1>7, <1>8 DEF IsCounters
<1>. QED BY <1>1, <1>9 DEF z, v, d

\* The steps of a claim, told apart by what is left of them.
LEMMA StepsOfClaim ==
    ASSUME NEW r, NEW n, n = r.number
    PROVE  /\ ClaimSteps(r) \notin {<<>>, <<Step("alternate", n)>>, <<Step("release", n)>>}
           /\ Head(ClaimSteps(r)) = Step("claim", n)
           /\ Tail(ClaimSteps(r)) \in {<<>>, <<Step("alternate", n)>>}
           /\ Tail(ClaimSteps(r)) # ClaimSteps(r)
<1>. DEFINE a == Step("claim", n)
            b == Step("alternate", n)
<1>1. a.kind = "claim" /\ b.kind = "alternate" /\ Step("release", n).kind = "release"
  BY DEF Step
<1>2. ClaimSteps(r) = <<a>> \o (IF r.alternate THEN <<b>> ELSE <<>>)
  BY DEF ClaimSteps
<1>. HIDE DEF a, b
<1>3. <<a>> \o <<b>> = <<a, b>> /\ <<a>> \o <<>> = <<a>>
  <2>. DEFINE S == {a, b}
              p == <<a>>
              q == <<a, b>>
  <2>1. p \in Seq(S) /\ q \in Seq(S) /\ Len(p) = 1 /\ Len(q) = 2 /\ p[1] = a /\ q[1] = a /\ q[2] = b /\ b \in S
    OBVIOUS
  <2>. HIDE DEF p, q, S
  <2>2. p \o <<>> = p
    BY <2>1
  <2>3. p \o <<b>> = q
    <3>1. Len(q) = Len(p) + 1 /\ (\A j \in 1 .. Len(p) : q[j] = p[j]) /\ q[Len(p) + 1] = b
      BY <2>1
    <3>. QED BY <2>1, <3>1, OneMore
  <2>. QED BY <2>2, <2>3 DEF p, q
<1>4. ClaimSteps(r) \in {<<a>>, <<a, b>>}
  BY <1>2, <1>3
<1>5. /\ Len(<<a, b>>) = 2 /\ Head(<<a, b>>) = a /\ Tail(<<a, b>>) = <<b>>
      /\ Len(<<a>>) = 1 /\ Head(<<a>>) = a /\ Tail(<<a>>) = <<>>
      /\ Len(<<b>>) = 1 /\ Head(<<b>>) = b
  OBVIOUS
<1>6. a # b /\ a # Step("release", n)
  BY <1>1
<1>7. Len(<<>>) = 0
  OBVIOUS
<1>8. Head(ClaimSteps(r)) = a /\ Tail(ClaimSteps(r)) \in {<<>>, <<b>>} /\ ClaimSteps(r) # <<>>
  <2>. DEFINE p == <<a>>
              q == <<a, b>>
              o == <<b>>
  <2>1. /\ Len(q) = 2 /\ Head(q) = a /\ Tail(q) = o
        /\ Len(p) = 1 /\ Head(p) = a /\ Tail(p) = <<>>
    BY <1>5
  <2>2. ClaimSteps(r) \in {p, q}
    BY <1>4
  <2>. HIDE DEF p, q, o
  <2>3. Head(ClaimSteps(r)) = a /\ Tail(ClaimSteps(r)) \in {<<>>, o} /\ Len(ClaimSteps(r)) # 0
    BY <2>1, <2>2
  <2>. QED BY <1>7, <2>3 DEF o
<1>9. <<b>> # ClaimSteps(r) /\ <<Step("release", n)>> # ClaimSteps(r)
  <2>1. Head(<<b>>) = b /\ Head(<<Step("release", n)>>) = Step("release", n)
    OBVIOUS
  <2>. QED BY <1>6, <1>8, <2>1
<1>. QED BY <1>8, <1>9 DEF a, b

LEMMA OneStep ==
    ASSUME NEW a
    PROVE  <<a>> # <<>> /\ Head(<<a>>) = a /\ Tail(<<a>>) = <<>> /\ Tail(<<a>>) # <<a>>
OBVIOUS

LEMMA StepKinds ==
    ASSUME NEW kind, NEW n
    PROVE  Step(kind, n).kind = kind /\ Step(kind, n).number = n
BY DEF Step

LEMMA UsbSessions ==
    ASSUME UsbInv, OnUsb
    PROVE  device \in UsbDevices /\ \A t \in Sessions : UsbSession(t)
BY DEF UsbInv

LEMMA UsbOpens ==
    ASSUME Base, UsbInv, OnUsb, NEW s \in Sessions, BindUsb(s)
    PROVE  UsbInv'
<1>1. Bind(s, device, {}) /\ unsure' = unsure
  BY DEF BindUsb
<1>2. Others(s) /\ state[s] = "none" /\ state'[s] = "idle" /\ device' = device /\ book'[s] = {} /\ stats'[s] = Fresh
  BY <1>1, BindFacts
<1>3. device \in UsbDevices /\ Claimed(s) = {} /\ unsure[s] = {}
  BY <1>2, UsbSessions DEF UsbSession
<1>4. UsbSession(s)'
  BY <1>1, <1>2, <1>3, SameClaims DEF UsbSession, IsCounters, Fresh
<1>. QED BY <1>1, <1>2, <1>3, <1>4, SameClaims, UsbFrom

\* A usb call begins.
LEMMA UsbBegins ==
    ASSUME Base, UsbInv, OnUsb, NEW s \in Sessions, NEW r \in Requests[s].usb, BeginUsb(s, r)
    PROVE  UsbInv'
<1>1. BeginCall(s, r, UsbSteps(r)) /\ r \in Requests[s][interface] /\ backend = "linux"
  BY DEF BeginUsb, OnUsb
<1>2. /\ Others(s) /\ state[s] \in {"idle", "faulted"} /\ state'[s] = "busy" /\ call'[s] = Calling(r, UsbSteps(r))
      /\ UNCHANGED <<device, book, stats, delivered, unsure>>
  BY <1>1, BeginFacts
<1>3. call'[s].request = r /\ call'[s].steps = UsbSteps(r) /\ call'[s].failed = FALSE
  BY <1>2 DEF Calling
<1>4. InFlight(s)' = {} /\ InFlight(s) = {}
  BY <1>2, <1>3 DEF InFlight
<1>5. UsbCall(s)'
  BY <1>3 DEF UsbCall, ClaimCall, ReleaseCall, TransferCall, UsbSteps
<1>6. device \in UsbDevices /\ UsbSession(s)
  BY UsbSessions
<1>7. UsbSession(s)'
  BY <1>2, <1>4, <1>5, <1>6, SameClaims DEF UsbSession, IsCounters
<1>. QED BY <1>2, <1>6, <1>7, SameClaims, UsbFrom

\* What the next step of a call says of the call.
LEMMA UsbNext ==
    ASSUME UsbInv, OnUsb, NEW s \in Sessions, state[s] = "busy", call[s].steps # <<>>
    PROVE  LET c == call[s]
               n == c.request.number
               steps == c.steps
           IN  /\ NextStep(s) = Head(steps)
               /\ NextStep(s).kind = "claim" =>
                    /\ c.request.op = "claim_interface" /\ NextStep(s).number = n /\ c.failed = FALSE
                    /\ Tail(steps) \in {<<>>, <<Step("alternate", n)>>}
                    /\ Tail(steps) # UsbSteps(c.request)
               /\ NextStep(s).kind = "alternate" =>
                    /\ c.request.op = "claim_interface" /\ NextStep(s).number = n /\ c.failed = FALSE
                    /\ Tail(steps) = <<>> /\ n \in Claimed(s)
               /\ NextStep(s).kind = "release" =>
                    /\ NextStep(s).number = n /\ Tail(steps) = <<>>
                    /\ \/ c.request.op = "claim_interface" /\ c.failed = TRUE /\ n \in unsure[s]
                       \/ c.request.op = "release_interface" /\ c.failed = FALSE
               /\ NextStep(s).kind = "exchange" =>
                    /\ c.request.op \notin {"claim_interface", "release_interface"}
                    /\ c.failed = FALSE /\ Tail(steps) = <<>>
<1>. DEFINE c == call[s]
            n == c.request.number
            steps == c.steps
<1>1. UsbCall(s)
  BY UsbSessions DEF UsbSession
<1>2. NextStep(s) = Head(steps)
  BY DEF NextStep
<1>3. CASE c.request.op = "claim_interface"
  <2>1. ClaimCall(s) /\ UsbSteps(c.request) = ClaimSteps(c.request)
    BY <1>1, <1>3 DEF UsbCall, UsbSteps
  <2>2. CASE steps = ClaimSteps(c.request) /\ c.failed = FALSE
    BY <1>2, <1>3, <2>1, <2>2, StepsOfClaim, StepKinds
  <2>3. CASE steps = <<Step("alternate", n)>> /\ c.failed = FALSE /\ n \in Claimed(s)
    BY <1>2, <1>3, <2>3, OneStep, StepKinds
  <2>4. CASE steps = <<Step("release", n)>> /\ c.failed = TRUE /\ n \in unsure[s]
    BY <1>2, <1>3, <2>4, OneStep, StepKinds
  <2>. QED BY <2>1, <2>2, <2>3, <2>4 DEF ClaimCall
<1>4. CASE c.request.op = "release_interface"
  <2>1. steps = <<Step("release", n)>> /\ c.failed = FALSE
    BY <1>1, <1>4 DEF UsbCall, ReleaseCall
  <2>. QED BY <1>2, <1>4, <2>1, OneStep, StepKinds
<1>5. CASE c.request.op \notin {"claim_interface", "release_interface"}
  <2>1. steps = <<Step("exchange", 0)>> /\ c.failed = FALSE
    BY <1>1, <1>5 DEF UsbCall, TransferCall
  <2>. QED BY <1>2, <1>5, <2>1, OneStep, StepKinds
<1>. QED BY <1>3, <1>4, <1>5

\* A call that goes on: what it holds afterwards.
LEMMA UsbGoesOn ==
    ASSUME Base, UsbInv, OnUsb, NEW s \in Sessions, NEW steps, Continues(s, steps), book' = book,
           NEW numbers, Claimed(s)' \cup numbers = Claimed(s) \cup numbers,
           numbers \subseteq unsure'[s] \cup InFlight(s)', unsure[s] \subseteq unsure'[s],
           InFlight(s) \subseteq unsure'[s] \cup InFlight(s)', UsbCall(s)'
    PROVE  UsbSession(s)'
<1>1. state[s] = "busy" /\ state'[s] = "busy" /\ stats'[s] = stats[s] /\ book'[s] = book[s]
  BY DEF Continues
<1>2. UsbSession(s)
  BY UsbSessions
<1>3. ASSUME NEW n \in Numbers \ (unsure'[s] \cup InFlight(s)')
      PROVE  /\ n \in Numbers \ (unsure[s] \cup InFlight(s))
             /\ n \in Claimed(s)' <=> n \in Claimed(s)
  OBVIOUS
<1>4. \A n \in Numbers \ (unsure'[s] \cup InFlight(s)') : n \in book'[s] <=> n \in Claimed(s)'
  BY <1>1, <1>2, <1>3 DEF UsbSession
<1>5. \A n \in Numbers \ (unsure'[s] \cup InFlight(s)') : n \in stats'[s].claimed <=> n \in Claimed(s)'
  BY <1>1, <1>2, <1>3 DEF UsbSession
<1>6. IsCounters(stats[s])'
  BY <1>1, <1>2 DEF UsbSession, IsCounters
<1>. QED BY <1>1, <1>4, <1>5, <1>6 DEF UsbSession

\* A step of a call that leaves the device, or what it makes of a claim.
LEMMA ContinuesFacts ==
    ASSUME NEW s, NEW steps, Continues(s, steps)
    PROVE  /\ Others(s) /\ state[s] = "busy" /\ state'[s] = "busy"
           /\ call'[s].steps = steps /\ call'[s].request = call[s].request /\ call'[s].failed = call[s].failed
BY DEF Continues

\* Claiming an interface,
LEMMA ClaimKeepsUsb ==
    ASSUME Base, UsbInv, OnUsb, NEW s \in Sessions, TakeClaim(s)
    PROVE  UsbInv'
<1>. DEFINE c == call[s]
            n == c.request.number
            steps == Tail(c.steps)
<1>1. /\ Continues(s, steps) /\ NextStep(s).number \in Numbers
      /\ device.claimant[NextStep(s).number] \in {NoHolder, s}
      /\ device' = Give({NextStep(s).number}, s) /\ UNCHANGED <<book, unsure>>
      /\ c.steps # <<>> /\ NextStep(s).kind = "claim" /\ state[s] = "busy"
  BY UsbClaims DEF TakeClaim, AtStep
<1>2. /\ c.request.op = "claim_interface" /\ NextStep(s).number = n /\ c.failed = FALSE
      /\ steps \in {<<>>, <<Step("alternate", n)>>} /\ steps # UsbSteps(c.request)
  BY <1>1, UsbNext
<1>3. device \in UsbDevices /\ \A m \in {n} \cap Numbers : device.claimant[m] \in {s, NoHolder}
  BY <1>1, <1>2, UsbSessions
<1>. DEFINE numbers == {n}
<1>. HIDE DEF numbers
<1>4. /\ device' \in UsbDevices
      /\ Claimed(s)' = Claimed(s) \cup (numbers \cap Numbers)
      /\ \A t \in Sessions \ {s} : Claimed(t)' = Claimed(t)
  <2>1. device' = Give(numbers, s) /\ \A m \in numbers \cap Numbers : device.claimant[m] \in {s, NoHolder}
    BY <1>1, <1>2, <1>3 DEF numbers
  <2>. QED BY <1>3, <2>1, GiveFacts
<1>5. /\ Others(s) /\ state'[s] = "busy" /\ call'[s].steps = steps /\ call'[s].request = c.request
      /\ call'[s].failed = FALSE
  BY <1>1, <1>2, ContinuesFacts
<1>6. InFlight(s)' = numbers
  BY <1>2, <1>5 DEF InFlight, numbers, UsbSteps
<1>7. UsbCall(s)'
  <2>1. n \in Claimed(s)'
    BY <1>1, <1>2, <1>4 DEF numbers
  <2>. QED BY <1>2, <1>5, <2>1 DEF UsbCall, ClaimCall
<1>8. InFlight(s) \subseteq numbers
  BY <1>2 DEF InFlight, numbers
<1>9. Claimed(s)' \cup numbers = Claimed(s) \cup numbers
  BY <1>4
<1>. HIDE DEF steps
<1>10. UsbSession(s)'
  BY <1>1, <1>6, <1>7, <1>8, <1>9, UsbGoesOn
<1>. QED BY <1>1, <1>4, <1>5, <1>10, UsbFrom

\* choosing its setting,
LEMMA AlternateKeepsUsb ==
    ASSUME Base, UsbInv, OnUsb, NEW s \in Sessions, SetAlternate(s)
    PROVE  UsbInv'
<1>. DEFINE c == call[s]
            n == c.request.number
            steps == Tail(c.steps)
<1>1. /\ Continues(s, steps) /\ UNCHANGED <<device, book, unsure>>
      /\ c.steps # <<>> /\ NextStep(s).kind = "alternate" /\ state[s] = "busy"
  BY UsbAlternates DEF SetAlternate, AtStep
<1>2. /\ c.request.op = "claim_interface" /\ c.failed = FALSE /\ steps = <<>> /\ n \in Claimed(s)
  <2>1. NextStep(s).kind = "alternate" =>
            c.request.op = "claim_interface" /\ c.failed = FALSE /\ Tail(c.steps) = <<>> /\ n \in Claimed(s)
    BY <1>1, UsbNext, Zenon
  <2>. QED BY <1>1, <2>1
<1>3. device \in UsbDevices /\ \A t : Claimed(t)' = Claimed(t)
  BY <1>1, UsbSessions, SameClaims
<1>5. /\ Others(s) /\ state'[s] = "busy" /\ call'[s].steps = <<>> /\ call'[s].request = c.request
      /\ call'[s].failed = FALSE
  <2>1. Continues(s, steps)
    BY <1>1
  <2>2. /\ Others(s) /\ state'[s] = "busy" /\ call'[s].steps = steps /\ call'[s].request = call[s].request
        /\ call'[s].failed = call[s].failed
    BY ONLY <2>1, ContinuesFacts
  <2>. QED BY <1>2, <2>2
<1>6. InFlight(s)' = {n}
  BY <1>2, <1>5, StepsOfClaim DEF InFlight, UsbSteps
<1>7. UsbCall(s)'
  BY <1>2, <1>3, <1>5 DEF UsbCall, ClaimCall
<1>8. InFlight(s) \subseteq {n}
  BY <1>2 DEF InFlight
<1>. HIDE DEF steps
<1>. DEFINE numbers == {}
<1>9. Claimed(s)' \cup numbers = Claimed(s) \cup numbers /\ numbers \subseteq unsure'[s] \cup InFlight(s)'
  BY <1>3
<1>. HIDE DEF numbers
<1>10. UsbSession(s)'
  BY <1>1, <1>6, <1>7, <1>8, <1>9, UsbGoesOn
<1>. QED BY <1>1, <1>3, <1>5, <1>10, UsbFrom

\* giving it back when that fails,
LEMMA TakingBackKeepsUsb ==
    ASSUME Base, UsbInv, OnUsb, NEW s \in Sessions, AlternateFails(s)
    PROVE  UsbInv'
<1>. DEFINE c == call[s]
            n == c.request.number
<1>1. /\ Advance(s) /\ state[s] = "busy" /\ state' = state
      /\ c.steps # <<>> /\ NextStep(s).kind = "alternate"
      /\ call'[s].request = c.request
      /\ call'[s].steps = <<Step("release", NextStep(s).number)>> /\ call'[s].failed = TRUE
      /\ unsure'[s] = unsure[s] \cup {NextStep(s).number}
      /\ \A t \in Sessions \ {s} : unsure'[t] = unsure[t]
      /\ UNCHANGED <<device, book, stats>>
  BY UsbTakesBack
<1>2. /\ c.request.op = "claim_interface" /\ NextStep(s).number = n
  BY <1>1, UsbNext
<1>3. device \in UsbDevices /\ (\A t : Claimed(t)' = Claimed(t)) /\ UsbSession(s)
  BY <1>1, UsbSessions, SameClaims
<1>4. InFlight(s) \subseteq {n} /\ n \in unsure'[s] /\ unsure[s] \subseteq unsure'[s]
  BY <1>1, <1>2 DEF InFlight
<1>5. UsbCall(s)'
  BY <1>1, <1>2, <1>4 DEF UsbCall, ClaimCall
<1>6. ASSUME NEW m \in Numbers \ (unsure'[s] \cup InFlight(s)')
      PROVE  m \in Numbers \ (unsure[s] \cup InFlight(s))
  BY <1>4
<1>7. UsbSession(s)'
  BY <1>1, <1>3, <1>5, <1>6 DEF UsbSession, IsCounters
<1>8. Others(s)
  BY <1>1 DEF Advance
<1>. QED BY <1>1, <1>3, <1>7, <1>8, UsbFrom

\* and releasing it keep what is known of the claims.
LEMMA GivingBackKeepsUsb ==
    ASSUME Base, UsbInv, OnUsb, NEW s \in Sessions, GiveBack(s)
    PROVE  UsbInv'
<1>. DEFINE c == call[s]
            n == c.request.number
            steps == Tail(c.steps)
<1>1. /\ Continues(s, steps) /\ NextStep(s).number \in Claimed(s)
      /\ device' = Give({NextStep(s).number}, NoHolder) /\ UNCHANGED <<book, unsure>>
      /\ c.steps # <<>> /\ NextStep(s).kind = "release" /\ state[s] = "busy"
  BY UsbGivesBack DEF GiveBack, AtStep
<1>2. /\ NextStep(s).number = n /\ steps = <<>>
      /\ \/ c.request.op = "claim_interface" /\ c.failed = TRUE /\ n \in unsure[s]
         \/ c.request.op = "release_interface" /\ c.failed = FALSE
  BY <1>1, UsbNext
<1>3. device \in UsbDevices /\ device.claimant[n] = s
  BY <1>1, <1>2, UsbSessions DEF Claimed
<1>. DEFINE numbers == {n}
<1>. HIDE DEF numbers
<1>4. /\ device' \in UsbDevices
      /\ Claimed(s)' = Claimed(s) \ numbers
      /\ \A t \in Sessions \ {s} : Claimed(t)' = Claimed(t)
  <2>1. device' = Give(numbers, NoHolder) /\ \A m \in numbers \cap Numbers : device.claimant[m] \in {s, NoHolder}
    BY <1>1, <1>2, <1>3 DEF numbers
  <2>2. NoHolder # s
    BY DeviceAssumption
  <2>. QED BY <1>3, <2>1, <2>2, GiveFacts
<1>5. /\ Others(s) /\ state'[s] = "busy" /\ call'[s].steps = <<>> /\ call'[s].request = c.request
      /\ call'[s].failed = c.failed
  <2>1. Continues(s, steps) /\ steps = <<>>
    BY <1>1, <1>2
  <2>. HIDE DEF steps
  <2>2. /\ Others(s) /\ state'[s] = "busy" /\ call'[s].steps = steps
        /\ call'[s].request = c.request /\ call'[s].failed = c.failed
    BY <2>1, ContinuesFacts
  <2>. QED BY <2>1, <2>2
<1>6. InFlight(s)' = numbers
  <2>1. UsbSteps(c.request) # <<>>
    BY <1>2, StepsOfClaim, OneStep DEF UsbSteps
  <2>. QED BY <1>2, <1>5, <2>1 DEF InFlight, numbers
<1>7. UsbCall(s)'
  <2>1. n \notin Claimed(s)'
    BY <1>4 DEF numbers
  <2>. QED BY <1>1, <1>2, <1>5, <2>1 DEF UsbCall, ClaimCall, ReleaseCall
<1>8. InFlight(s) \subseteq numbers
  BY <1>2 DEF InFlight, numbers
<1>9. Claimed(s)' \cup numbers = Claimed(s) \cup numbers
  BY <1>4
<1>. HIDE DEF steps
<1>10. UsbSession(s)'
  BY <1>1, <1>6, <1>7, <1>8, <1>9, UsbGoesOn
<1>. QED BY <1>1, <1>4, <1>5, <1>10, UsbFrom

\* So do transfers,
LEMMA ExchangeKeepsUsb ==
    ASSUME Base, UsbInv, OnUsb, NEW s \in Sessions, Exchange(s)
    PROVE  UsbInv'
<1>. DEFINE c == call[s]
            steps == Tail(c.steps)
<1>1. /\ Continues(s, steps) /\ UNCHANGED <<device, book, unsure>>
      /\ c.steps # <<>> /\ NextStep(s).kind = "exchange" /\ state[s] = "busy"
  BY UsbExchanges DEF Exchange, AtStep
<1>2. /\ c.request.op \notin {"claim_interface", "release_interface"} /\ c.failed = FALSE /\ steps = <<>>
  BY <1>1, UsbNext
<1>3. device \in UsbDevices /\ \A t : Claimed(t)' = Claimed(t)
  BY <1>1, UsbSessions, SameClaims
<1>5. /\ Others(s) /\ state'[s] = "busy" /\ call'[s].steps = <<>> /\ call'[s].request = c.request
      /\ call'[s].failed = FALSE
  <2>1. Continues(s, steps)
    BY <1>1
  <2>2. /\ Others(s) /\ state'[s] = "busy" /\ call'[s].steps = steps /\ call'[s].request = call[s].request
        /\ call'[s].failed = call[s].failed
    BY ONLY <2>1, ContinuesFacts
  <2>. QED BY <1>2, <2>2
<1>6. InFlight(s) = {}
  BY <1>2 DEF InFlight
<1>7. UsbCall(s)'
  BY <1>2, <1>5 DEF UsbCall, TransferCall
<1>. HIDE DEF steps
<1>. DEFINE numbers == {}
<1>9. Claimed(s)' \cup numbers = Claimed(s) \cup numbers /\ numbers \subseteq unsure'[s] \cup InFlight(s)'
  BY <1>3
<1>. HIDE DEF numbers
<1>10. UsbSession(s)'
  BY <1>1, <1>6, <1>7, <1>9, UsbGoesOn
<1>. QED BY <1>1, <1>3, <1>5, <1>10, UsbFrom

\* The call has succeeded: what it did is remembered, and what it left open is not.
LEMMA FinishKeepsUsb ==
    ASSUME Base, UsbInv, OnUsb, NEW s \in Sessions, FinishUsb(s)
    PROVE  UsbInv'
<1>. DEFINE c == call[s]
            r == c.request
            n == r.number
            touched == IF r.op \in {"claim_interface", "release_interface"} THEN {n} ELSE {}
<1>1. /\ Advance(s) /\ state[s] = "busy" /\ state'[s] = "idle"
      /\ c.steps = <<>> /\ ~ c.failed
      /\ book'[s] = Remember(s)
      /\ stats'[s] = Recorded(interface, stats[s], r)
      /\ unsure'[s] = unsure[s] \ touched
      /\ \A t \in Sessions \ {s} : unsure'[t] = unsure[t]
      /\ device' = device
  BY UsbFinishes
<1>2. device \in UsbDevices /\ (\A t : Claimed(t)' = Claimed(t)) /\ UsbSession(s)
  BY <1>1, UsbSessions, SameClaims
<1>3. InFlight(s) \subseteq touched /\ InFlight(s)' = {} /\ Others(s)
  BY <1>1 DEF InFlight, Advance
<1>4. /\ r.op = "claim_interface" => n \in Claimed(s)
      /\ r.op = "release_interface" => n \notin Claimed(s)
  <2>1. UsbCall(s)
    BY <1>1, <1>2 DEF UsbSession
  <2>2. r.op = "release_interface" => n \notin Claimed(s)
    BY <1>1, <2>1, OneStep DEF UsbCall, ReleaseCall
  <2>3. r.op = "claim_interface" => n \in Claimed(s)
    BY <1>1, <2>1, OneStep, StepsOfClaim DEF UsbCall, ClaimCall
  <2>. QED BY <2>2, <2>3
<1>5. IsCounters(stats'[s]) /\ stats'[s].claimed = Claims(stats[s].claimed, r)
  BY <1>1, <1>2, RecordedFacts, Transports DEF UsbSession, OnUsb, Base
<1>6. ASSUME NEW m \in Numbers \ (unsure'[s] \cup InFlight(s)')
      PROVE  (m \in book'[s] <=> m \in Claimed(s)') /\ (m \in stats'[s].claimed <=> m \in Claimed(s)')
  <2>1. CASE m \in touched
    <3>1. m = n /\ r.op \in {"claim_interface", "release_interface"}
      BY <2>1
    <3>. QED BY <1>1, <1>2, <1>4, <1>5, <3>1 DEF Remember, Claims
  <2>2. CASE m \notin touched
    <3>1. m \in Numbers \ (unsure[s] \cup InFlight(s))
      BY <1>1, <1>3, <2>2
    <3>2. (m \in book[s] <=> m \in Claimed(s)) /\ (m \in stats[s].claimed <=> m \in Claimed(s))
      BY <1>1, <1>2, <3>1 DEF UsbSession
    <3>. QED BY <1>1, <1>2, <1>5, <2>2, <3>2 DEF Remember, Claims
  <2>. QED BY <2>1, <2>2
<1>7. UsbSession(s)'
  BY <1>1, <1>5, <1>6 DEF UsbSession, IsCounters
<1>. QED BY <1>1, <1>2, <1>3, <1>7, UsbFrom

\* A call that fails has said what it left open.
LEMMA FailKeepsUsb ==
    ASSUME Base, UsbInv, OnUsb, NEW s \in Sessions, Fail(s)
    PROVE  UsbInv'
<1>. DEFINE c == call[s]
            n == c.request.number
<1>1. /\ Others(s) /\ state[s] = "busy" /\ state'[s] = "faulted"
      /\ c.steps = <<>> => c.failed
      /\ c.steps # <<>> => NextStep(s).kind # "alternate"
      /\ UNCHANGED <<device, book, stats, unsure>>
  BY FailFacts
<1>2. device \in UsbDevices /\ (\A t : Claimed(t)' = Claimed(t)) /\ UsbSession(s) /\ UsbCall(s)
  BY <1>1, UsbSessions, SameClaims DEF UsbSession
<1>3. InFlight(s) \subseteq unsure[s]
  <2>. SUFFICES ASSUME c.request.op \in {"claim_interface", "release_interface"},
                       c.steps # UsbSteps(c.request)
                PROVE  n \in unsure[s]
    BY DEF InFlight
  <2>1. CASE c.request.op = "release_interface"
    <3>1. c.steps = <<>> /\ c.failed = FALSE
      BY <1>2, <2>1 DEF UsbCall, ReleaseCall, UsbSteps
    <3>. QED BY <1>1, <3>1
  <2>2. CASE c.request.op = "claim_interface"
    <3>1. ClaimCall(s) /\ c.steps # ClaimSteps(c.request)
      BY <1>2, <2>2 DEF UsbCall, UsbSteps
    <3>2. ASSUME c.steps = <<Step("alternate", n)>> PROVE FALSE
      <4>1. c.steps # <<>> /\ Head(c.steps) = Step("alternate", n)
        BY <3>2, OneStep
      <4>. QED BY <1>1, <4>1, StepKinds DEF NextStep
    <3>3. ~ (c.steps = <<>> /\ c.failed = FALSE)
      BY <1>1
    <3>. QED BY <3>1, <3>2, <3>3 DEF ClaimCall
  <2>. QED BY <2>1, <2>2
<1>4. InFlight(s)' = {}
  BY <1>1 DEF InFlight
<1>5. UsbSession(s)'
  BY <1>1, <1>2, <1>3, <1>4 DEF UsbSession, IsCounters
<1>. QED BY <1>1, <1>2, <1>5, UsbFrom

\* closing,
LEMMA CloseKeepsUsb ==
    ASSUME Base, UsbInv, OnUsb, NEW s \in Sessions, CloseUsb(s)
    PROVE  UsbInv'
<1>1. /\ Others(s) /\ state[s] \in {"idle", "faulted", "closed"} /\ state'[s] = "closed"
      /\ book'[s] = {} /\ UNCHANGED <<stats, unsure>>
  <2>1. UNCHANGED unsure /\ state' = [state EXCEPT ![s] = "closed"]
    BY DEF CloseUsb, driverVars
  <2>2. OfSessions(state)
    BY StateShape
  <2>3. state'[s] = "closed"
    BY <2>1, <2>2 DEF OfSessions
  <2>. QED BY <2>1, <2>3, UsbCloses DEF Advance
<1>2. device \in UsbDevices /\ UsbSession(s)
  BY UsbSessions
<1>. DEFINE numbers == book[s]
<1>. HIDE DEF numbers
<1>3. /\ device' \in UsbDevices /\ Claimed(s)' = Claimed(s) \ numbers
      /\ \A t \in Sessions \ {s} : Claimed(t)' = Claimed(t)
  <2>1. device' = Give(numbers, NoHolder) /\ \A m \in numbers \cap Numbers : device.claimant[m] \in {s, NoHolder}
    BY DEF CloseUsb, Claimed, numbers
  <2>2. NoHolder # s
    BY DeviceAssumption
  <2>. QED BY <1>2, <2>1, <2>2, GiveFacts
<1>4. InFlight(s) = {} /\ InFlight(s)' = {}
  BY <1>1 DEF InFlight
<1>5. UsbSession(s)'
  BY <1>1, <1>2, <1>3, <1>4 DEF UsbSession, IsCounters, numbers
<1>. QED BY <1>1, <1>3, <1>5, UsbFrom

\* closing when an interface is not given back,
LEMMA CloseFailingKeepsUsb ==
    ASSUME Base, UsbInv, OnUsb, NEW s \in Sessions, CloseFails(s)
    PROVE  UsbInv'
<1>1. /\ Others(s) /\ state[s] \in {"idle", "faulted", "closed"}
      /\ book'[s] = {} /\ UNCHANGED stats
      /\ \A t \in Sessions \ {s} : unsure'[t] = unsure[t]
  BY UsbCloses DEF Advance
<1>2. state' = state /\ unsure'[s] = unsure[s] \cup book[s]
  <2>1. state' = state /\ unsure' = [unsure EXCEPT ![s] = @ \cup book[s]]
    BY DEF CloseFails
  <2>. QED BY <2>1 DEF Base, OfSessions
<1>3. device \in UsbDevices /\ UsbSession(s)
  BY UsbSessions
<1>4. PICK numbers : /\ numbers \subseteq book[s] /\ numbers \subseteq Claimed(s)
                     /\ device' = Give(numbers, NoHolder)
  <2>1. PICK n \in book[s] : LET before == {m \in book[s] : m < n} IN
                                /\ before \subseteq Claimed(s)
                                /\ device' = Give(before, NoHolder)
    BY DEF CloseFails
  <2>. DEFINE before == {m \in book[s] : m < n}
  <2>2. before \subseteq book[s] /\ before \subseteq Claimed(s) /\ device' = Give(before, NoHolder)
    BY <2>1
  <2>. HIDE DEF before
  <2>. QED BY <2>2
<1>5. /\ device' \in UsbDevices /\ Claimed(s)' = Claimed(s) \ numbers
      /\ \A t \in Sessions \ {s} : Claimed(t)' = Claimed(t)
  <2>1. \A m \in numbers \cap Numbers : device.claimant[m] \in {s, NoHolder}
    BY <1>4 DEF Claimed
  <2>2. NoHolder # s
    BY DeviceAssumption
  <2>. QED BY <1>3, <1>4, <2>1, <2>2, GiveFacts
<1>6. InFlight(s) = {} /\ InFlight(s)' = {}
  BY <1>1, <1>2 DEF InFlight
<1>7. UsbSession(s)'
  BY <1>1, <1>2, <1>3, <1>4, <1>5, <1>6 DEF UsbSession, IsCounters
<1>. QED BY <1>1, <1>5, <1>7, UsbFrom

\* and dropping.
LEMMA DropKeepsUsb ==
    ASSUME Base, UsbInv, OnUsb, NEW s \in Sessions, Drop(s, Give(Claimed(s), NoHolder))
    PROVE  UsbInv'
<1>. DEFINE numbers == Claimed(s)
<1>1. \A m \in numbers \cap Numbers : device.claimant[m] \in {s, NoHolder}
  BY DEF Claimed
<1>. HIDE DEF numbers
<1>2. /\ Others(s) /\ state'[s] = "none" /\ device' = Give(numbers, NoHolder) /\ unsure'[s] = {}
      /\ \A t \in Sessions \ {s} : unsure'[t] = unsure[t]
      /\ UNCHANGED stats
  <2>1. Drop(s, Give(numbers, NoHolder))
    BY DEF numbers
  <2>. QED BY <2>1, DropFacts
<1>3. device \in UsbDevices /\ UsbSession(s)
  BY UsbSessions
<1>4. /\ device' \in UsbDevices /\ Claimed(s)' = Claimed(s) \ numbers
      /\ \A t \in Sessions \ {s} : Claimed(t)' = Claimed(t)
  <2>1. NoHolder # s
    BY DeviceAssumption
  <2>. QED BY <1>1, <1>2, <1>3, <2>1, GiveFacts
<1>5. UsbSession(s)'
  BY <1>2, <1>3, <1>4 DEF UsbSession, IsCounters, numbers
<1>. QED BY <1>2, <1>4, <1>5, UsbFrom

\* Every step of a usb session keeps what is known.
LEMMA UsbStepKeeps ==
    ASSUME Base, UsbInv, OnUsb, NEW s \in Sessions, UsbStep(s) \/ Fail(s)
    PROVE  UsbInv'
BY UsbOpens, UsbBegins, ClaimKeepsUsb, AlternateKeepsUsb, TakingBackKeepsUsb, GivingBackKeepsUsb,
   ExchangeKeepsUsb, FinishKeepsUsb, FailKeepsUsb, CloseKeepsUsb, CloseFailingKeepsUsb, DropKeepsUsb
   DEF UsbStep

-----------------------------------------------------------------------------
(* What sessions know of their device *)

\* What the sessions of every transport know of their device.
DeviceInv == I2cInv /\ SerialInv /\ CdevInv /\ UsbInv

\* Whichever transport a behaviour is about, it is about it for good.
LEMMA FixedTransport ==
    ASSUME Base, I2cType, [Next]_deviceVars
    PROVE  /\ UNCHANGED fixedVars
           /\ OnI2c' = OnI2c /\ OnSerial' = OnSerial /\ OnCdev' = OnCdev /\ OnUsb' = OnUsb /\ OnMock' = OnMock
<1>1. UNCHANGED fixedVars
  BY StepAdvances DEF Advance, Others
<1>. QED BY <1>1 DEF fixedVars, OnI2c, OnSerial, OnCdev, OnUsb, OnMock

LEMMA NothingKeepsDevices ==
    ASSUME DeviceInv, UNCHANGED deviceVars
    PROVE  SerialInv' /\ CdevInv' /\ UsbInv'
<1>1. UNCHANGED <<interface, backend, access, device, state, book, call, stats, unsure>>
  BY DEF deviceVars, fixedVars, driverVars
<1>2. SerialInv'
  <2>1. CASE ~ OnSerial
    BY <1>1, <2>1 DEF SerialInv, OnSerial
  <2>2. CASE OnSerial
    <3>1. device' \in [settings : Settings, holder : Holders] /\ UNCHANGED fixedVars
      BY <1>1, <2>2, SerialDevice DEF DeviceInv, fixedVars
    <3>2. \A t \in Sessions : Holds(t, state'[t], book'[t], call'[t], unsure'[t], device')
      BY <1>1, <2>2, SerialDevice DEF DeviceInv, SerialSession
    <3>. QED BY <2>2, <3>1, <3>2, SerialFrom
  <2>. QED BY <2>1, <2>2
<1>3. CdevInv'
  BY <1>1 DEF DeviceInv, CdevInv, CdevSession, OnCdev, Settings, FieldNames, LineInfo, CanWrite
<1>4. UsbInv'
  <2>1. \A t : Claimed(t)' = Claimed(t) /\ InFlight(t)' = InFlight(t)
    BY <1>1 DEF Claimed, InFlight
  <2>2. \A t : UsbCall(t)' = UsbCall(t)
    BY <1>1, <2>1 DEF UsbCall, ClaimCall, ReleaseCall, TransferCall
  <2>. QED BY <1>1, <2>1, <2>2 DEF DeviceInv, UsbInv, UsbSession, OnUsb, IsCounters
<1>. QED BY <1>2, <1>3, <1>4

\* Every step keeps it,
LEMMA DeviceInvStep ==
    ASSUME DeviceInv, [Next]_deviceVars
    PROVE  DeviceInv'
<1>1. Base /\ I2cType /\ I2cInv' /\ SerialInv /\ CdevInv /\ UsbInv
  BY I2cInvStep DEF DeviceInv, I2cInv
<1>2. OnI2c' = OnI2c /\ OnSerial' = OnSerial /\ OnCdev' = OnCdev /\ OnUsb' = OnUsb /\ OnMock' = OnMock
  BY <1>1, FixedTransport
<1>3. SerialInv'
  <2>1. CASE ~ OnSerial
    BY <1>2, <2>1 DEF SerialInv
  <2>2. CASE OnSerial
    <3>1. ASSUME NEW s \in Sessions, SerialStep(s) \/ Fail(s) PROVE SerialInv'
      BY <1>1, <2>2, <3>1, SerialStepKeeps
    <3>. QED BY <2>2, <3>1, WhoSteps, Transports, NothingKeepsDevices
  <2>. QED BY <2>1, <2>2
<1>4. CdevInv'
  <2>1. CASE ~ OnCdev
    BY <1>2, <2>1 DEF CdevInv
  <2>2. CASE OnCdev
    <3>1. ASSUME NEW s \in Sessions, CdevStep(s) \/ Fail(s) PROVE CdevInv'
      BY <1>1, <2>2, <3>1, CdevStepKeeps
    <3>2. LineChanges => CdevInv'
      BY <1>1, LineKeepsCdev
    <3>. QED BY <2>2, <3>1, <3>2, WhoSteps, Transports, NothingKeepsDevices
  <2>. QED BY <2>1, <2>2
<1>5. UsbInv'
  <2>1. CASE ~ OnUsb
    BY <1>2, <2>1 DEF UsbInv
  <2>2. CASE OnUsb
    <3>1. ASSUME NEW s \in Sessions, UsbStep(s) \/ Fail(s) PROVE UsbInv'
      BY <1>1, <2>2, <3>1, UsbStepKeeps
    <3>. QED BY <2>2, <3>1, WhoSteps, Transports, NothingKeepsDevices
  <2>. QED BY <2>1, <2>2
<1>. QED BY <1>1, <1>3, <1>4, <1>5 DEF DeviceInv

\* and it is true at the start.
LEMMA DeviceInvInit ==
    ASSUME Init
    PROVE  DeviceInv
<1>1. /\ \A s \in Sessions : state[s] = "none" /\ unsure[s] = {} /\ call[s] = NoCall /\ stats[s] = Fresh
      /\ 0 \in Values
  BY SerialAssumption DEF Init
<1>2. ASSUME SerialInit
      PROVE  device \in [settings : Settings, holder : Holders]
  <2>. DEFINE x == [f \in ToSet(Fields[interface]) |-> 0]
  <2>1. device = [settings |-> x, holder |-> NoHolder] /\ x \in Settings
    BY <1>1, <1>2 DEF SerialInit, Settings, FieldNames
  <2>. HIDE DEF x
  <2>. QED BY <2>1 DEF Holders
<1>3. SerialInv
  <2>1. OnSerial => SerialInit
    BY DEF Init, OnSerial, I2cInit, UsbInit, MockInit
  <2>. QED BY <1>1, <1>2, <2>1 DEF SerialInv, SerialSession, Holds
<1>4. CdevInv
  <2>1. OnCdev => SerialInit
    BY DEF Init, OnCdev, I2cInit, UsbInit, MockInit
  <2>. QED BY <1>1, <1>2, <2>1 DEF CdevInv, CdevSession
<1>5. UsbInv
  <2>. SUFFICES ASSUME OnUsb
                PROVE  device \in UsbDevices /\ \A s \in Sessions : UsbSession(s)
    BY DEF UsbInv
  <2>. DEFINE x == [n \in Numbers |-> NoHolder]
  <2>1. device = [claimant |-> x]
    BY DEF Init, OnUsb, I2cInit, SerialInit, MockInit, UsbInit
  <2>2. x \in [Numbers -> Holders] /\ \A n \in Numbers : x[n] = NoHolder
    BY DEF Holders
  <2>. HIDE DEF x
  <2>3. device \in UsbDevices
    BY <2>1, <2>2 DEF UsbDevices
  <2>4. \A s \in Sessions : Claimed(s) = {}
    BY <2>1, <2>2, DeviceAssumption DEF Claimed
  <2>5. \A s \in Sessions : IsCounters(stats[s])
    BY <1>1 DEF IsCounters, Fresh
  <2>. QED BY <1>1, <2>3, <2>4, <2>5 DEF UsbSession
<1>. QED BY <1>3, <1>4, <1>5, I2cInvInit DEF DeviceInv

\* It is an invariant.
THEOREM DeviceInvariant == Spec => []DeviceInv
<1>1. Init => DeviceInv
  BY DeviceInvInit
<1>2. DeviceInv /\ [Next]_deviceVars => DeviceInv'
  BY DeviceInvStep
<1>. QED BY <1>1, <1>2, PTL DEF Spec

\* Between two calls the state that a session reports is that of the device: the
\* address selected on the bus, the settings of a port, the level of a line and
\* the interfaces claimed, but for what another session or a failed undo may have
\* changed (crates/lemnos-linux, what the sessions keep beside their handles).
THEOREM DevicesKnown == Spec => []SessionsKnowTheirDevice
<1>1. DeviceInv => SessionsKnowTheirDevice
  <2>. SUFFICES ASSUME DeviceInv, NEW s \in Sessions, backend = "linux", state[s] \notin {"none", "busy"}
                PROVE  CASE interface = "i2c" -> book[s] = device.selected[s]
                         [] interface \in {"spi", "uart"} ->
                                \A f \in DOMAIN device.settings \ unsure[s] :
                                    Reported(s).settings[f] = device.settings[f]
                         [] interface = "gpio" ->
                                device.holder = s /\ Reported(s).settings["output"] = device.settings["output"]
                         [] interface = "usb" ->
                                \A n \in Numbers \ unsure[s] : n \in book[s] <=> n \in Claimed(s)
    BY DEF SessionsKnowTheirDevice
  <2>0. interface \in {"i2c", "spi", "uart", "gpio", "usb"}
    <3>1. DOMAIN Operations = {"i2c", "spi", "uart", "gpio", "usb", "pwm"}
      BY DEF Operations
    <3>. QED BY <3>1 DEF DeviceInv, I2cInv, Base, Interfaces
  <2>1. interface = "i2c" => book[s] = device.selected[s]
    BY DEF DeviceInv, I2cInv, I2cType, OnI2c
  <2>2. ASSUME interface \in {"spi", "uart"}, NEW f \in DOMAIN device.settings \ unsure[s]
        PROVE  Reported(s).settings[f] = device.settings[f]
    <3>1. OnSerial /\ SerialInv
      BY <2>2 DEF OnSerial, DeviceInv
    <3>2. device.settings \in Settings /\ SerialSession(s)
      BY <3>1, SerialDevice
    <3>3. f \in FieldNames \ unsure[s]
      BY <3>2 DEF Settings
    <3>4. Reported(s).settings = book[s]
      BY <2>2 DEF Reported, StateOf, SpiState, UartState
    <3>. QED BY <3>2, <3>3, <3>4 DEF SerialSession, Holds
  <2>3. ASSUME interface = "gpio"
        PROVE  device.holder = s /\ Reported(s).settings["output"] = device.settings["output"]
    <3>1. CdevSession(s)
      BY <2>3 DEF OnCdev, DeviceInv, CdevInv
    <3>2. Reported(s).settings = book[s]
      BY <2>3 DEF Reported, StateOf, GpioState
    <3>. QED BY <3>1, <3>2 DEF CdevSession, LineInfo
  <2>4. ASSUME interface = "usb"
        PROVE  \A n \in Numbers \ unsure[s] : n \in book[s] <=> n \in Claimed(s)
    <3>1. UsbSession(s)
      BY <2>4 DEF OnUsb, DeviceInv, UsbInv
    <3>2. InFlight(s) = {}
      BY DEF InFlight
    <3>. QED BY <3>1, <3>2 DEF UsbSession
  <2>. QED BY <2>0, <2>1, <2>2, <2>3, <2>4
<1>. QED BY <1>1, DeviceInvariant, PTL

-----------------------------------------------------------------------------
(* What the steps of a call carry *)

\* The bytes that a step carries to the device.
Weight(step) == IF "carries" \in DOMAIN step THEN step.carries ELSE 0

Weighed(S) == \A step \in S : Weight(step) \in Nat

Weights(steps) == [k \in 1 .. Len(steps) |-> [d \in Nat |-> d + Weight(steps[k])]]

\* The bytes that have reached the device, d before, once the steps are made.
Carried(d, steps) == Result(Nat, d, Weights(steps))

LEMMA WeightsType ==
    ASSUME NEW S, Weighed(S), NEW steps \in Seq(S)
    PROVE  Weights(steps) \in Effects(Nat) /\ Len(Weights(steps)) = Len(steps)
<1>1. Len(steps) \in Nat /\ \A k \in 1 .. Len(steps) : Weight(steps[k]) \in Nat
  BY DEF Weighed
<1>2. \A k \in 1 .. Len(steps) : [d \in Nat |-> d + Weight(steps[k])] \in [Nat -> Nat]
  BY <1>1
<1>. DEFINE g == Weights(steps)
<1>3. DOMAIN g = 1 .. Len(steps) /\ g = [k \in 1 .. Len(steps) |-> g[k]] /\ \A k \in 1 .. Len(steps) : g[k] \in [Nat -> Nat]
  BY <1>2 DEF Weights
<1>. HIDE DEF g
<1>4. g \in Seq([Nat -> Nat]) /\ Len(g) = Len(steps)
  <2>. DEFINE M == [Nat -> Nat]
              n == Len(steps)
  <2>1. n \in Nat /\ g \in [1 .. n -> M]
    BY <1>1, <1>3
  <2>. HIDE DEF M, n
  <2>2. g \in Seq(M) /\ Len(g) = n
    BY <2>1
  <2>. QED BY <2>2 DEF M, n
<1>. QED BY <1>4 DEF g, Effects

LEMMA CarriedType ==
    ASSUME NEW S, Weighed(S), NEW steps \in Seq(S), NEW d \in Nat
    PROVE  Carried(d, steps) \in Nat
BY WeightsType, ResultType DEF Carried

LEMMA CarriedOfNone ==
    ASSUME NEW d \in Nat
    PROVE  Carried(d, <<>>) = d
<1>1. Weights(<<>>) = <<>>
  BY DEF Weights
<1>. QED BY <1>1, ResultOfNone DEF Carried

LEMMA CarriedOfOne ==
    ASSUME NEW step, Weight(step) \in Nat, NEW d \in Nat
    PROVE  Carried(d, <<step>>) = d + Weight(step)
<1>. DEFINE f == [e \in Nat |-> e + Weight(step)]
<1>1. Weights(<<step>>) = <<f>>
  BY DEF Weights
<1>2. f \in [Nat -> Nat] /\ f[d] = d + Weight(step)
  OBVIOUS
<1>. HIDE DEF f
<1>. QED BY <1>1, <1>2, ResultOfOne DEF Carried

\* Steps carry what their parts carry.
LEMMA CarriedOfBoth ==
    ASSUME NEW S, Weighed(S), NEW a \in Seq(S), NEW b \in Seq(S), NEW d \in Nat
    PROVE  Carried(d, a \o b) = Carried(Carried(d, a), b)
<1>1. Weights(a \o b) = Weights(a) \o Weights(b)
  <2>1. /\ a \o b \in Seq(S) /\ Len(a \o b) = Len(a) + Len(b) /\ Len(a) \in Nat /\ Len(b) \in Nat
        /\ \A k \in 1 .. Len(a) + Len(b) : (a \o b)[k] = IF k <= Len(a) THEN a[k] ELSE b[k - Len(a)]
    OBVIOUS
  <2>. DEFINE g == Weights(a)
              h == Weights(b)
              gh == Weights(a \o b)
  <2>2. /\ g \in Seq([Nat -> Nat]) /\ Len(g) = Len(a)
        /\ h \in Seq([Nat -> Nat]) /\ Len(h) = Len(b)
        /\ gh \in Seq([Nat -> Nat]) /\ Len(gh) = Len(a) + Len(b)
    BY <2>1, WeightsType DEF Effects
  <2>3. \A k \in 1 .. Len(a) + Len(b) : gh[k] = IF k <= Len(a) THEN g[k] ELSE h[k - Len(a)]
    BY <2>1 DEF Weights
  <2>. HIDE DEF g, h, gh
  <2>. DEFINE N == [Nat -> Nat]
  <2>4. /\ g \o h \in Seq(N) /\ Len(g \o h) = Len(g) + Len(h)
        /\ \A k \in 1 .. Len(g) + Len(h) : (g \o h)[k] = IF k <= Len(g) THEN g[k] ELSE h[k - Len(g)]
    <3>1. g \in Seq(N) /\ h \in Seq(N)
      BY <2>2
    <3>. HIDE DEF N
    <3>. QED BY <3>1, ConcatProperties
  <2>5. \A k \in 1 .. Len(gh) : gh[k] = (g \o h)[k]
    BY <2>2, <2>3, <2>4
  <2>6. gh = g \o h
    BY <2>2, <2>4, <2>5, SeqEqual
  <2>. QED BY <2>6 DEF g, h, gh
<1>. DEFINE g == Weights(a)
            h == Weights(b)
<1>2. g \in Effects(Nat) /\ h \in Effects(Nat)
  BY WeightsType
<1>. HIDE DEF g, h
<1>3. Result(Nat, d, g \o h) = Result(Nat, Result(Nat, d, g), h)
  <2>. DEFINE N == Nat
  <2>0. d \in N /\ g \in Effects(N) /\ h \in Effects(N)
    BY <1>2
  <2>. HIDE DEF N
  <2>1. Result(N, d, g \o h) = Result(N, Result(N, d, g), h)
    BY <2>0, ResultOfBoth
  <2>. QED BY <2>1 DEF N
<1>. QED BY <1>1, <1>3 DEF Carried, g, h

LEMMA CarriedOfFirst ==
    ASSUME NEW S, Weighed(S), NEW steps \in Seq(S), steps # <<>>, NEW d \in Nat
    PROVE  /\ Head(steps) \in S /\ Tail(steps) \in Seq(S) /\ Weight(Head(steps)) \in Nat
           /\ Carried(d, steps) = Carried(d + Weight(Head(steps)), Tail(steps))
<1>1. /\ Head(steps) \in S /\ Tail(steps) \in Seq(S)
      /\ steps = <<Head(steps)>> \o Tail(steps)
  OBVIOUS
<1>2. Weight(Head(steps)) \in Nat
  BY <1>1 DEF Weighed
<1>. DEFINE a == <<Head(steps)>>
            b == Tail(steps)
<1>3. a \in Seq(S) /\ b \in Seq(S) /\ steps = a \o b
  BY <1>1
<1>. HIDE DEF a, b
<1>4. Carried(d, a \o b) = Carried(Carried(d, a), b)
  BY <1>3, CarriedOfBoth
<1>5. Carried(d, steps) = Carried(Carried(d, <<Head(steps)>>), Tail(steps))
  BY <1>3, <1>4 DEF a, b
<1>6. Carried(d, <<Head(steps)>>) = d + Weight(Head(steps))
  BY <1>2, CarriedOfOne
<1>. QED BY <1>1, <1>2, <1>5, <1>6

\* The sum, added up in any other way.
LEMMA CarriedIs ==
    ASSUME NEW S, Weighed(S), NEW steps \in Seq(S), NEW d \in Nat,
           NEW F \in [0 .. Len(steps) -> Nat], F[0] = d,
           \A k \in 1 .. Len(steps) : F[k] = F[k - 1] + Weight(steps[k])
    PROVE  Carried(d, steps) = F[Len(steps)]
<1>. DEFINE g == Weights(steps)
<1>1. g \in Effects(Nat) /\ Len(g) = Len(steps) /\ Len(steps) \in Nat
  BY WeightsType
<1>2. ASSUME NEW k \in 1 .. Len(steps)
      PROVE  F[k] = g[k][F[k - 1]]
  <2>1. k - 1 \in 0 .. Len(steps)
    BY <1>1
  <2>2. F[k - 1] \in Nat
    BY <2>1
  <2>3. g[k] = [e \in Nat |-> e + Weight(steps[k])]
    BY DEF Weights
  <2>. QED BY <2>2, <2>3
<1>. HIDE DEF g
<1>3. Iterates(F, Nat, d, Len(g), g)
  BY <1>1, <1>2 DEF Iterates
<1>4. Result(Nat, d, g) = F[Len(steps)]
  <2>. DEFINE N == Nat
  <2>0. d \in N /\ g \in Effects(N) /\ Iterates(F, N, d, Len(g), g)
    BY <1>1, <1>3
  <2>. HIDE DEF N
  <2>a. Result(N, d, g) = F[Len(g)]
    BY <2>0, ResultIs
  <2>1. Result(Nat, d, g) = F[Len(g)]
    BY <2>a DEF N
  <2>. QED BY <1>1, <2>1
<1>. QED BY <1>4 DEF Carried, g

\* The sum grows with what it begins with.
LEMMA CarriedGrows ==
    ASSUME NEW S, Weighed(S), NEW steps \in Seq(S), NEW d \in Nat
    PROVE  d <= Carried(d, steps)
<1>. DEFINE g == Weights(steps)
            n == Len(steps)
<1>1. g \in Effects(Nat) /\ Len(g) = n /\ n \in Nat
  BY WeightsType
<1>3. \A k \in 1 .. n : Weight(steps[k]) \in Nat /\ g[k] = [e \in Nat |-> e + Weight(steps[k])]
  BY <1>1 DEF Weighed, Weights
<1>a. Carried(d, steps) = Result(Nat, d, g)
  BY DEF Carried
<1>. HIDE DEF g, n
<1>2. PICK F : Iterates(F, Nat, d, Len(g), g) /\ Result(Nat, d, g) = F[Len(g)]
  <2>. DEFINE N == Nat
  <2>0. d \in N /\ g \in Effects(N)
    BY <1>1
  <2>. HIDE DEF N
  <2>1. \E F : Iterates(F, N, d, Len(g), g) /\ Result(N, d, g) = F[Len(g)]
    BY <2>0, ResultExists
  <2>. QED BY <2>1 DEF N
<1>4. /\ F \in [0 .. n -> Nat] /\ F[0] = d
      /\ \A k \in 1 .. n : F[k] = g[k][F[k - 1]]
  BY <1>1, <1>2 DEF Iterates
<1>. DEFINE T == {k \in Nat : k <= n => d <= F[k]}
<1>5. 0 \in T
  BY <1>4
<1>6. ASSUME NEW k \in T PROVE k + 1 \in T
  <2>. SUFFICES ASSUME k + 1 <= n PROVE d <= F[k + 1]
    OBVIOUS
  <2>. DEFINE j == k + 1
  <2>1. k \in Nat /\ k \in 0 .. n /\ j \in 1 .. n /\ j - 1 = k /\ d <= F[k]
    BY <1>1
  <2>. HIDE DEF j, T
  <2>2. F[k] \in Nat /\ F[j] = g[j][F[k]]
    BY <1>4, <2>1
  <2>3. F[j] = F[k] + Weight(steps[j]) /\ Weight(steps[j]) \in Nat
    BY <1>3, <2>1, <2>2
  <2>4. d <= F[j]
    BY <2>1, <2>2, <2>3
  <2>. QED BY <2>4 DEF j
<1>. HIDE DEF T
<1>7. T = Nat
  <2>1. T \in SUBSET Nat
    BY DEF T
  <2>. QED BY <1>5, <1>6, <2>1, Induction
<1>8. d <= F[n]
  <2>1. n \in T
    BY <1>1, <1>7
  <2>. QED BY <2>1 DEF T
<1>. QED BY <1>1, <1>2, <1>8 DEF Carried, g

\* The steps carry n bytes, or as many of them as are made before a refusal.
Earned(steps, n) ==
    /\ steps \in Seq(I2cStepSet)
    /\ \A d \in Nat : /\ Carried(d, steps) <= d + n
                      /\ NoRefusal(steps) => Carried(d, steps) = d + n

\* The steps of i2c calls carry bytes,
LEMMA I2cStepsAreWeighed ==
    /\ Weighed(I2cStepSet)
    /\ Weight(Refusal) = 0
    /\ \A write, read, carries : Weight(Transfer(write, read, carries)) = carries
    /\ \A a, n : Weight(Block(a, n)) = 1
<1>1. Weight(Refusal) = 0
  BY DEF Weight, Refusal
<1>2. \A write, read, carries : Weight(Transfer(write, read, carries)) = carries
  BY DEF Weight, Transfer
<1>3. \A a, n : Weight(Block(a, n)) = 1
  BY DEF Weight, Block
<1>4. ASSUME NEW step \in I2cStepSet
      PROVE  Weight(step) \in Nat
  <2>1. CASE step \in Transfers
    BY <2>1 DEF Transfers, Weight
  <2>2. CASE step \in Blocks
    <3>1. \E a, n : step = Block(a, n)
      BY <2>2 DEF Blocks
    <3>. QED BY <1>3, <3>1
  <2>. QED BY <1>1, <2>1, <2>2 DEF I2cStepSet
<1>. QED BY <1>1, <1>2, <1>3, <1>4 DEF Weighed

\* A transfer carries the bytes it is said to,
LEMMA OneEarns ==
    ASSUME NEW step \in I2cStepSet
    PROVE  Earned(<<step>>, Weight(step))
<1>1. <<step>> \in Seq(I2cStepSet) /\ Weight(step) \in Nat
  BY I2cStepsAreWeighed DEF Weighed
<1>2. \A d \in Nat : Carried(d, <<step>>) = d + Weight(step)
  BY <1>1, CarriedOfOne
<1>. QED BY <1>1, <1>2 DEF Earned

\* a refusal nothing,
LEMMA RefusalEarns ==
    ASSUME NEW n \in Nat
    PROVE  Earned(<<Refusal>>, n)
<1>1. <<Refusal>> \in Seq(I2cStepSet)
  BY DEF I2cStepSet
<1>2. ~ NoRefusal(<<Refusal>>)
  BY DEF NoRefusal, Refusal
<1>3. \A d \in Nat : Carried(d, <<Refusal>>) = d + 0
  BY I2cStepsAreWeighed, CarriedOfOne
<1>4. \A d \in Nat : Carried(d, <<Refusal>>) <= d + n
  BY <1>3
<1>. QED BY <1>1, <1>2, <1>4 DEF Earned

\* a write of one byte at a time all of them,
LEMMA WriteSequenceEarns ==
    ASSUME RegisterCount \in Nat \ {0}, NEW bytes \in Seq(Registers), Len(bytes) >= 2
    PROVE  Earned(WriteSequence(bytes), Len(bytes))
<1>. DEFINE steps == WriteSequence(bytes)
            n == Len(bytes)
<1>1. steps \in Seq(I2cStepSet) /\ Len(steps) = n - 1 /\ n \in Nat /\ n >= 2
  BY WriteSequenceType
<1>2. ASSUME NEW k \in 1 .. n - 1
      PROVE  Weight(steps[k]) = IF k = 1 THEN 2 ELSE 1
  <2>1. PICK w : steps[k] = Transfer(w, 0, IF k = 1 THEN 2 ELSE 1)
    BY WriteSequenceType
  <2>. QED BY <2>1, I2cStepsAreWeighed
<1>. HIDE DEF steps, n
<1>3. ASSUME NEW d \in Nat
      PROVE  Carried(d, steps) = d + n
  <2>. DEFINE F == [k \in 0 .. n - 1 |-> IF k = 0 THEN d ELSE d + k + 1]
  <2>1. F \in [0 .. Len(steps) -> Nat] /\ F[0] = d
    BY <1>1
  <2>2. ASSUME NEW k \in 1 .. Len(steps)
        PROVE  F[k] = F[k - 1] + Weight(steps[k])
    <3>1. CASE k = 1
      BY <1>1, <1>2, <3>1
    <3>2. CASE k # 1
      <4>1. k - 1 \in 1 .. n - 1 /\ k \in 1 .. n - 1
        BY <1>1, <3>2
      <4>2. F[k - 1] = d + k /\ F[k] = d + k + 1
        BY <4>1
      <4>3. Weight(steps[k]) = 1
        BY <1>2, <3>2, <4>1
      <4>. QED BY <4>1, <4>2, <4>3
    <3>. QED BY <3>1, <3>2
  <2>3. F[Len(steps)] = d + n
    BY <1>1
  <2>. HIDE DEF F
  <2>4. Carried(d, steps) = F[Len(steps)]
    BY <1>1, <2>1, <2>2, I2cStepsAreWeighed, CarriedIs
  <2>. QED BY <2>3, <2>4
<1>4. \A d \in Nat : Carried(d, steps) <= d + n
  BY <1>1, <1>3
<1>5. Earned(steps, n)
  BY <1>1, <1>3, <1>4 DEF Earned
<1>. QED BY <1>5 DEF steps, n

\* and a read in parts none.
LEMMA ReadSequenceEarns ==
    ASSUME RegisterCount \in Nat \ {0}, NEW register \in Registers, NEW count \in Nat \ {0}
    PROVE  Earned(ReadSequence(register, count), 1)
<1>. DEFINE steps == ReadSequence(register, count)
<1>1. steps \in Seq(I2cStepSet) /\ Len(steps) = count
  BY ReadSequenceType
<1>2. ASSUME NEW k \in 1 .. count
      PROVE  Weight(steps[k]) = IF k = 1 THEN 1 ELSE 0
  <2>. DEFINE w == <<(register + k - 1) % RegisterCount>>
              c == IF k = 1 THEN 1 ELSE 0
  <2>1. steps[k] = Transfer(w, 1, c)
    BY ReadSequenceType
  <2>. HIDE DEF w
  <2>. QED BY <2>1, I2cStepsAreWeighed
<1>. HIDE DEF steps
<1>3. ASSUME NEW d \in Nat
      PROVE  Carried(d, steps) = d + 1
  <2>. DEFINE F == [k \in 0 .. count |-> IF k = 0 THEN d ELSE d + 1]
  <2>1. F \in [0 .. Len(steps) -> Nat] /\ F[0] = d
    BY <1>1
  <2>2. ASSUME NEW k \in 1 .. Len(steps)
        PROVE  F[k] = F[k - 1] + Weight(steps[k])
    BY <1>1, <1>2
  <2>3. F[Len(steps)] = d + 1
    BY <1>1
  <2>. HIDE DEF F
  <2>4. Carried(d, steps) = F[Len(steps)]
    BY <1>1, <2>1, <2>2, I2cStepsAreWeighed, CarriedIs
  <2>. QED BY <2>3, <2>4
<1>. QED BY <1>1, <1>3 DEF Earned, steps

LEMMA ReadEarns ==
    ASSUME NEW adapter, NEW read \in Nat
    PROVE  Earned(KernelRead(adapter, read), 0)
<1>1. CASE adapter = "i2c"
  <2>. DEFINE empty == <<>>
              step == Transfer(empty, read, 0)
  <2>0. empty \in Seq(Registers)
    OBVIOUS
  <2>. HIDE DEF empty
  <2>1. step \in I2cStepSet /\ Weight(step) = 0
    BY <2>0, TransferType, I2cStepsAreWeighed
  <2>. HIDE DEF step
  <2>2. Earned(<<step>>, 0)
    BY <2>1, OneEarns
  <2>. QED BY <1>1, <2>2 DEF KernelRead, step, empty
<1>2. CASE adapter # "i2c"
  BY <1>2, RefusalEarns DEF KernelRead
<1>. QED BY <1>1, <1>2

LEMMA WriteEarns ==
    ASSUME RegisterCount \in Nat \ {0}, NEW adapter, NEW bytes \in Seq(Registers)
    PROVE  Earned(KernelWrite(adapter, bytes), Len(bytes))
<1>. DEFINE n == Len(bytes)
            step == Transfer(bytes, 0, n)
<1>1. n \in Nat /\ step \in I2cStepSet /\ Weight(step) = n
  BY TransferType, I2cStepsAreWeighed
<1>2. Earned(<<Refusal>>, n)
  BY <1>1, RefusalEarns
<1>. HIDE DEF step
<1>3. Earned(<<step>>, n)
  BY <1>1, OneEarns
<1>4. n >= 2 => Earned(WriteSequence(bytes), n)
  BY WriteSequenceEarns
<1>5. KernelWrite(adapter, bytes) \in {<<Refusal>>, <<step>>} \/ (n >= 2 /\ KernelWrite(adapter, bytes) = WriteSequence(bytes))
  BY <1>1 DEF KernelWrite, WriteFallback, step
<1>. QED BY <1>2, <1>3, <1>4, <1>5

LEMMA WriteReadEarns ==
    ASSUME RegisterCount \in Nat \ {0}, NEW adapter, NEW bytes \in Seq(Registers), NEW count \in Nat \ {0}
    PROVE  Earned(KernelWriteRead(adapter, bytes, count), Len(bytes))
<1>. DEFINE n == Len(bytes)
            step == Transfer(bytes, count, n)
            block == Block(bytes[1], count)
<1>1. n \in Nat /\ step \in I2cStepSet /\ Weight(step) = n
  BY TransferType, I2cStepsAreWeighed
<1>2. Earned(<<Refusal>>, n)
  BY <1>1, RefusalEarns
<1>3. n = 1 => bytes[1] \in Registers /\ block \in I2cStepSet /\ Weight(block) = 1
  <2>1. n = 1 => bytes[1] \in Registers
    OBVIOUS
  <2>2. bytes[1] \in Registers => block \in Blocks
    BY DEF Blocks
  <2>3. Weight(block) = 1
    BY I2cStepsAreWeighed
  <2>. QED BY <2>1, <2>2, <2>3 DEF I2cStepSet
<1>. HIDE DEF step, block
<1>4. Earned(<<step>>, n)
  BY <1>1, OneEarns
<1>5. n = 1 => Earned(<<block>>, n)
  BY <1>3, OneEarns
<1>6. n = 1 => Earned(ReadSequence(bytes[1], count), n)
  BY <1>3, ReadSequenceEarns
<1>7. \/ KernelWriteRead(adapter, bytes, count) \in {<<Refusal>>, <<step>>}
      \/ n = 1 /\ KernelWriteRead(adapter, bytes, count) \in {<<block>>, ReadSequence(bytes[1], count)}
  BY <1>1 DEF KernelWriteRead, ReadFallback, step, block
<1>. QED BY <1>2, <1>4, <1>5, <1>6, <1>7

LEMMA BothEarn ==
    ASSUME NEW a, NEW m \in Nat, Earned(a, m), NEW b, NEW n \in Nat, Earned(b, n)
    PROVE  Earned(a \o b, m + n)
<1>1. a \in Seq(I2cStepSet) /\ b \in Seq(I2cStepSet)
  BY DEF Earned
<1>. DEFINE ab == a \o b
<1>2. ab \in Seq(I2cStepSet)
  BY <1>1
<1>3. NoRefusal(ab) => NoRefusal(a) /\ NoRefusal(b)
  BY <1>1, NoRefusalOfBoth
<1>4. ASSUME NEW d \in Nat
      PROVE  /\ Carried(d, ab) <= d + (m + n)
             /\ NoRefusal(ab) => Carried(d, ab) = d + (m + n)
  <2>1. Carried(d, a) \in Nat
    BY <1>1, I2cStepsAreWeighed, CarriedType
  <2>. DEFINE e == Carried(d, a)
  <2>2. Carried(d, ab) = Carried(e, b)
    BY <1>1, I2cStepsAreWeighed, CarriedOfBoth
  <2>3. e <= d + m /\ (NoRefusal(a) => e = d + m)
    BY DEF Earned
  <2>4. Carried(e, b) <= e + n /\ (NoRefusal(b) => Carried(e, b) = e + n) /\ Carried(e, b) \in Nat
    BY <1>1, <2>1, I2cStepsAreWeighed, CarriedType DEF Earned
  <2>. HIDE DEF e, ab
  <2>. QED BY <1>3, <2>1, <2>2, <2>3, <2>4 DEF e
<1>. QED BY <1>2, <1>4 DEF Earned

\* A transaction carries what its messages write.
LEMMA TransactionEarns ==
    ASSUME RegisterCount \in Nat \ {0}, NEW adapter, NEW r, "messages" \in DOMAIN r, r.messages \in I2cMessages,
           \A k \in DOMAIN r.messages : r.messages[k].read > 0 => r.messages[k].write = <<>>
    PROVE  Earned(KernelTransaction(adapter, r.messages), Payload(r))
<1>. DEFINE messages == r.messages
            n == Len(messages)
            pieces == [k \in DOMAIN messages |->
                          IF messages[k].read > 0 THEN KernelRead(adapter, messages[k].read)
                                                  ELSE KernelWrite(adapter, messages[k].write)]
<1>1. /\ n \in Nat /\ DOMAIN messages = 1 .. n
      /\ \A k \in 1 .. n : messages[k].write \in Seq(Registers) /\ messages[k].read \in Nat
  <2>. DEFINE R == [write : Seq(Registers), read : Nat]
  <2>1. messages \in Seq(R)
    BY DEF I2cMessages
  <2>. HIDE DEF R
  <2>2. n \in Nat /\ DOMAIN messages = 1 .. n /\ \A k \in 1 .. n : messages[k] \in R
    BY <2>1
  <2>. QED BY <2>2 DEF R
<1>2. PICK P : IsPayload(P, r)
  <2>1. r.messages \in Messages(Registers)
    BY DEF I2cMessages, Messages
  <2>. QED BY <2>1, PayloadIsSum
<1>3. /\ P \in [0 .. n -> Nat] /\ P[0] = 0 /\ Payload(r) = P[n]
      /\ \A k \in 1 .. n : P[k] = P[k - 1] + Len(messages[k].write)
  BY <1>2 DEF IsPayload
<1>4. ASSUME NEW k \in 1 .. n
      PROVE  Earned(pieces[k], Len(messages[k].write))
  <2>1. CASE messages[k].read > 0
    <3>1. messages[k].write = <<>> /\ Len(messages[k].write) = 0
      BY <1>1, <2>1
    <3>. QED BY <1>1, <2>1, <3>1, ReadEarns
  <2>2. CASE ~ (messages[k].read > 0)
    BY <1>1, <2>2, WriteEarns
  <2>. QED BY <2>1, <2>2
<1>5. KernelTransaction(adapter, messages) = FlattenSeq(pieces)
  BY DEF KernelTransaction
<1>6. pieces = [k \in 1 .. n |-> pieces[k]] /\ \A k \in 1 .. n : pieces[k] \in Seq(I2cStepSet)
  BY <1>1, <1>4 DEF Earned
<1>. HIDE DEF pieces, n, messages
<1>7. pieces \in Seq(Seq(I2cStepSet)) /\ Len(pieces) = n
  <2>1. \A p : p = [k \in 1 .. n |-> p[k]] /\ (\A k \in 1 .. n : p[k] \in Seq(I2cStepSet))
                    => p \in Seq(Seq(I2cStepSet)) /\ Len(p) = n
    BY <1>1
  <2>. QED BY <1>6, <2>1
<1>8. PICK W : IsFlat(W, I2cStepSet, pieces)
  BY <1>7, FlatFacts
<1>9. /\ W \in [0 .. n -> Seq(I2cStepSet)] /\ W[0] = <<>>
      /\ \A k \in 1 .. n : W[k] = W[k - 1] \o pieces[k]
      /\ KernelTransaction(adapter, messages) = W[n]
  BY <1>5, <1>7, <1>8 DEF IsFlat
<1>. DEFINE T == {k \in Nat : k <= n => Earned(W[k], P[k])}
<1>10. 0 \in T
  <2>. DEFINE none == <<>>
  <2>1. none \in Seq(I2cStepSet) /\ \A d \in Nat : Carried(d, none) = d
    BY CarriedOfNone
  <2>. HIDE DEF none
  <2>2. Earned(none, 0)
    BY <2>1 DEF Earned
  <2>. QED BY <1>3, <1>9, <2>2 DEF none
<1>11. ASSUME NEW k \in T PROVE k + 1 \in T
  <2>. SUFFICES ASSUME k + 1 <= n PROVE Earned(W[k + 1], P[k + 1])
    OBVIOUS
  <2>. DEFINE j == k + 1
              m == Len(messages[j].write)
  <2>0. k \in Nat /\ (k <= n => Earned(W[k], P[k]))
    OBVIOUS
  <2>. HIDE DEF T
  <2>a. k \in Nat /\ k \in 0 .. n /\ j \in 1 .. n /\ j - 1 = k
    BY <1>1, <2>0
  <2>1. k \in Nat /\ k \in 0 .. n /\ j \in 1 .. n /\ j - 1 = k /\ Earned(W[k], P[k])
    BY <1>1, <2>0, <2>a
  <2>. HIDE DEF j
  <2>2. W[j] = W[k] \o pieces[j] /\ P[j] = P[k] + m /\ P[k] \in Nat /\ m \in Nat /\ Earned(pieces[j], m)
    <3>1. W[j] = W[k] \o pieces[j]
      BY <1>9, <2>1
    <3>2. P[j] = P[k] + m /\ P[k] \in Nat
      BY <1>3, <2>1
    <3>3. m \in Nat /\ Earned(pieces[j], m)
      BY <1>1, <1>4, <2>1
    <3>. QED BY <3>1, <3>2, <3>3
  <2>. HIDE DEF m
  <2>3. Earned(W[k] \o pieces[j], P[k] + m)
    BY <2>1, <2>2, BothEarn
  <2>4. Earned(W[j], P[j])
    BY <2>2, <2>3
  <2>. QED BY <2>4 DEF j
<1>. HIDE DEF T
<1>12. T = Nat
  <2>1. T \in SUBSET Nat
    BY DEF T
  <2>. QED BY <1>10, <1>11, <2>1, Induction
<1>13. Earned(W[n], P[n])
  <2>1. n \in T
    BY <1>1, <1>12
  <2>. QED BY <2>1 DEF T
<1>. QED BY <1>3, <1>9, <1>13 DEF messages

\* The steps of a request carry what it writes.
LEMMA RequestEarns ==
    ASSUME RegisterCount \in Nat \ {0}, NEW adapter, NEW r, IsI2cRequest(r), ValidI2c(r)
    PROVE  Payload(r) \in Nat /\ Earned(RequestSteps(adapter, r), Payload(r))
<1>. DEFINE m == r.messages[1]
            steps == RequestSteps(adapter, r)
<1>1. "messages" \in DOMAIN r
  <2>. DEFINE R == Seq([write : Seq(Registers), read : Nat])
  <2>1. r \in [op : I2cOperations, address : Addresses, messages : R]
    BY DEF IsI2cRequest
  <2>. HIDE DEF R
  <2>. QED BY <2>1
<1>2. r.messages \in Messages(Registers) /\ Payload(r) \in Nat
  <2>1. r.messages \in Messages(Registers)
    BY RequestFacts DEF I2cMessages, Messages
  <2>. QED BY <2>1, PayloadType
<1>3. CASE r.op = "transaction"
  <2>1. steps = KernelTransaction(adapter, r.messages)
    BY <1>3 DEF RequestSteps
  <2>2. /\ r.messages \in I2cMessages
        /\ \A k \in DOMAIN r.messages : r.messages[k].read > 0 => r.messages[k].write = <<>>
    BY <1>3, RequestFacts
  <2>3. Earned(KernelTransaction(adapter, r.messages), Payload(r))
    BY <1>1, <2>2, TransactionEarns
  <2>. QED BY <1>2, <2>1, <2>3
<1>4. CASE r.op # "transaction"
  <2>1. Len(r.messages) = 1 /\ IsMessage(m)
    BY <1>4, RequestFacts
  <2>2. Payload(r) = Len(m.write) /\ m.write \in Seq(Registers) /\ m.read \in Nat
    BY <1>1, <1>2, <2>1, PayloadOfOne DEF IsMessage
  <2>3. CASE r.op = "read"
    <3>1. steps = KernelRead(adapter, m.read) /\ m.write = <<>> /\ Len(<<>>) = 0
      BY <2>3, RequestFacts DEF RequestSteps
    <3>. QED BY <1>2, <2>2, <3>1, ReadEarns
  <2>4. CASE r.op = "write"
    <3>1. steps = KernelWrite(adapter, m.write)
      BY <2>4 DEF RequestSteps
    <3>. QED BY <1>2, <2>2, <3>1, WriteEarns
  <2>5. CASE r.op = "write_read"
    <3>1. steps = KernelWriteRead(adapter, m.write, m.read) /\ m.read # 0
      BY <2>5, RequestFacts DEF RequestSteps
    <3>. QED BY <1>2, <2>2, <3>1, WriteReadEarns
  <2>. QED BY <1>4, <2>3, <2>4, <2>5, RequestFacts DEF I2cOperations
<1>. QED BY <1>3, <1>4

\* What a block gives way to carries what it would have.
LEMMA CarriedOfBlock ==
    ASSUME RegisterCount \in Nat \ {0}, NEW d \in Nat, NEW steps \in Seq(I2cStepSet),
           steps # <<>>, Head(steps).kind = "block"
    PROVE  LET bytes == ReadSequence(Head(steps).write[1], Head(steps).read)
           IN  Carried(d, bytes \o Tail(steps)) = Carried(d, steps)
<1>. DEFINE step == Head(steps)
            bytes == ReadSequence(step.write[1], step.read)
            rest == Tail(steps)
<1>1. step \in I2cStepSet /\ rest \in Seq(I2cStepSet)
      /\ Carried(d, steps) = Carried(d + Weight(step), rest)
  BY I2cStepsAreWeighed, CarriedOfFirst
<1>. HIDE DEF rest
<1>2. step.write[1] \in Registers /\ step.read \in Nat \ {0} /\ Weight(step) = 1
  <2>. HIDE DEF step
  <2>1. step.kind = "block"
    BY DEF step
  <2>2. step \in Blocks
    BY <1>1, <2>1 DEF I2cStepSet, Transfers, Refusal
  <2>3. PICK a \in Registers, n \in Nat \ {0} : step = Block(a, n)
    BY <2>2 DEF Blocks
  <2>4. step.write = <<a>> /\ step.read = n
    BY <2>3 DEF Block
  <2>. QED BY <2>3, <2>4, I2cStepsAreWeighed
<1>3. Earned(bytes, 1) /\ bytes \in Seq(I2cStepSet) /\ NoRefusal(bytes)
  <2>. HIDE DEF step
  <2>1. Earned(bytes, 1) /\ bytes \in Seq(I2cStepSet) /\ Len(bytes) = step.read
    BY <1>2, ReadSequenceEarns, ReadSequenceType
  <2>2. \A k \in 1 .. step.read : bytes[k].kind = "transfer"
    BY DEF ReadSequence, Transfer
  <2>. HIDE DEF bytes
  <2>. QED BY <2>1, <2>2 DEF NoRefusal
<1>4. Carried(d, bytes) = d + 1
  BY <1>3 DEF Earned
<1>. HIDE DEF bytes, step
<1>5. Carried(d, bytes \o rest) = Carried(d + 1, rest)
  BY <1>1, <1>3, <1>4, I2cStepsAreWeighed, CarriedOfBoth
<1>. QED BY <1>1, <1>2, <1>5 DEF bytes, rest, step

\* So do those of serial calls.
LEMMA SerialStepsAreWeighed ==
    /\ Weighed(SerialStepSet)
    /\ \A step \in SetSteppings \cup Gettings \cup {[kind |-> "ask"]} : Weight(step) = 0
<1>1. \A step \in SetSteppings : Weight(step) = 0
  BY DEF SetSteppings, Weight
<1>2. Weight([kind |-> "ask"]) = 0 /\ \A step \in Gettings : Weight(step) = 0
  BY DEF Gettings, GetField, Weight
<1>3. \A step \in Sendings : Weight(step) \in Nat
  BY DEF Sendings, Weight
<1>. QED BY <1>1, <1>2, <1>3 DEF Weighed, SerialStepSet

\* Steps without a weight carry nothing.
LEMMA CarriedOfIdle ==
    ASSUME NEW S, \A step \in S : Weight(step) = 0, NEW steps \in Seq(S), NEW d \in Nat
    PROVE  Carried(d, steps) = d
<1>. DEFINE F == [k \in 0 .. Len(steps) |-> d]
<1>1. Len(steps) \in Nat /\ \A k \in 1 .. Len(steps) : Weight(steps[k]) = 0
  OBVIOUS
<1>2. F \in [0 .. Len(steps) -> Nat] /\ F[0] = d /\ F[Len(steps)] = d
  BY <1>1
<1>3. \A k \in 1 .. Len(steps) : F[k] = F[k - 1] + Weight(steps[k])
  BY <1>1
<1>4. Weighed(S)
  BY DEF Weighed
<1>. HIDE DEF F
<1>. QED BY <1>2, <1>3, <1>4, CarriedIs

LEMMA CarriedOfBytes ==
    ASSUME NEW n \in Nat, NEW d \in Nat
    PROVE  Carried(d, SendBytes(n)) = d + n
<1>. DEFINE byte == [kind |-> "send", carries |-> 1]
            S == {byte}
            steps == SendBytes(n)
            F == [k \in 0 .. n |-> d + k]
<1>1. Weight(byte) = 1
  BY DEF Weight
<1>. HIDE DEF byte
<1>2. steps = [k \in 1 .. n |-> byte]
  BY DEF SendBytes, byte
<1>3. steps \in Seq(S) /\ Len(steps) = n /\ \A k \in 1 .. n : steps[k] = byte
  BY <1>2
<1>4. Weighed(S)
  BY <1>1 DEF Weighed
<1>. HIDE DEF steps, S
<1>5. F \in [0 .. Len(steps) -> Nat] /\ F[0] = d /\ F[Len(steps)] = d + n
  BY <1>3
<1>6. \A k \in 1 .. Len(steps) : F[k] = F[k - 1] + Weight(steps[k])
  BY <1>1, <1>3
<1>. HIDE DEF F
<1>7. Carried(d, steps) = F[Len(steps)]
  BY <1>3, <1>4, <1>5, <1>6, CarriedIs
<1>. QED BY <1>5, <1>7 DEF steps

\* The steps of a request carry what it writes, or it writes nothing that counts.
LEMMA SerialEarns ==
    ASSUME OnSerial, NEW s \in Sessions, NEW r \in Requests[s][interface], Supported(interface, r),
           r.op # "get_configuration", NEW d \in Nat
    PROVE  \/ Carried(d, SerialStepsOf(r)) = d + Payload(r)
           \/ Carried(d, SerialStepsOf(r)) = d /\ r.op \in {"configure", "read", "flush"}
<1>1. Payload(r) \in Nat
  BY SerialRequest
<1>2. CASE r.op = "configure"
  <2>. DEFINE S == SetSteppings \cup Gettings
              steps == SetSteps(r.fields)
              back == ReadBack
              all == steps \o back
  <2>1. steps \in Seq(S) /\ back \in Seq(Gettings)
    BY <1>2, SerialRequest, SetStepsType, ReadBackFacts
  <2>2. \A step \in S : Weight(step) = 0
    BY SerialStepsAreWeighed
  <2>3. back \in Seq(S)
    BY <2>1
  <2>. HIDE DEF S, steps, back
  <2>4. all \in Seq(S)
    BY <2>1, <2>3
  <2>. HIDE DEF all
  <2>5. Carried(d, all) = d
    BY <2>2, <2>4, CarriedOfIdle
  <2>6. SerialStepsOf(r) = all
    BY <1>2 DEF SerialStepsOf, SpiSteps, UartSteps, SpiConfigureSteps, UartConfigureSteps, all, steps, back
  <2>. QED BY <1>2, <2>5, <2>6
<1>3. CASE r.op = "write"
  <2>1. SerialStepsOf(r) = SendBytes(Payload(r))
    BY <1>3 DEF SerialStepsOf, SpiSteps, UartSteps
  <2>. QED BY <1>1, <2>1, CarriedOfBytes
<1>4. CASE interface = "spi" /\ r.op = "transfer"
  <2>. DEFINE step == [kind |-> "send", carries |-> Payload(r)]
  <2>1. Weight(step) = Payload(r)
    BY DEF Weight
  <2>2. SerialStepsOf(r) = <<step>>
    BY <1>4 DEF SerialStepsOf, SpiSteps
  <2>. HIDE DEF step
  <2>. QED BY <1>1, <2>1, <2>2, CarriedOfOne
<1>5. CASE interface = "uart" /\ r.op \in {"read", "flush"}
  <2>. DEFINE step == [kind |-> "ask"]
  <2>1. Weight(step) = 0
    BY DEF Weight
  <2>2. SerialStepsOf(r) = <<step>>
    BY <1>5 DEF SerialStepsOf, UartSteps
  <2>. HIDE DEF step
  <2>3. Carried(d, <<step>>) = d + 0
    BY <2>1, CarriedOfOne
  <2>. QED BY <1>5, <2>2, <2>3
<1>6. \/ interface = "spi" /\ r.op \in {"transfer", "write", "configure"}
      \/ interface = "uart" /\ r.op \in {"read", "write", "configure", "flush"}
  BY DEF OnSerial, Supported, Operations, SpiOperations, UartOperations
<1>. QED BY <1>2, <1>3, <1>4, <1>5, <1>6

LEMMA UnrecordedFacts ==
    ASSUME NEW x, NEW r
    PROVE  /\ r.op \in {"configure", "read", "flush"} =>
                Recorded("spi", x, r) = x /\ Recorded("uart", x, r) = x
           /\ r.op = "read" => Recorded("i2c", x, r) = x
           /\ Recorded("gpio", x, r) = x /\ Recorded("pwm", x, r) = x
BY DEF Recorded, SpiRecorded, UartRecorded, I2cRecorded

-----------------------------------------------------------------------------
(* What drivers count *)

\* The steps of a call of the mock.
MockSteps == <<[kind |-> "injected"], [kind |-> "effect"]>>

\* What the driver of s will have written when its call has succeeded.
Gains(s) == Recorded(interface, stats[s], call[s].request).written

\* The steps of a call that are still to be made deliver what its success will
\* count, and never more than a session may send.
OnWay(s) ==
    LET c == call[s]
    IN  /\ OnI2c => /\ Carried(delivered[s], Ahead(c)) <= ByteLimit
                    /\ NoRefusal(Ahead(c)) => Gains(s) <= Carried(delivered[s], Ahead(c))
        /\ OnSerial => /\ Gains(s) <= Carried(delivered[s], c.steps)
                       /\ Carried(delivered[s], c.steps) <= ByteLimit
        /\ OnUsb /\ c.steps # <<>> /\ Head(c.steps).kind = "exchange" =>
                delivered[s] + Payload(c.request) <= ByteLimit
        /\ OnMock => /\ c.request.op # "get_configuration"
                     /\ c.steps \in {MockSteps, Tail(MockSteps), <<>>}
                     /\ c.steps = <<>> => Gains(s) <= delivered[s]

\* The driver of s has counted no byte that did not reach the device.
Counted(s) ==
    /\ IsCounters(stats[s]) /\ stats[s].written \in Nat /\ delivered[s] \in Nat
    /\ ~ OnUsb => stats[s].written <= delivered[s]
    /\ ~ OnMock => delivered[s] <= ByteLimit
    /\ state[s] = "busy" => OnWay(s)

\* No driver has.
CountersInv == \A s \in Sessions : Counted(s)

\* A step of one session leaves the counters of the others as they are.
LEMMA CountedFrom ==
    ASSUME Base, CountersInv, NEW s \in Sessions, Others(s), Counted(s)'
    PROVE  CountersInv'
<1>1. UNCHANGED <<interface, backend, access>>
      /\ OnI2c' = OnI2c /\ OnSerial' = OnSerial /\ OnUsb' = OnUsb /\ OnMock' = OnMock
  BY DEF Others, fixedVars, OnI2c, OnSerial, OnUsb, OnMock
<1>2. ASSUME NEW t \in Sessions \ {s}
      PROVE  Counted(t)'
  <2>1. state'[t] = state[t] /\ stats'[t] = stats[t] /\ delivered'[t] = delivered[t]
        /\ SameCall(call[t], call'[t])
    BY DEF Others
  <2>2. Counted(t)
    BY DEF CountersInv
  <2>3. ASSUME state[t] = "busy"
        PROVE  OnWay(t)'
    <3>1. call'[t].request = call[t].request /\ call'[t].steps = call[t].steps
      BY <2>1, <2>3, SameCallFacts DEF Base
    <3>2. Gains(t)' = Gains(t) /\ Ahead(call'[t]) = Ahead(call[t])
      BY <1>1, <2>1, <3>1 DEF Gains, Ahead, Selecting
    <3>. QED BY <1>1, <2>1, <2>2, <2>3, <3>1, <3>2 DEF Counted, OnWay
  <2>. QED BY <1>1, <2>1, <2>2, <2>3 DEF Counted, IsCounters
<1>. QED BY <1>2 DEF CountersInv

\* A session whose call is over has what it had, or what its call gained.
LEMMA QuietCounts ==
    ASSUME Base, CountersInv, NEW s \in Sessions, Others(s), state'[s] # "busy",
           stats'[s] = stats[s], delivered'[s] = delivered[s]
    PROVE  CountersInv'
<1>1. UNCHANGED <<interface, backend, access>>
  BY DEF Others, fixedVars
<1>2. Counted(s)'
  BY <1>1 DEF CountersInv, Counted, IsCounters, OnUsb, OnMock
<1>. QED BY <1>2, CountedFrom

LEMMA FreshCounts ==
    ASSUME Base, CountersInv, NEW s \in Sessions, Others(s), state'[s] # "busy",
           stats'[s] = Fresh, delivered'[s] = 0
    PROVE  CountersInv'
<1>1. IsCounters(Fresh) /\ Fresh.written = 0
  BY DEF IsCounters, Fresh
<1>2. ByteLimit \in Nat
  BY DeviceAssumption
<1>3. Counted(s)'
  BY <1>1, <1>2 DEF Counted, IsCounters
<1>. QED BY <1>3, CountedFrom

LEMMA LifeCounts ==
    ASSUME Base, CountersInv, NEW s \in Sessions,
           \/ \E d, b : Bind(s, d, b) /\ (unsure' = unsure \/ \E U : unsure' = [unsure EXCEPT ![s] = U])
           \/ MarkClosed(s)
           \/ \E d : Drop(s, d)
           \/ Fail(s)
    PROVE  CountersInv'
<1>1. ASSUME NEW d, NEW b, Bind(s, d, b), unsure' = unsure \/ \E U : unsure' = [unsure EXCEPT ![s] = U]
      PROVE  CountersInv'
  <2>1. /\ Others(s) /\ state'[s] = "idle" /\ stats'[s] = Fresh /\ delivered'[s] = 0
    BY <1>1, BindFacts
  <2>. QED BY <2>1, FreshCounts
<1>2. CASE MarkClosed(s)
  BY <1>2, MarkClosedFacts, QuietCounts
<1>3. ASSUME NEW d, Drop(s, d)
      PROVE  CountersInv'
  BY <1>3, DropFacts, QuietCounts
<1>4. CASE Fail(s)
  BY <1>4, FailFacts, QuietCounts
<1>. QED BY <1>1, <1>2, <1>3, <1>4

\* Only what a driver gained is recorded.
LEMMA SuccessCounts ==
    ASSUME Base, CountersInv, NEW s \in Sessions, Others(s), state[s] = "busy", state'[s] # "busy",
           stats'[s] = Recorded(interface, stats[s], call[s].request), delivered'[s] = delivered[s],
           Payload(call[s].request) \in Nat \/ interface \in {"gpio", "pwm"},
           ~ OnUsb => Gains(s) <= delivered[s]
    PROVE  CountersInv'
<1>1. UNCHANGED <<interface, backend, access>>
  BY DEF Others, fixedVars
<1>2. interface \in Interfaces
  BY DEF Base
<1>3. Counted(s)
  BY DEF CountersInv
<1>. DEFINE y == Recorded(interface, stats[s], call[s].request)
<1>4. IsCounters(y) /\ y.written \in {stats[s].written, stats[s].written + Payload(call[s].request)}
  BY <1>2, <1>3, RecordedFacts DEF Counted
<1>5. interface \in {"gpio", "pwm"} => y = stats[s]
  BY UnrecordedFacts
<1>6. Gains(s) = y.written
  BY DEF Gains
<1>. HIDE DEF y
<1>7. y.written \in Nat
  BY <1>3, <1>4, <1>5 DEF Counted
<1>8. stats'[s] = y
  BY DEF y
<1>9. Counted(s)'
  BY <1>1, <1>3, <1>4, <1>6, <1>7, <1>8 DEF Counted, IsCounters, OnUsb, OnMock
<1>. QED BY <1>9, CountedFrom

LEMMA RequestPayload ==
    ASSUME Base, NEW s \in Sessions, NEW r \in Requests[s][interface]
    PROVE  Payload(r) \in Nat \/ interface = "pwm"
<1>1. interface \in {"gpio", "pwm", "i2c", "spi", "uart", "usb"}
  <2>1. DOMAIN Operations = {"gpio", "pwm", "i2c", "spi", "uart", "usb"}
    BY DEF Operations
  <2>. QED BY <2>1 DEF Base, Interfaces
<1>2. interface \in {"gpio", "spi", "uart"} => Payload(r) \in Nat
  <2>1. interface \in {"gpio", "spi", "uart"} => IsSerialRequest(interface, r)
    BY SerialAssumption
  <2>. QED BY <2>1, PayloadType DEF IsSerialRequest, Messages
<1>3. interface = "usb" => Payload(r) \in Nat
  <2>1. interface = "usb" => IsUsbRequest(r)
    BY UsbAssumption
  <2>. QED BY <2>1, PayloadType DEF IsUsbRequest, Messages
<1>4. interface = "i2c" => Payload(r) \in Nat
  <2>. DEFINE M == Seq([write : Seq(Registers), read : Nat])
  <2>1. interface = "i2c" => r \in [op : I2cOperations, address : Addresses, messages : M]
    BY I2cAssumption DEF IsI2cRequest
  <2>. HIDE DEF M
  <2>2. interface = "i2c" => r.messages \in M
    BY <2>1
  <2>. QED BY <2>2, PayloadType DEF M, Messages
<1>. QED BY <1>1, <1>2, <1>3, <1>4

LEMMA BusyPayload ==
    ASSUME Base, NEW s \in Sessions, state[s] = "busy"
    PROVE  Payload(call[s].request) \in Nat \/ interface \in {"gpio", "pwm"}
<1>1. call[s].request \in Requests[s][interface]
  BY DEF Base, IsCall
<1>. QED BY <1>1, RequestPayload

LEMMA NoRefusalOfRest ==
    ASSUME NEW steps \in Seq(I2cStepSet), steps # <<>>, Plays(Head(steps)), NoRefusal(Tail(steps))
    PROVE  NoRefusal(steps)
<1>. SUFFICES ASSUME NEW k \in 1 .. Len(steps)
              PROVE  steps[k].kind # "refusal"
  BY DEF NoRefusal
<1>1. CASE k = 1
  <2>1. steps[1] = Head(steps)
    OBVIOUS
  <2>. QED BY <1>1, <2>1 DEF Plays
<1>2. CASE k # 1
  <2>1. k - 1 \in 1 .. Len(Tail(steps)) /\ Tail(steps)[k - 1] = steps[k]
    BY <1>2
  <2>. QED BY <2>1 DEF NoRefusal
<1>. QED BY <1>1, <1>2

LEMMA SuccessOfCall ==
    ASSUME Base, CountersInv, NEW s \in Sessions, NEW b, Succeed(s, b),
           ~ OnUsb => Gains(s) <= delivered[s]
    PROVE  CountersInv'
<1>1. /\ Others(s) /\ state[s] = "busy" /\ state'[s] = "idle" /\ delivered' = delivered
      /\ stats'[s] = Recorded(interface, stats[s], call[s].request)
  BY SucceedFacts
<1>2. Payload(call[s].request) \in Nat \/ interface \in {"gpio", "pwm"}
  BY <1>1, BusyPayload
<1>. QED BY <1>1, <1>2, SuccessCounts

-----------------------------------------------------------------------------
(* i2c *)

LEMMA I2cCountsFrom ==
    ASSUME Base, CountersInv, OnI2c, NEW s \in Sessions, Others(s), state'[s] = "busy",
           stats'[s] = stats[s], NEW d \in Nat, delivered'[s] = d, d >= delivered[s],
           NEW n \in Nat, Carried(d, Ahead(call'[s])) = n, d <= ByteLimit, n <= ByteLimit,
           NoRefusal(Ahead(call'[s])) => Recorded("i2c", stats[s], call'[s].request).written <= n
    PROVE  CountersInv'
<1>1. UNCHANGED <<interface, backend, access>> /\ interface = "i2c" /\ backend = "linux"
  BY DEF Others, fixedVars, OnI2c
<1>2. Counted(s) /\ ~ OnUsb /\ ~ OnMock
  BY <1>1 DEF CountersInv, OnUsb, OnMock
<1>3. OnWay(s)'
  BY <1>1 DEF OnWay, Gains, OnI2c, OnSerial, OnUsb, OnMock
<1>4. ByteLimit \in Nat
  BY DeviceAssumption
<1>5. Counted(s)'
  BY <1>1, <1>2, <1>3, <1>4 DEF Counted, IsCounters, OnUsb, OnMock
<1>. QED BY <1>5, CountedFrom

\* An i2c call begins with nothing counted and all of it ahead,
LEMMA I2cBeginCounts ==
    ASSUME Base, CountersInv, I2cType, OnI2c, NEW s \in Sessions, NEW r \in Requests[s].i2c,
           BeginDeviceCall(s, r) \/ BeginControllerCall(s, r)
    PROVE  CountersInv'
<1>1. /\ state'[s] = "busy" /\ Others(s)
      /\ Ahead(call'[s]) = RequestSteps(device.adapter, r) /\ call'[s].request = r
      /\ IsI2cRequest(r) /\ ValidI2c(r) /\ delivered[s] + Payload(r) <= ByteLimit
      /\ UNCHANGED <<stats, delivered>>
  BY I2cBegins
<1>2. RegisterCount \in Nat \ {0} /\ ByteLimit \in Nat
  BY I2cAssumption, DeviceAssumption
<1>3. Payload(r) \in Nat /\ Earned(RequestSteps(device.adapter, r), Payload(r))
  BY <1>1, <1>2, RequestEarns
<1>4. Counted(s) /\ interface = "i2c" /\ ~ OnUsb
  BY DEF CountersInv, OnI2c, OnUsb
<1>. DEFINE steps == RequestSteps(device.adapter, r)
            d == delivered[s]
            n == Carried(d, steps)
<1>5. d \in Nat /\ stats[s].written \in Nat /\ stats[s].written <= d
  BY <1>4 DEF Counted
<1>. HIDE DEF steps
<1>6. n <= d + Payload(r) /\ (NoRefusal(steps) => n = d + Payload(r)) /\ n \in Nat
  <2>1. Earned(steps, Payload(r))
    BY <1>3 DEF steps
  <2>. QED BY <1>5, <2>1, CarriedType, I2cStepsAreWeighed DEF Earned
<1>7. Recorded("i2c", stats[s], r).written \in {stats[s].written, stats[s].written + Payload(r)}
  <2>1. "i2c" \in Interfaces
    BY DEF Interfaces, Operations
  <2>. QED BY <1>4, <2>1, RecordedFacts DEF Counted
<1>8. NoRefusal(steps) => Recorded("i2c", stats[s], r).written <= n
  <2>. DEFINE w == Recorded("i2c", stats[s], r).written
  <2>. HIDE DEF w
  <2>1. w \in {stats[s].written, stats[s].written + Payload(r)}
    BY <1>7 DEF w
  <2>2. NoRefusal(steps) => w <= n
    BY <1>3, <1>5, <1>6, <2>1
  <2>. QED BY <2>2 DEF w
<1>9. Ahead(call'[s]) = steps
  BY <1>1 DEF steps
<1>10. Carried(d, Ahead(call'[s])) = n /\ d <= ByteLimit /\ n <= ByteLimit
       /\ delivered'[s] = d /\ stats'[s] = stats[s]
  BY <1>1, <1>2, <1>3, <1>5, <1>6, <1>9
<1>11. NoRefusal(Ahead(call'[s])) => Recorded("i2c", stats[s], call'[s].request).written <= n
  BY <1>1, <1>8, <1>9
<1>. HIDE DEF d, n
<1>12. d >= delivered[s] /\ d \in Nat
  BY <1>5 DEF d
<1>. QED BY <1>1, <1>6, <1>10, <1>11, <1>12, I2cCountsFrom

\* and each step delivers what it carries.
LEMMA I2cStepCounts ==
    ASSUME Base, CountersInv, I2cType, OnI2c, NEW s \in Sessions,
           SelectAddress(s) \/ MakeTransfer(s) \/ BlockGivesWay(s)
    PROVE  CountersInv'
<1>. DEFINE steps == Ahead(call[s])
            ahead == Ahead(call'[s])
            d == delivered[s]
            e == delivered'[s]
            n == Carried(d, steps)
<1>1. /\ I2cGoesOn(s, ahead)
      /\ \/ ahead = steps /\ e = d
         \/ steps # <<>> /\ Plays(Head(steps)) /\ ahead = Tail(steps) /\ e = d + Head(steps).carries
         \/ /\ steps # <<>> /\ Head(steps).kind = "block" /\ e = d
            /\ ahead = ReadSequence(Head(steps).write[1], Head(steps).read) \o Tail(steps)
            /\ NoRefusal(ahead) => NoRefusal(steps)
  <2>1. SelectAddress(s) => I2cGoesOn(s, ahead) /\ ahead = steps /\ e = d
    BY I2cSelects DEF I2cGoesOn
  <2>2. MakeTransfer(s) => /\ I2cGoesOn(s, ahead)
                           /\ steps # <<>> /\ Plays(Head(steps)) /\ ahead = Tail(steps) /\ e = d + Head(steps).carries
    BY I2cTransfers DEF I2cGoesOn
  <2>3. BlockGivesWay(s) =>
            /\ I2cGoesOn(s, ahead) /\ steps # <<>> /\ Head(steps).kind = "block" /\ e = d
            /\ ahead = ReadSequence(Head(steps).write[1], Head(steps).read) \o Tail(steps)
            /\ NoRefusal(ahead) => NoRefusal(steps)
    BY I2cBlockGivesWay
  <2>. QED BY <2>1, <2>2, <2>3
<1>2. /\ Others(s) /\ state[s] = "busy" /\ state'[s] = "busy" /\ stats'[s] = stats[s]
      /\ call'[s].request = call[s].request /\ ahead \in Seq(I2cStepSet)
  BY <1>1 DEF I2cGoesOn, I2cCall
<1>3. steps \in Seq(I2cStepSet)
  BY <1>2, BusyCall DEF I2cCall
<1>4. /\ Counted(s) /\ OnWay(s) /\ interface = "i2c" /\ ~ OnUsb
  BY <1>2 DEF CountersInv, Counted, OnI2c, OnUsb
<1>5. /\ d \in Nat /\ n <= ByteLimit
      /\ NoRefusal(steps) => Recorded("i2c", stats[s], call[s].request).written <= n
  BY <1>4 DEF Counted, OnWay, Gains
<1>6. RegisterCount \in Nat \ {0} /\ ByteLimit \in Nat /\ Weighed(I2cStepSet)
  BY I2cAssumption, DeviceAssumption, I2cStepsAreWeighed
<1>. HIDE DEF steps, ahead, d, e
<1>7. /\ e \in Nat /\ e >= d /\ Carried(e, ahead) = Carried(d, steps)
      /\ NoRefusal(ahead) => NoRefusal(steps)
  <2>1. CASE ahead = steps /\ e = d
    BY <1>5, <2>1
  <2>2. CASE steps # <<>> /\ Plays(Head(steps)) /\ ahead = Tail(steps) /\ e = d + Head(steps).carries
    <3>1. Head(steps) \in I2cStepSet /\ Weight(Head(steps)) \in Nat
          /\ Carried(d, steps) = Carried(d + Weight(Head(steps)), Tail(steps))
      BY <1>3, <1>5, <1>6, <2>2, CarriedOfFirst
    <3>2. Weight(Head(steps)) = Head(steps).carries
      BY <2>2, <3>1 DEF Weight, I2cStepSet, Transfers, Blocks, Block, Refusal, Plays
    <3>3. NoRefusal(ahead) => NoRefusal(steps)
      BY <1>3, <2>2, NoRefusalOfRest
    <3>. QED BY <1>5, <2>2, <3>1, <3>2, <3>3
  <2>3. CASE /\ steps # <<>> /\ Head(steps).kind = "block" /\ e = d
             /\ ahead = ReadSequence(Head(steps).write[1], Head(steps).read) \o Tail(steps)
             /\ NoRefusal(ahead) => NoRefusal(steps)
    <3>1. Carried(d, ReadSequence(Head(steps).write[1], Head(steps).read) \o Tail(steps)) = Carried(d, steps)
      BY <1>3, <1>5, <1>6, <2>3, CarriedOfBlock
    <3>. QED BY <1>5, <2>3, <3>1
  <2>. QED BY <1>1, <2>1, <2>2, <2>3
<1>8. n \in Nat /\ e <= n
  BY <1>2, <1>3, <1>5, <1>6, <1>7, CarriedType, CarriedGrows
<1>9. Carried(e, ahead) = n
  BY <1>7
<1>10. NoRefusal(ahead) => Recorded("i2c", stats[s], call'[s].request).written <= n
  BY <1>2, <1>5, <1>7
<1>. HIDE DEF n
<1>11. e <= ByteLimit
  BY <1>5, <1>6, <1>7, <1>8
<1>12. delivered'[s] = e /\ e >= delivered[s] /\ Carried(e, Ahead(call'[s])) = n
       /\ (NoRefusal(Ahead(call'[s])) => Recorded("i2c", stats[s], call'[s].request).written <= n)
  BY <1>7, <1>9, <1>10 DEF e, d, ahead
<1>. QED BY <1>2, <1>5, <1>7, <1>8, <1>11, <1>12, I2cCountsFrom

LEMMA I2cCounts ==
    ASSUME Base, CountersInv, I2cType, OnI2c, NEW s \in Sessions, I2cStep(s) \/ Fail(s)
    PROVE  CountersInv'
<1>1. CASE BindDevice(s) \/ BindController(s)
  BY <1>1, LifeCounts DEF BindDevice, BindController
<1>2. ASSUME NEW r \in Requests[s].i2c, BeginDeviceCall(s, r) \/ BeginControllerCall(s, r)
      PROVE  CountersInv'
  BY <1>2, I2cBeginCounts
<1>3. CASE SelectAddress(s) \/ MakeTransfer(s) \/ BlockGivesWay(s)
  BY <1>3, I2cStepCounts
<1>4. CASE Succeed(s, book[s])
  <2>1. state[s] = "busy" /\ call[s].steps = <<>>
    BY <1>4 DEF Succeed, Done
  <2>2. Counted(s) /\ OnWay(s)
    BY <2>1 DEF CountersInv, Counted
  <2>3. Ahead(call[s]) = <<>> /\ NoRefusal(<<>>)
    BY <2>1 DEF Ahead, Selecting, NoRefusal
  <2>4. Carried(delivered[s], <<>>) = delivered[s]
    BY <2>2, CarriedOfNone DEF Counted
  <2>5. Gains(s) <= delivered[s]
    BY <2>2, <2>3, <2>4 DEF OnWay
  <2>. QED BY <1>4, <2>5, SuccessOfCall
<1>5. CASE MarkClosed(s) \/ Fail(s) \/ Drop(s, [device EXCEPT !.selected[s] = NoBook])
  BY <1>5, LifeCounts
<1>. QED BY <1>1, <1>2, <1>3, <1>4, <1>5 DEF I2cStep

-----------------------------------------------------------------------------
(* spi and uart *)

LEMMA SerialCountsFrom ==
    ASSUME Base, CountersInv, OnSerial, NEW s \in Sessions, Others(s), state'[s] = "busy",
           stats'[s] = stats[s], NEW d \in Nat, delivered'[s] = d, d >= delivered[s],
           NEW n \in Nat, Carried(d, call'[s].steps) = n, d <= n, n <= ByteLimit,
           Recorded(interface, stats[s], call'[s].request).written <= n
    PROVE  CountersInv'
<1>1. UNCHANGED <<interface, backend, access>> /\ interface \in {"spi", "uart"} /\ backend = "linux"
  BY DEF Others, fixedVars, OnSerial
<1>2. Counted(s) /\ ~ OnUsb /\ ~ OnMock
  BY <1>1 DEF CountersInv, OnUsb, OnMock
<1>3. OnWay(s)'
  BY <1>1 DEF OnWay, Gains, OnI2c, OnSerial, OnUsb, OnMock
<1>4. ByteLimit \in Nat
  BY DeviceAssumption
<1>5. Counted(s)'
  BY <1>1, <1>2, <1>3, <1>4 DEF Counted, IsCounters, OnUsb, OnMock
<1>. QED BY <1>5, CountedFrom

\* So does a serial call.
LEMMA SerialBeginCounts ==
    ASSUME Base, CountersInv, OnSerial, NEW s \in Sessions,
           (\E r \in Requests[s].spi : BeginSpi(s, r)) \/ (\E r \in Requests[s].uart : BeginUart(s, r))
    PROVE  CountersInv'
<1>1. PICK r \in Requests[s][interface] :
            /\ BeginCall(s, r, SerialStepsOf(r))
            /\ r.op # "get_configuration"
  BY SerialBegins
<1>. DEFINE steps == SerialStepsOf(r)
            d == delivered[s]
            n == Carried(d, steps)
            w == Recorded(interface, stats[s], r).written
<1>. HIDE DEF steps
<1>2. /\ Others(s) /\ state'[s] = "busy" /\ call'[s] = Calling(r, steps)
      /\ Supported(interface, r) /\ d + Payload(r) <= ByteLimit /\ UNCHANGED <<stats, delivered>>
  BY <1>1, BeginFacts DEF steps
<1>3. call'[s].steps = steps /\ call'[s].request = r
  BY <1>2 DEF Calling
<1>4. /\ Counted(s) /\ interface \in Interfaces /\ ~ OnUsb /\ ByteLimit \in Nat
      /\ d \in Nat /\ stats[s].written \in Nat /\ stats[s].written <= d
  BY DeviceAssumption DEF CountersInv, Counted, OnSerial, OnUsb, Base
<1>5. Payload(r) \in Nat
  BY SerialRequest
<1>6. n = d + Payload(r) \/ (n = d /\ r.op \in {"configure", "read", "flush"})
  BY <1>1, <1>2, <1>4, SerialEarns DEF steps
<1>7. w \in {stats[s].written, stats[s].written + Payload(r)}
      /\ (r.op \in {"configure", "read", "flush"} => w = stats[s].written)
  BY <1>4, RecordedFacts, UnrecordedFacts DEF Counted, OnSerial
<1>8. Carried(d, call'[s].steps) = n /\ Recorded(interface, stats[s], call'[s].request).written = w
      /\ stats'[s] = stats[s] /\ delivered'[s] = d
  BY <1>2, <1>3
<1>. HIDE DEF d, n, w
<1>9. n \in Nat /\ d <= n /\ n <= ByteLimit /\ w <= n
  BY <1>2, <1>4, <1>5, <1>6, <1>7
<1>10. d >= delivered[s]
  BY <1>4 DEF d
<1>. QED BY <1>2, <1>4, <1>8, <1>9, <1>10, SerialCountsFrom

LEMMA SerialStepCounts ==
    ASSUME Base, CountersInv, SerialInv, OnSerial, NEW s \in Sessions,
           SetStep(s) \/ Send(s) \/ AskPort(s) \/ (GetStep(s) /\ state[s] = "busy")
    PROVE  CountersInv'
<1>. DEFINE steps == call[s].steps
            d == delivered[s]
            e == delivered'[s]
            n == Carried(d, steps)
            w == Recorded(interface, stats[s], call[s].request).written
<1>1. /\ state[s] = "busy" /\ steps # <<>>
      /\ Others(s) /\ state'[s] = "busy" /\ call'[s].steps = Tail(steps) /\ call'[s].request = call[s].request
      /\ stats'[s] = stats[s]
      /\ \/ Head(steps).kind = "send" /\ e = d + Head(steps).carries
         \/ Head(steps).kind \in {"set", "ask", "get"} /\ e = d
  <2>1. CASE SetStep(s)
    BY <2>1, SerialSets DEF SetStep, AtStep, NextStep, Continues
  <2>2. CASE Send(s)
    BY <2>2, SerialSends DEF Send, AtStep, NextStep, Continues
  <2>3. CASE AskPort(s)
    BY <2>3, PassContinues DEF AskPort, AtStep, NextStep, Continues
  <2>4. CASE GetStep(s) /\ state[s] = "busy"
    <3>. DEFINE f == NextStep(s).field
                v == device.settings[f]
    <3>1. /\ Others(s) /\ UNCHANGED <<state, stats, delivered>> /\ steps # <<>> /\ NextStep(s).kind = "get"
          /\ call'[s] = Got(call[s], f, v)
      BY <2>4, SerialGets
    <3>2. IsRecord(call[s])
      BY <2>4 DEF Base, IsCall
    <3>. HIDE DEF f, v
    <3>3. call'[s].steps = Tail(steps) /\ call'[s].request = call[s].request
      BY <3>1, <3>2, GotFacts
    <3>. QED BY <2>4, <3>1, <3>3 DEF NextStep
  <2>. QED BY <2>1, <2>2, <2>3, <2>4
<1>2. /\ Others(s) /\ state'[s] = "busy" /\ call'[s].steps = Tail(steps) /\ call'[s].request = call[s].request
      /\ stats'[s] = stats[s]
  BY <1>1
<1>3. steps \in Seq(SerialStepSet)
  BY <1>1 DEF SerialInv, SerialSession, Holds, Reading
<1>4. d \in Nat /\ w <= n /\ n <= ByteLimit
  BY <1>1 DEF CountersInv, Counted, OnWay, Gains
<1>5. Weighed(SerialStepSet) /\ ByteLimit \in Nat
  BY SerialStepsAreWeighed, DeviceAssumption
<1>6. Recorded(interface, stats[s], call'[s].request).written <= n
  BY <1>2, <1>4
<1>. HIDE DEF steps, d, e, w
<1>7. /\ Head(steps) \in SerialStepSet /\ Tail(steps) \in Seq(SerialStepSet) /\ Weight(Head(steps)) \in Nat
      /\ n = Carried(d + Weight(Head(steps)), Tail(steps))
  BY <1>1, <1>3, <1>4, <1>5, CarriedOfFirst
<1>8. e = d + Weight(Head(steps))
  <2>1. CASE Head(steps).kind = "send"
    <3>1. Head(steps) \in Sendings
      BY <1>7, <2>1, SerialKinds
    <3>2. Weight(Head(steps)) = Head(steps).carries
      BY <3>1 DEF Sendings, Weight
    <3>. QED BY <1>1, <2>1, <3>2
  <2>2. CASE Head(steps).kind # "send"
    <3>1. Head(steps) \in SetSteppings \cup Gettings \cup {[kind |-> "ask"]}
      BY <1>7, <2>2 DEF SerialStepSet, Sendings
    <3>2. Weight(Head(steps)) = 0
      BY <3>1, SerialStepsAreWeighed
    <3>. QED BY <1>1, <1>4, <2>2, <3>2
  <2>. QED BY <2>1, <2>2
<1>9. e \in Nat /\ e >= d /\ Carried(e, Tail(steps)) = n
  BY <1>4, <1>7, <1>8
<1>10. n \in Nat /\ e <= n
  BY <1>5, <1>7, <1>9, CarriedType, CarriedGrows
<1>11. Carried(e, call'[s].steps) = n /\ delivered'[s] = e /\ e >= delivered[s]
  BY <1>2, <1>9 DEF e, d
<1>. HIDE DEF n
<1>. QED BY <1>2, <1>4, <1>6, <1>9, <1>10, <1>11, SerialCountsFrom

LEMMA SerialCounts ==
    ASSUME Base, CountersInv, SerialInv, OnSerial, NEW s \in Sessions, SerialStep(s) \/ Fail(s)
    PROVE  CountersInv'
<1>1. CASE BindSpi(s) \/ BindUart(s)
  <2>1. \E x, b : Bind(s, x, b) /\ (unsure' = unsure \/ \E U : unsure' = [unsure EXCEPT ![s] = U])
    BY <1>1 DEF BindSpi, BindUart
  <2>. QED BY <2>1, LifeCounts
<1>2. CASE OpenFails(s)
  <2>1. UNCHANGED <<interface, backend, access, state, call, stats, delivered>>
    BY <1>2 DEF OpenFails, fixedVars, driverVars
  <2>. QED BY <2>1 DEF CountersInv, Counted, IsCounters, OnWay, Gains, Ahead, Selecting,
                        OnI2c, OnSerial, OnUsb, OnMock
<1>3. CASE (\E r \in Requests[s].spi : BeginSpi(s, r)) \/ (\E r \in Requests[s].uart : BeginUart(s, r))
  BY <1>3, SerialBeginCounts
<1>4. CASE SetStep(s) \/ Send(s) \/ AskPort(s) \/ GetStep(s)
  <2>1. CASE GetStep(s) /\ state[s] # "busy"
    BY <2>1, SerialGets, QuietCounts
  <2>. QED BY <1>4, <2>1, SerialStepCounts
<1>5. CASE FinishSerial(s)
  <2>0. Succeed(s, RememberSettings(s))
    BY <1>5, SerialFinishes
  <2>1. state[s] = "busy" /\ call[s].steps = <<>>
    BY <2>0 DEF Succeed, Done
  <2>2. Counted(s) /\ OnWay(s)
    BY <2>1 DEF CountersInv, Counted
  <2>3. Carried(delivered[s], <<>>) = delivered[s]
    BY <2>2, CarriedOfNone DEF Counted
  <2>4. Gains(s) <= delivered[s]
    BY <2>1, <2>2, <2>3 DEF OnWay
  <2>. QED BY <2>0, <2>4, SuccessOfCall
<1>6. CASE MarkClosed(s) \/ Drop(s, Released(s)) \/ Fail(s)
  BY <1>6, LifeCounts
<1>7. CASE OpenSpi(s) \/ OpenSpiFails(s)
  BY <1>7, SerialOpening, QuietCounts
<1>. QED BY <1>1, <1>2, <1>3, <1>4, <1>5, <1>6, <1>7 DEF SerialStep, SpiStep, UartStep

-----------------------------------------------------------------------------
(* The lines of the character device *)

LEMMA LinesCountNothing ==
    ASSUME Base, CountersInv, OnCdev, NEW s \in Sessions, Others(s),
           stats'[s] = stats[s], delivered'[s] \in {delivered[s], delivered[s] + 0}
    PROVE  CountersInv'
<1>1. UNCHANGED <<interface, backend, access>> /\ interface = "gpio" /\ backend = "linux"
  BY DEF Others, fixedVars, OnCdev
<1>2. Counted(s)
  BY DEF CountersInv
<1>3. OnWay(s)'
  BY <1>1 DEF OnWay, OnI2c, OnSerial, OnUsb, OnMock
<1>4. delivered'[s] = delivered[s]
  BY <1>2 DEF Counted
<1>5. Counted(s)'
  BY <1>1, <1>2, <1>3, <1>4 DEF Counted, IsCounters, OnUsb, OnMock
<1>. QED BY <1>5, CountedFrom

LEMMA CdevCounts ==
    ASSUME Base, CountersInv, OnCdev, NEW s \in Sessions, CdevStep(s) \/ Fail(s)
    PROVE  CountersInv'
<1>1. CASE BindCdev(s)
  BY <1>1, LifeCounts DEF BindCdev
<1>2. ASSUME NEW r \in Requests[s].gpio, BeginCdev(s, r)
      PROVE  CountersInv'
  <2>1. r \in Requests[s][interface] /\ BeginCall(s, r, CdevSteps(r))
    BY <1>2 DEF BeginCdev, OnCdev
  <2>2. Others(s) /\ stats' = stats /\ delivered' = delivered
    BY <2>1, BeginFacts
  <2>. QED BY <2>2, LinesCountNothing
<1>3. CASE SetLevel(s)
  <2>1. Continues(s, Tail(call[s].steps)) /\ delivered'[s] = delivered[s] + 0
    BY <1>3, CdevSets
  <2>. QED BY <2>1, LinesCountNothing DEF Continues
<1>4. CASE GetLevel(s)
  <2>1. Continues(s, Tail(call[s].steps)) /\ delivered' = delivered
    BY <1>4, PassContinues DEF GetLevel, AtStep
  <2>. QED BY <2>1, LinesCountNothing DEF Continues
<1>5. CASE Succeed(s, book[s])
  <2>1. Others(s) /\ stats'[s] = Recorded(interface, stats[s], call[s].request) /\ delivered' = delivered
    BY <1>5, SucceedFacts
  <2>2. stats'[s] = stats[s]
    BY <2>1, UnrecordedFacts DEF OnCdev
  <2>. QED BY <2>1, <2>2, LinesCountNothing
<1>6. CASE MarkClosed(s) \/ Drop(s, Released(s)) \/ Fail(s)
  BY <1>6, LifeCounts
<1>. QED BY <1>1, <1>2, <1>3, <1>4, <1>5, <1>6 DEF CdevStep

-----------------------------------------------------------------------------
(* usb *)

LEMMA UsbCountsFrom ==
    ASSUME Base, CountersInv, OnUsb, NEW s \in Sessions, Others(s), stats'[s] = stats[s],
           delivered'[s] \in Nat, delivered'[s] <= ByteLimit,
           call'[s].steps # <<>> /\ Head(call'[s].steps).kind = "exchange" =>
                delivered'[s] + Payload(call'[s].request) <= ByteLimit
    PROVE  CountersInv'
<1>1. UNCHANGED <<interface, backend, access>> /\ interface = "usb" /\ backend = "linux"
  BY DEF Others, fixedVars, OnUsb
<1>2. Counted(s)
  BY DEF CountersInv
<1>3. OnWay(s)'
  BY <1>1 DEF OnWay, OnI2c, OnSerial, OnUsb, OnMock
<1>4. Counted(s)'
  BY <1>1, <1>2, <1>3 DEF Counted, IsCounters, OnUsb, OnMock
<1>. QED BY <1>4, CountedFrom

LEMMA MovedType ==
    ASSUME NEW r, Payload(r) \in Nat, r.op \in UsbOperations \ {"claim_interface", "release_interface"}
    PROVE  Moved(r) \subseteq 0 .. Payload(r)
BY DEF Moved, MovedByControl, MovedInBulk, MovedByInterrupt, UsbOperations

\* A usb call begins,
LEMMA UsbBeginCounts ==
    ASSUME Base, CountersInv, OnUsb, NEW s \in Sessions, NEW r \in Requests[s].usb, BeginUsb(s, r)
    PROVE  CountersInv'
<1>. DEFINE steps == UsbSteps(r)
<1>1. r \in Requests[s][interface] /\ BeginCall(s, r, steps)
  BY DEF BeginUsb, OnUsb
<1>. HIDE DEF steps
<1>2. /\ Others(s) /\ call'[s] = Calling(r, steps)
      /\ delivered[s] + Payload(r) <= ByteLimit /\ UNCHANGED <<stats, delivered>>
  BY <1>1, BeginFacts
<1>3. call'[s].request = r
  BY <1>2 DEF Calling
<1>4. delivered[s] \in Nat /\ delivered[s] <= ByteLimit
  BY DEF CountersInv, Counted, OnUsb, OnMock
<1>. QED BY <1>2, <1>3, <1>4, UsbCountsFrom

\* A step after which no transfer is to be made.
LEMMA UsbGoesOnCounting ==
    ASSUME Base, CountersInv, OnUsb, NEW s \in Sessions, Others(s), stats'[s] = stats[s],
           delivered'[s] \in Nat, delivered'[s] <= ByteLimit,
           NEW n, call'[s].steps \in {<<>>, <<Step("alternate", n)>>, <<Step("release", n)>>}
    PROVE  CountersInv'
<1>. DEFINE steps == call'[s].steps
            a == <<Step("alternate", n)>>
            b == <<Step("release", n)>>
<1>1. Head(a).kind = "alternate" /\ Head(b).kind = "release"
  <2>1. Head(a) = Step("alternate", n) /\ Head(b) = Step("release", n)
    BY OneStep
  <2>. QED BY <2>1, StepKinds
<1>2. steps \in {<<>>, a, b}
  OBVIOUS
<1>. HIDE DEF a, b
<1>3. ~ (steps # <<>> /\ Head(steps).kind = "exchange")
  BY <1>1, <1>2
<1>. QED BY <1>3, UsbCountsFrom

\* and its transfer delivers the payload.
LEMMA UsbStepCounts ==
    ASSUME Base, CountersInv, UsbInv, OnUsb, NEW s \in Sessions,
           TakeClaim(s) \/ SetAlternate(s) \/ AlternateFails(s) \/ GiveBack(s) \/ Exchange(s)
    PROVE  CountersInv'
<1>. DEFINE r == call[s].request
            n == r.number
            steps == call[s].steps
<1>0. /\ delivered[s] \in Nat /\ delivered[s] <= ByteLimit /\ ByteLimit \in Nat
      /\ Counted(s)
  BY DeviceAssumption DEF CountersInv, Counted, OnUsb, OnMock
<1>1. state[s] = "busy" /\ steps # <<>>
  BY DEF TakeClaim, SetAlternate, AlternateFails, GiveBack, Exchange, AtStep
<1>2. CASE TakeClaim(s)
  <2>1. NextStep(s).kind = "claim" /\ Continues(s, Tail(steps)) /\ delivered'[s] = delivered[s] + 0
    BY <1>2, UsbClaims DEF TakeClaim, AtStep
  <2>2. Tail(steps) \in {<<>>, <<Step("alternate", n)>>}
    BY <1>1, <2>1, UsbNext
  <2>3. /\ Others(s) /\ stats'[s] = stats[s] /\ delivered'[s] = delivered[s]
        /\ call'[s].steps \in {<<>>, <<Step("alternate", n)>>, <<Step("release", n)>>}
    BY <1>0, <2>1, <2>2 DEF Continues
  <2>. QED BY <1>0, <2>3, UsbGoesOnCounting
<1>3. CASE SetAlternate(s)
  <2>1. NextStep(s).kind = "alternate" /\ Continues(s, Tail(steps)) /\ delivered' = delivered
    BY <1>3, UsbAlternates DEF SetAlternate, AtStep
  <2>2. Tail(steps) = <<>>
    BY <1>1, <2>1, UsbNext
  <2>. QED BY <1>0, <2>1, <2>2, UsbGoesOnCounting DEF Continues
<1>4. CASE AlternateFails(s)
  <2>1. Advance(s) /\ call'[s].steps = <<Step("release", NextStep(s).number)>> /\ UNCHANGED <<stats, delivered>>
    BY <1>4, UsbTakesBack
  <2>. DEFINE m == NextStep(s).number
  <2>2. Others(s) /\ stats'[s] = stats[s] /\ delivered'[s] = delivered[s]
        /\ call'[s].steps \in {<<>>, <<Step("alternate", m)>>, <<Step("release", m)>>}
    BY <2>1 DEF Advance
  <2>. HIDE DEF m
  <2>. QED BY <1>0, <2>2, UsbGoesOnCounting
<1>5. CASE GiveBack(s)
  <2>1. NextStep(s).kind = "release" /\ Continues(s, Tail(steps)) /\ delivered'[s] = delivered[s] + 0
    BY <1>5, UsbGivesBack DEF GiveBack, AtStep
  <2>2. Tail(steps) = <<>>
    BY <1>1, <2>1, UsbNext
  <2>3. Others(s) /\ stats'[s] = stats[s] /\ delivered'[s] = delivered[s]
        /\ call'[s].steps \in {<<>>, <<Step("alternate", n)>>, <<Step("release", n)>>}
    BY <1>0, <2>1, <2>2 DEF Continues
  <2>. QED BY <1>0, <2>3, UsbGoesOnCounting
<1>6. CASE Exchange(s)
  <2>1. NextStep(s).kind = "exchange" /\ Continues(s, Tail(steps))
    BY <1>6, UsbExchanges DEF Exchange, AtStep
  <2>2. Tail(steps) = <<>> /\ r.op \notin {"claim_interface", "release_interface"}
    BY <1>1, <2>1, UsbNext
  <2>3. r.op \in UsbOperations /\ Payload(r) \in Nat
    <3>1. r \in Requests[s][interface] /\ Supported(interface, r) /\ interface = "usb"
      BY <1>1 DEF Base, IsCall, OnUsb
    <3>2. r.op \in UsbOperations
      BY <3>1 DEF Supported, Operations
    <3>. QED BY <1>1, <3>1, <3>2, BusyPayload
  <2>4. delivered[s] + Payload(r) <= ByteLimit
    BY <1>0, <1>1, <2>1 DEF Counted, OnWay, NextStep
  <2>5. PICK moved \in Moved(r) : delivered'[s] = delivered[s] + moved
    BY <1>6, UsbExchanges
  <2>6. moved \in 0 .. Payload(r)
    BY <2>2, <2>3, MovedType
  <2>7. delivered'[s] \in Nat /\ delivered'[s] <= ByteLimit
    BY <1>0, <2>3, <2>4, <2>5, <2>6
  <2>. QED BY <2>1, <2>2, <2>7, UsbGoesOnCounting DEF Continues
<1>. QED BY <1>2, <1>3, <1>4, <1>5, <1>6

LEMMA UsbCounts ==
    ASSUME Base, CountersInv, UsbInv, OnUsb, NEW s \in Sessions, UsbStep(s) \/ Fail(s)
    PROVE  CountersInv'
<1>1. CASE BindUsb(s)
  BY <1>1, LifeCounts DEF BindUsb
<1>2. ASSUME NEW r \in Requests[s].usb, BeginUsb(s, r)
      PROVE  CountersInv'
  BY <1>2, UsbBeginCounts
<1>3. CASE TakeClaim(s) \/ SetAlternate(s) \/ AlternateFails(s) \/ GiveBack(s) \/ Exchange(s)
  BY <1>3, UsbStepCounts
<1>4. CASE FinishUsb(s)
  BY <1>4, SuccessOfCall DEF FinishUsb
<1>5. CASE CloseUsb(s) \/ CloseFails(s)
  <2>1. Advance(s) /\ state'[s] # "busy" /\ UNCHANGED <<stats, delivered>>
    BY <1>5, UsbCloses
  <2>. QED BY <2>1, QuietCounts DEF Advance
<1>6. CASE Drop(s, Give(Claimed(s), NoHolder)) \/ Fail(s)
  BY <1>6, LifeCounts
<1>. QED BY <1>1, <1>2, <1>3, <1>4, <1>5, <1>6 DEF UsbStep

-----------------------------------------------------------------------------
(* What a device of the mock takes *)

MockContents ==
    [memory : [Addresses -> [MockRegisters -> Registers]], pointer : [Addresses -> 0 .. MockLimit]]

Outcomes == [ok : BOOLEAN, content : MockContents, carried : Nat]

Carries(done, n) == done \in Outcomes /\ done.ok = TRUE /\ done.carried = n

LEMMA MinOfTwo ==
    ASSUME NEW p \in Nat, NEW q \in Nat
    PROVE  Min({p, q}) \in 0 .. q
<1>1. \E x \in {p, q} : \A y \in {p, q} : x <= y
  BY p <= q \/ q <= p
<1>. QED BY <1>1 DEF Min

LEMMA MemoryOutcomeType ==
    ASSUME NEW content \in MockContents, NEW address \in Addresses,
           NEW memory \in [MockRegisters -> Registers], NEW pointer \in Nat, NEW carried \in Nat
    PROVE  Carries(MemoryOutcome(content, address, memory, pointer, carried), carried)
<1>1. MockLimit \in Nat
  BY MockAssumption
<1>. DEFINE low == Min({pointer, MockLimit})
<1>2. low \in 0 .. MockLimit
  BY <1>1, MinOfTwo
<1>. HIDE DEF low
<1>. DEFINE M == [MockRegisters -> Registers]
            m == [content.memory EXCEPT ![address] = memory]
            p == [content.pointer EXCEPT ![address] = low]
<1>3. content.memory \in [Addresses -> M] /\ content.pointer \in [Addresses -> 0 .. MockLimit]
  BY DEF MockContents
<1>4. m \in [Addresses -> M]
  BY <1>3
<1>5. p \in [Addresses -> 0 .. MockLimit]
  BY <1>2, <1>3
<1>6. MemoryOutcome(content, address, memory, pointer, carried)
        = [ok |-> TRUE, content |-> [memory |-> m, pointer |-> p], carried |-> carried]
  BY DEF MemoryOutcome, Outcome, low
<1>. HIDE DEF m, p
<1>. QED BY <1>4, <1>5, <1>6 DEF Carries, Outcomes, MockContents

LEMMA ReadOutcomeType ==
    ASSUME NEW content \in MockContents, NEW address \in Addresses, NEW length \in Nat
    PROVE  LET done == ReadOutcome(content, address, length)
           IN  done \in Outcomes /\ done.ok = TRUE /\ done.carried = 0
<1>. DEFINE memory == content.memory[address]
            pointer == content.pointer[address] + length
            none == 0
<1>1. memory \in [MockRegisters -> Registers] /\ pointer \in Nat
  BY MockAssumption DEF MockContents
<1>2. none \in Nat
  OBVIOUS
<1>. HIDE DEF memory, pointer, none
<1>3. Carries(MemoryOutcome(content, address, memory, pointer, none), none)
  BY <1>1, <1>2, MemoryOutcomeType
<1>. QED BY <1>3 DEF ReadOutcome, Carries, memory, pointer, none

LEMMA WriteOutcomeType ==
    ASSUME RegisterCount \in Nat \ {0}, NEW content \in MockContents, NEW address \in Addresses,
           NEW bytes \in Seq(Registers)
    PROVE  LET done == WriteOutcome(content, address, bytes)
           IN  /\ done \in Outcomes /\ done.ok = (bytes # <<>>)
               /\ done.ok => done.carried = Len(bytes)
<1>1. CASE bytes = <<>>
  BY <1>1 DEF WriteOutcome, Outcome, Outcomes
<1>2. CASE bytes # <<>>
  <2>. DEFINE memory == [k \in MockRegisters |->
                            IF k >= bytes[1] /\ k - bytes[1] < Len(bytes) - 1
                            THEN bytes[k - bytes[1] + 2] ELSE content.memory[address][k]]
              pointer == bytes[1] + Len(bytes) - 1
              n == Len(bytes)
  <2>1. n \in Nat /\ n >= 1 /\ bytes[1] \in Nat /\ \A k \in 1 .. n : bytes[k] \in Registers
    BY <1>2 DEF Registers
  <2>2. content.memory[address] \in [MockRegisters -> Registers]
    BY DEF MockContents
  <2>3. memory \in [MockRegisters -> Registers]
    <3>1. ASSUME NEW k \in MockRegisters, k >= bytes[1], k - bytes[1] < n - 1
          PROVE  k - bytes[1] + 2 \in 1 .. n
      BY <2>1, <3>1, MockAssumption DEF MockRegisters
    <3>. QED BY <2>1, <2>2, <3>1
  <2>4. pointer \in Nat
    BY <2>1
  <2>. HIDE DEF memory, pointer, n
  <2>5. Carries(MemoryOutcome(content, address, memory, pointer, n), n)
    BY <2>1, <2>3, <2>4, MemoryOutcomeType
  <2>6. WriteOutcome(content, address, bytes) = MemoryOutcome(content, address, memory, pointer, n)
    BY <1>2 DEF WriteOutcome, memory, pointer, n
  <2>. QED BY <1>2, <2>5, <2>6 DEF Carries, n
<1>. QED BY <1>1, <1>2

LEMMA WriteReadOutcomeType ==
    ASSUME RegisterCount \in Nat \ {0}, NEW content \in MockContents, NEW address \in Addresses,
           NEW bytes \in Seq(Registers), NEW length \in Nat
    PROVE  LET done == WriteReadOutcome(content, address, bytes, length)
           IN  done \in Outcomes /\ (done.ok => done.carried = Len(bytes))
<1>. DEFINE written == WriteOutcome(content, address, bytes)
            memory == written.content.memory[address]
            pointer == bytes[1] + length
            n == Len(bytes)
<1>1. /\ written \in Outcomes /\ written.ok = (bytes # <<>>)
      /\ written.ok => written.carried = n
  BY WriteOutcomeType
<1>2. written.content \in MockContents
  BY <1>1 DEF Outcomes
<1>. HIDE DEF written
<1>3. CASE ~ written.ok
  BY <1>1, <1>3 DEF WriteReadOutcome, written
<1>4. CASE written.ok
  <2>0. bytes # <<>>
    BY <1>1, <1>4
  <2>1. bytes[1] \in Nat /\ n \in Nat
    BY <2>0 DEF Registers
  <2>2. pointer \in Nat /\ memory \in [MockRegisters -> Registers]
    BY <1>2, <2>1 DEF MockContents
  <2>. HIDE DEF pointer, memory, n
  <2>3. Carries(MemoryOutcome(content, address, memory, pointer, n), n)
    BY <2>1, <2>2, MemoryOutcomeType
  <2>4. WriteReadOutcome(content, address, bytes, length) = MemoryOutcome(content, address, memory, pointer, n)
    BY <1>4 DEF WriteReadOutcome, written, memory, pointer, n
  <2>. QED BY <2>3, <2>4 DEF Carries, n
<1>. QED BY <1>3, <1>4

\* What a message makes of what those before it did.
MessageOutcome(before, address, m) ==
    LET done == IF m.read > 0 THEN ReadOutcome(before.content, address, m.read)
                              ELSE WriteOutcome(before.content, address, m.write)
    IN  IF before.ok THEN [done EXCEPT !.carried = @ + before.carried] ELSE before

LEMMA MessageOutcomeType ==
    ASSUME RegisterCount \in Nat \ {0}, NEW before \in Outcomes, NEW address \in Addresses, NEW m,
           m.write \in Seq(Registers), m.read \in Nat, m.read > 0 => m.write = <<>>
    PROVE  LET done == MessageOutcome(before, address, m)
           IN  /\ done \in Outcomes
               /\ done.ok => before.ok /\ done.carried = before.carried + Len(m.write)
<1>. DEFINE done == IF m.read > 0 THEN ReadOutcome(before.content, address, m.read)
                                  ELSE WriteOutcome(before.content, address, m.write)
<1>1. before.content \in MockContents /\ before.carried \in Nat /\ Len(m.write) \in Nat
  BY DEF Outcomes
<1>2. done \in Outcomes /\ (done.ok => done.carried = Len(m.write))
  BY <1>1, ReadOutcomeType, WriteOutcomeType
<1>3. MessageOutcome(before, address, m)
        = IF before.ok THEN [done EXCEPT !.carried = @ + before.carried] ELSE before
  BY DEF MessageOutcome
<1>. HIDE DEF done
<1>4. PICK o \in BOOLEAN, c \in MockContents, n \in Nat : done = [ok |-> o, content |-> c, carried |-> n]
  BY <1>2 DEF Outcomes
<1>5. [done EXCEPT !.carried = @ + before.carried]
        = [ok |-> o, content |-> c, carried |-> n + before.carried]
  BY <1>4
<1>6. n + before.carried \in Nat
  BY <1>1
<1>7. CASE before.ok
  BY <1>1, <1>2, <1>3, <1>4, <1>5, <1>6, <1>7 DEF Outcomes
<1>8. CASE ~ before.ok
  BY <1>3, <1>8
<1>. QED BY <1>7, <1>8

LEMMA TransactionOutcomeType ==
    ASSUME RegisterCount \in Nat \ {0}, NEW content \in MockContents, NEW address \in Addresses,
           NEW r, "messages" \in DOMAIN r, r.messages \in Messages(Registers),
           \A k \in DOMAIN r.messages : r.messages[k].read > 0 => r.messages[k].write = <<>>
    PROVE  LET done == TransactionOutcome(content, address, r.messages)
           IN  done \in Outcomes /\ (done.ok => done.carried = Payload(r))
<1>. DEFINE messages == r.messages
            n == Len(messages)
            S == Outcomes
            x == Outcome(TRUE, content, 0)
            g == [k \in 1 .. n |-> [before \in S |-> MessageOutcome(before, address, messages[k])]]
            Body(W) == [k \in 0 .. n |-> IF k = 0 THEN x ELSE MessageOutcome(W[k - 1], address, messages[k])]
<1>1. /\ n \in Nat /\ DOMAIN messages = 1 .. n
      /\ \A k \in 1 .. n : messages[k].write \in Seq(Registers) /\ messages[k].read \in Nat
  <2>. DEFINE R == [write : Seq(Registers), read : Nat]
  <2>1. messages \in Seq(R)
    BY DEF Messages
  <2>. HIDE DEF R
  <2>2. n \in Nat /\ DOMAIN messages = 1 .. n /\ \A k \in 1 .. n : messages[k] \in R
    BY <2>1
  <2>. QED BY <2>2 DEF R
<1>2. PICK P : IsPayload(P, r)
  BY PayloadIsSum
<1>3. /\ P \in [0 .. n -> Nat] /\ P[0] = 0 /\ Payload(r) = P[n]
      /\ \A k \in 1 .. n : P[k] = P[k - 1] + Len(messages[k].write)
  BY <1>2 DEF IsPayload
<1>4. x \in S /\ x.carried = 0
  BY DEF Outcome, Outcomes
<1>5. ASSUME NEW k \in 1 .. n, NEW before \in S
      PROVE  LET done == MessageOutcome(before, address, messages[k])
             IN  /\ done \in S
                 /\ done.ok => before.ok /\ done.carried = before.carried + Len(messages[k].write)
  BY <1>1, MessageOutcomeType
<1>6. TransactionOutcome(content, address, messages) = (CHOOSE W : W = Body(W))[n]
  BY DEF TransactionOutcome, MessageOutcome
<1>. HIDE DEF messages, n, S, x
<1>7. g \in [1 .. n -> [S -> S]] /\ \A k \in 1 .. n, before \in S : g[k][before] = MessageOutcome(before, address, messages[k])
  BY <1>5
<1>. HIDE DEF g
<1>8. PICK F : Iterates(F, S, x, n, g)
  BY <1>1, <1>4, <1>7, Recursion
<1>9. F \in [0 .. n -> S] /\ F[0] = x /\ \A k \in 1 .. n : F[k] = MessageOutcome(F[k - 1], address, messages[k])
  <2>1. F \in [0 .. n -> S] /\ F[0] = x /\ \A k \in 1 .. n : F[k] = g[k][F[k - 1]]
    BY <1>8 DEF Iterates
  <2>2. \A k \in 1 .. n : F[k - 1] \in S
    BY <1>1, <2>1
  <2>. QED BY <1>7, <2>1, <2>2
<1>10. F = Body(F)
  BY <1>1, <1>9
<1>. DEFINE W == CHOOSE W : W = Body(W)
<1>11. W = Body(W)
  BY <1>10
<1>12. TransactionOutcome(content, address, messages) = W[n]
  BY <1>6
<1>. HIDE DEF W
<1>. DEFINE T == {k \in Nat : k <= n => W[k] \in S /\ (W[k].ok => W[k].carried = P[k])}
<1>13. 0 \in T
  BY <1>1, <1>3, <1>4, <1>11
<1>14. ASSUME NEW k \in T
       PROVE  k + 1 \in T
  <2>. SUFFICES ASSUME k + 1 <= n
                PROVE  W[k + 1] \in S /\ (W[k + 1].ok => W[k + 1].carried = P[k + 1])
    OBVIOUS
  <2>. DEFINE j == k + 1
  <2>1. k \in Nat /\ j \in 1 .. n /\ j - 1 = k /\ W[k] \in S /\ (W[k].ok => W[k].carried = P[k])
    BY <1>1
  <2>. HIDE DEF T, j
  <2>2. W[j] = MessageOutcome(W[k], address, messages[j])
    BY <1>1, <1>11, <2>1
  <2>3. W[j] \in S /\ (W[j].ok => W[k].ok /\ W[j].carried = W[k].carried + Len(messages[j].write))
    BY <1>5, <2>1, <2>2
  <2>4. P[j] = P[k] + Len(messages[j].write)
    BY <1>3, <2>1
  <2>. QED BY <2>1, <2>3, <2>4 DEF j
<1>. HIDE DEF T
<1>15. T = Nat
  <2>1. T \in SUBSET Nat
    BY DEF T
  <2>. QED BY <1>13, <1>14, <2>1, Induction
<1>16. W[n] \in S /\ (W[n].ok => W[n].carried = P[n])
  BY <1>1, <1>15 DEF T
<1>. QED BY <1>3, <1>12, <1>16 DEF messages, S

LEMMA MockRequestFacts ==
    ASSUME Base, OnMock, NEW s \in Sessions, NEW r \in Requests[s][interface], Supported(interface, r)
    PROVE  /\ Payload(r) \in Nat \/ interface = "pwm"
           /\ r.op \in Operations[interface]
           /\ interface = "i2c" =>
                /\ IsI2cRequest(r) /\ ValidI2c(r) /\ r.address \in Addresses /\ r.op \in I2cOperations
                /\ "messages" \in DOMAIN r /\ r.messages \in Messages(Registers)
<1>1. Payload(r) \in Nat \/ interface = "pwm"
  BY RequestPayload
<1>2. ASSUME interface = "i2c"
      PROVE  /\ IsI2cRequest(r) /\ ValidI2c(r) /\ r.address \in Addresses /\ r.op \in I2cOperations
             /\ "messages" \in DOMAIN r /\ r.messages \in Messages(Registers)
  <2>1. IsI2cRequest(r) /\ ValidI2c(r)
    BY <1>2, I2cAssumption DEF Supported, Valid
  <2>. DEFINE M == Seq([write : Seq(Registers), read : Nat])
  <2>2. r \in [op : I2cOperations, address : Addresses, messages : M]
    BY <2>1 DEF IsI2cRequest
  <2>. HIDE DEF M
  <2>3. r.address \in Addresses /\ r.op \in I2cOperations /\ "messages" \in DOMAIN r /\ r.messages \in M
    BY <2>2
  <2>. QED BY <2>1, <2>3 DEF M, Messages
<1>. QED BY <1>1, <1>2 DEF Supported

\* A request to a device of the mock carries what its success will count.
LEMMA I2cOutcomeCarries ==
    ASSUME NEW content \in MockContents, NEW r, IsI2cRequest(r), ValidI2c(r),
           r.address \in Addresses, r.op \in I2cOperations,
           "messages" \in DOMAIN r, r.messages \in Messages(Registers)
    PROVE  LET done == I2cOutcome(content, r)
           IN  /\ done \in Outcomes
               /\ done.ok /\ r.op # "read" => done.carried = Payload(r)
<1>1. RegisterCount \in Nat \ {0}
  BY I2cAssumption
<1>2. CASE r.op = "transaction"
  <2>1. \A k \in DOMAIN r.messages : r.messages[k].read > 0 => r.messages[k].write = <<>>
    BY <1>2 DEF IsI2cRequest
  <2>2. LET done == TransactionOutcome(content, r.address, r.messages)
        IN  done \in Outcomes /\ (done.ok => done.carried = Payload(r))
    BY <1>1, <2>1, TransactionOutcomeType
  <2>. QED BY <1>2, <2>2 DEF I2cOutcome
<1>3. CASE r.op # "transaction"
  <2>. DEFINE m == r.messages[1]
              bytes == m.write
              length == m.read
  <2>1. Len(r.messages) = 1
    BY <1>3 DEF IsI2cRequest
  <2>2. bytes \in Seq(Registers) /\ length \in Nat
    <3>. DEFINE R == [write : Seq(Registers), read : Nat]
    <3>1. r.messages \in Seq(R)
      BY DEF Messages
    <3>. HIDE DEF R
    <3>2. m \in R
      BY <2>1, <3>1
    <3>. QED BY <3>2 DEF R
  <2>3. Payload(r) = Len(bytes)
    BY <2>1, PayloadOfOne
  <2>. HIDE DEF m, bytes, length
  <2>4. ReadOutcome(content, r.address, length) \in Outcomes
    BY <2>2, ReadOutcomeType
  <2>5. LET done == WriteOutcome(content, r.address, bytes)
        IN  done \in Outcomes /\ (done.ok => done.carried = Len(bytes))
    BY <1>1, <2>2, WriteOutcomeType
  <2>6. LET done == WriteReadOutcome(content, r.address, bytes, length)
        IN  done \in Outcomes /\ (done.ok => done.carried = Len(bytes))
    BY <1>1, <2>2, WriteReadOutcomeType
  <2>7. /\ r.op = "read" => I2cOutcome(content, r) = ReadOutcome(content, r.address, length)
        /\ r.op = "write" => I2cOutcome(content, r) = WriteOutcome(content, r.address, bytes)
        /\ r.op = "write_read" => I2cOutcome(content, r) = WriteReadOutcome(content, r.address, bytes, length)
    BY DEF I2cOutcome, bytes, length, m
  <2>. QED BY <1>3, <2>3, <2>4, <2>5, <2>6, <2>7 DEF I2cOperations
<1>. QED BY <1>2, <1>3

\* What the mock takes of a request is what the request writes.
LEMMA MockCarries ==
    ASSUME Base, OnMock, NEW s \in Sessions, NEW r \in Requests[s][interface], Supported(interface, r),
           r.op # "get_configuration", interface = "i2c" => device.content \in MockContents,
           NEW x, IsCounters(x), x.written \in Nat
    PROVE  LET done == RequestOutcome(r)
           IN  /\ done.carried \in Nat
               /\ interface = "i2c" => done.content \in MockContents
               /\ done.ok => Recorded(interface, x, r).written <= x.written + done.carried
<1>. DEFINE done == RequestOutcome(r)
            w == Recorded(interface, x, r).written
<1>1. /\ Payload(r) \in Nat \/ interface = "pwm"
      /\ r.op \in Operations[interface]
  BY MockRequestFacts
<1>2. w \in {x.written, x.written + Payload(r)} /\ interface \in Interfaces
  BY RecordedFacts DEF Base
<1>3. interface \in {"gpio", "pwm", "i2c", "spi", "uart", "usb"}
  <2>1. DOMAIN Operations = {"gpio", "pwm", "i2c", "spi", "uart", "usb"}
    BY DEF Operations
  <2>. QED BY <1>2, <2>1 DEF Interfaces
<1>4. CASE interface = "i2c"
  <2>1. /\ IsI2cRequest(r) /\ ValidI2c(r) /\ r.address \in Addresses /\ r.op \in I2cOperations
        /\ "messages" \in DOMAIN r /\ r.messages \in Messages(Registers)
    BY <1>4, MockRequestFacts
  <2>2. done = I2cOutcome(device.content, r)
    BY <1>4 DEF RequestOutcome
  <2>3. done \in Outcomes /\ (done.ok /\ r.op # "read" => done.carried = Payload(r))
    BY <1>4, <2>1, <2>2, I2cOutcomeCarries
  <2>4. r.op = "read" => w = x.written
    BY <1>4, UnrecordedFacts
  <2>5. done.carried \in Nat /\ done.content \in MockContents
    BY <2>3 DEF Outcomes
  <2>. HIDE DEF done, w
  <2>6. done.ok => w <= x.written + done.carried
    BY <1>1, <1>2, <1>4, <2>3, <2>4, <2>5
  <2>. QED BY <2>5, <2>6 DEF done, w
<1>5. CASE interface = "usb"
  <2>1. done = UsbOutcome(device.content, r)
    BY <1>5 DEF RequestOutcome
  <2>2. /\ r.op \in {"claim_interface", "release_interface"} => done.carried = 0
        /\ r.op \notin {"claim_interface", "release_interface"} => done.carried = Payload(r)
    BY <2>1 DEF UsbOutcome, Outcome
  <2>3. r.op \in {"claim_interface", "release_interface"} => w = x.written
    BY <1>5 DEF Recorded, UsbRecorded, IsCounters
  <2>. HIDE DEF done, w
  <2>4. done.carried \in Nat /\ w <= x.written + done.carried
    BY <1>1, <1>2, <1>5, <2>2, <2>3
  <2>. QED BY <1>5, <2>4 DEF done, w
<1>6. CASE interface \in {"gpio", "pwm"}
  <2>1. done.carried = 0
    <3>1. interface = "gpio" => done = GpioOutcome(device.content, r) /\ r.op \in {"read", "write", "configure"}
      BY <1>1 DEF RequestOutcome, Operations, GpioOperations
    <3>2. interface = "pwm" => done = PwmOutcome(device.content, r)
                               /\ r.op \in {"enable", "configure", "set_period", "set_duty_cycle"}
      BY <1>1 DEF RequestOutcome, Operations, PwmOperations
    <3>3. interface = "gpio" => done.carried = 0
      BY <3>1 DEF GpioOutcome, Outcome
    <3>4. interface = "pwm" => done.carried = 0
      BY <3>2 DEF PwmOutcome, Outcome
    <3>. QED BY <1>6, <3>3, <3>4
  <2>2. w = x.written
    BY <1>6, UnrecordedFacts
  <2>. HIDE DEF done, w
  <2>3. done.carried \in Nat /\ w <= x.written + done.carried
    BY <2>1, <2>2
  <2>. QED BY <1>6, <2>3 DEF done, w
<1>7. CASE interface \in {"spi", "uart"}
  <2>1. /\ interface = "spi" => done = SpiOutcome(device.content, r) /\ r.op \in {"transfer", "write", "configure"}
        /\ interface = "uart" => done = UartOutcome(device.content, r) /\ r.op \in {"read", "write", "configure", "flush"}
    BY <1>1 DEF RequestOutcome, Operations, SpiOperations, UartOperations
  <2>2. /\ r.op # "configure" => done.carried = Payload(r)
        /\ r.op = "configure" => done.carried = 0
    BY <1>7, <2>1 DEF SpiOutcome, UartOutcome, Outcome
  <2>3. r.op = "configure" => w = x.written
    BY <1>7, UnrecordedFacts
  <2>. HIDE DEF done, w
  <2>4. done.carried \in Nat /\ w <= x.written + done.carried
    BY <1>1, <1>2, <1>7, <2>2, <2>3
  <2>. QED BY <1>7, <2>4 DEF done, w
<1>. QED BY <1>3, <1>4, <1>5, <1>6, <1>7

\* A device of the mock has a content that its requests can be answered from.
MockInv == OnMock =>
    /\ device = [present |-> device.present, content |-> device.content]
    /\ interface = "i2c" => device.content \in MockContents

LEMMA StepsOfMock ==
    /\ MockSteps # <<>> /\ Head(MockSteps).kind = "injected"
    /\ Tail(MockSteps) # <<>> /\ Head(Tail(MockSteps)).kind = "effect"
    /\ Tail(Tail(MockSteps)) = <<>> /\ MockSteps # <<>>
<1>1. \A a, b : /\ <<a, b>> # <<>> /\ Head(<<a, b>>) = a /\ Tail(<<a, b>>) = <<b>>
                /\ <<b>> # <<>> /\ Head(<<b>>) = b /\ Tail(<<b>>) = <<>>
  OBVIOUS
<1>. DEFINE a == [kind |-> "injected"]
            b == [kind |-> "effect"]
<1>2. a.kind = "injected" /\ b.kind = "effect" /\ MockSteps = <<a, b>>
  BY DEF MockSteps
<1>. HIDE DEF a, b
<1>. QED BY <1>1, <1>2

LEMMA MockCountsFrom ==
    ASSUME Base, CountersInv, OnMock, NEW s \in Sessions, Others(s), state'[s] = "busy",
           stats'[s] = stats[s], delivered'[s] \in Nat, delivered'[s] >= delivered[s],
           call'[s].request.op # "get_configuration",
           call'[s].steps \in {MockSteps, Tail(MockSteps), <<>>},
           call'[s].steps = <<>> => Recorded(interface, stats[s], call'[s].request).written <= delivered'[s]
    PROVE  CountersInv'
<1>1. UNCHANGED <<interface, backend, access>> /\ backend = "mock"
  BY DEF Others, fixedVars, OnMock
<1>2. Counted(s) /\ ~ OnUsb
  BY <1>1 DEF CountersInv, OnUsb
<1>3. OnWay(s)'
  BY <1>1 DEF OnWay, Gains, OnI2c, OnSerial, OnUsb, OnMock
<1>4. Counted(s)'
  BY <1>1, <1>2, <1>3 DEF Counted, IsCounters, OnUsb, OnMock
<1>. QED BY <1>4, CountedFrom

LEMMA MockBeginCounts ==
    ASSUME Base, CountersInv, OnMock, NEW s \in Sessions, NEW r \in Requests[s][interface], BeginMock(s, r)
    PROVE  CountersInv'
<1>1. BeginCall(s, r, MockSteps) /\ r.op # "get_configuration"
  BY DEF BeginMock, MockSteps
<1>2. /\ Others(s) /\ state'[s] = "busy" /\ call'[s] = Calling(r, MockSteps)
      /\ UNCHANGED <<stats, delivered>>
  BY <1>1, BeginFacts
<1>3. call'[s].steps = MockSteps /\ call'[s].request = r
  BY <1>2 DEF Calling
<1>4. delivered[s] \in Nat
  BY DEF CountersInv, Counted
<1>. QED BY <1>1, <1>2, <1>3, <1>4, StepsOfMock, MockCountsFrom

LEMMA BusyMock ==
    ASSUME Base, CountersInv, OnMock, NEW s \in Sessions, state[s] = "busy"
    PROVE  /\ call[s].request \in Requests[s][interface] /\ Supported(interface, call[s].request)
           /\ call[s].request.op # "get_configuration"
           /\ IsCounters(stats[s]) /\ stats[s].written \in Nat /\ delivered[s] \in Nat
           /\ stats[s].written <= delivered[s]
           /\ call[s].steps \in {MockSteps, Tail(MockSteps), <<>>}
           /\ call[s].steps = <<>> => Gains(s) <= delivered[s]
BY DEF Base, IsCall, CountersInv, Counted, OnWay, OnMock, OnUsb

LEMMA InjectedCounts ==
    ASSUME Base, CountersInv, OnMock, NEW s \in Sessions, Injected(s)
    PROVE  CountersInv'
<1>1. state[s] = "busy" /\ call[s].steps # <<>> /\ Head(call[s].steps).kind = "injected"
  BY DEF Injected, AtStep, NextStep
<1>2. Advance(s) /\ UNCHANGED <<stats, delivered>>
  BY MockInjects
<1>3. CASE state'[s] # "busy"
  BY <1>2, <1>3, QuietCounts DEF Advance
<1>4. CASE state'[s] = "busy"
  <2>1. Continues(s, Tail(call[s].steps))
    BY <1>4, MockInjects
  <2>2. call[s].steps = MockSteps
    BY <1>1, BusyMock, StepsOfMock
  <2>3. /\ Others(s) /\ call'[s].steps = Tail(MockSteps) /\ call'[s].steps # <<>>
        /\ call'[s].request = call[s].request /\ delivered'[s] \in Nat /\ delivered'[s] >= delivered[s]
        /\ stats'[s] = stats[s]
    BY <1>1, <1>2, <2>1, <2>2, BusyMock, StepsOfMock DEF Continues
  <2>4. call[s].request.op # "get_configuration"
    BY <1>1, BusyMock
  <2>. QED BY <1>4, <2>3, <2>4, MockCountsFrom
<1>. QED BY <1>3, <1>4

LEMMA EffectCounts ==
    ASSUME Base, CountersInv, MockInv, OnMock, NEW s \in Sessions, Effect(s) \/ EffectFails(s)
    PROVE  CountersInv'
<1>. DEFINE r == call[s].request
            done == RequestOutcome(r)
            w == Recorded(interface, stats[s], r).written
<1>1. state[s] = "busy" /\ call[s].steps # <<>> /\ Head(call[s].steps).kind = "effect"
  BY DEF Effect, EffectFails, AtStep, NextStep
<1>2. /\ r \in Requests[s][interface] /\ Supported(interface, r) /\ r.op # "get_configuration"
      /\ IsCounters(stats[s]) /\ stats[s].written \in Nat /\ delivered[s] \in Nat
      /\ stats[s].written <= delivered[s]
  BY <1>1, BusyMock
<1>3. done.carried \in Nat /\ (done.ok => w <= stats[s].written + done.carried)
  <2>1. interface = "i2c" => device.content \in MockContents
    BY DEF MockInv
  <2>. QED BY <1>2, <2>1, MockCarries
<1>4. CASE Effect(s)
  <2>1. Continues(s, Tail(call[s].steps)) /\ done.ok /\ delivered'[s] = delivered[s] + done.carried
    BY <1>4, MockEffect
  <2>2. Tail(call[s].steps) = <<>>
    BY <1>1, BusyMock, StepsOfMock
  <2>3. /\ Others(s) /\ state'[s] = "busy" /\ stats'[s] = stats[s]
        /\ call'[s].steps = <<>> /\ call'[s].request = r
    BY <2>1, <2>2 DEF Continues
  <2>4. w \in Nat
    <3>1. w \in {stats[s].written, stats[s].written + Payload(r)}
      BY <1>2, RecordedFacts DEF Base
    <3>2. Payload(r) \in Nat \/ interface = "pwm"
      BY <1>2, RequestPayload
    <3>3. interface = "pwm" => w = stats[s].written
      BY UnrecordedFacts
    <3>. HIDE DEF w
    <3>. QED BY <1>2, <3>1, <3>2, <3>3
  <2>. HIDE DEF done, w
  <2>5. w <= delivered'[s] /\ delivered'[s] \in Nat /\ delivered'[s] >= delivered[s]
    BY <1>2, <1>3, <2>1, <2>4
  <2>6. Recorded(interface, stats[s], call'[s].request).written <= delivered'[s]
    BY <2>3, <2>5 DEF w
  <2>7. call'[s].request.op # "get_configuration"
    BY <1>2, <2>3
  <2>. QED BY <2>3, <2>5, <2>6, <2>7, MockCountsFrom
<1>5. CASE EffectFails(s)
  <2>1. /\ Advance(s) /\ state'[s] = "faulted" /\ stats' = stats
        /\ delivered' = delivered \/ delivered'[s] = delivered[s] + done.carried
    BY <1>5, MockFails
  <2>. HIDE DEF done
  <2>2. delivered'[s] \in Nat /\ delivered'[s] >= delivered[s]
    BY <1>2, <1>3, <2>1
  <2>3. backend' = "mock"
    BY <2>1 DEF Advance, Others, fixedVars, OnMock
  <2>4. Counted(s)'
    BY <1>2, <2>1, <2>2, <2>3 DEF Counted, IsCounters, OnMock
  <2>. QED BY <2>1, <2>4, CountedFrom DEF Advance
<1>. QED BY <1>4, <1>5

LEMMA MockCounts ==
    ASSUME Base, CountersInv, MockInv, OnMock, NEW s \in Sessions, MockStep(s)
    PROVE  CountersInv'
<1>1. CASE OpenMock(s)
  BY <1>1, LifeCounts DEF OpenMock
<1>2. CASE OpenInjected(s)
  <2>1. UNCHANGED <<interface, backend, access, state, call, stats, delivered>>
    BY <1>2 DEF OpenInjected, fixedVars, driverVars
  <2>. QED BY <2>1 DEF CountersInv, Counted, IsCounters, OnWay, Gains, Ahead, Selecting,
                        OnI2c, OnSerial, OnUsb, OnMock
<1>3. ASSUME NEW r \in Requests[s][interface], BeginMock(s, r)
      PROVE  CountersInv'
  BY <1>3, MockBeginCounts
<1>4. CASE Injected(s)
  BY <1>4, InjectedCounts
<1>5. CASE Effect(s) \/ EffectFails(s)
  BY <1>5, EffectCounts
<1>6. CASE Succeed(s, book[s])
  <2>1. state[s] = "busy" /\ call[s].steps = <<>>
    BY <1>6 DEF Succeed, Done
  <2>. QED BY <1>6, <2>1, BusyMock, SuccessOfCall
<1>7. CASE MarkClosed(s) \/ Drop(s, device)
  BY <1>7, LifeCounts
<1>. QED BY <1>1, <1>2, <1>3, <1>4, <1>5, <1>6, <1>7 DEF MockStep

LEMMA MockInvFrom ==
    ASSUME MockInv, OnMock, interface' = interface,
           \/ device' = device
           \/ \E content : /\ device' = [device EXCEPT !.content = content]
                           /\ interface = "i2c" => content \in MockContents
           \/ \E present : device' = [device EXCEPT !.present = present]
    PROVE  MockInv'
BY DEF MockInv

\* Every step of the mock keeps that,
LEMMA MockStepKeeps ==
    ASSUME Base, CountersInv, MockInv, OnMock, NEW s \in Sessions, MockStep(s)
    PROVE  MockInv'
<1>0. interface' = interface
  BY MockAdvances DEF Advance, Others, fixedVars
<1>1. CASE Effect(s) \/ EffectFails(s)
  <2>. DEFINE r == call[s].request
              done == RequestOutcome(r)
  <2>1. state[s] = "busy"
    BY <1>1 DEF Effect, EffectFails, AtStep
  <2>2. interface = "i2c" => done.content \in MockContents
    <3>1. interface = "i2c" => device.content \in MockContents
      BY DEF MockInv
    <3>2. /\ r \in Requests[s][interface] /\ Supported(interface, r) /\ r.op # "get_configuration"
          /\ IsCounters(stats[s]) /\ stats[s].written \in Nat
      BY <2>1, BusyMock
    <3>. QED BY <3>1, <3>2, MockCarries
  <2>3. Effect(s) => device' = [device EXCEPT !.content = done.content]
    BY MockEffect
  <2>4. EffectFails(s) => device' = device \/ device' = [device EXCEPT !.content = done.content]
    BY DEF EffectFails
  <2>. HIDE DEF done
  <2>. QED BY <1>0, <1>1, <2>2, <2>3, <2>4, MockInvFrom
<1>2. CASE OpenMock(s) \/ OpenInjected(s) \/ Succeed(s, book[s]) \/ MarkClosed(s) \/ Drop(s, device)
  <2>1. device' = device
    BY <1>2 DEF OpenMock, Bind, OpenInjected, Succeed, Return, MarkClosed, Drop
  <2>. QED BY <1>0, <2>1, MockInvFrom
<1>3. CASE (\E r \in Requests[s][interface] : BeginMock(s, r)) \/ Injected(s)
  <2>1. device' = device
    BY <1>3 DEF BeginMock, BeginCall, Injected
  <2>. QED BY <1>0, <2>1, MockInvFrom
<1>. QED BY <1>1, <1>2, <1>3 DEF MockStep

\* and so does a test that changes the hardware.
LEMMA TestKeeps ==
    ASSUME Base, CountersInv, MockInv, MockTest
    PROVE  CountersInv' /\ MockInv'
<1>1. UNCHANGED <<interface, backend, access, state, call, stats, delivered>> /\ OnMock
  BY DEF MockTest, QueueError, ClearFaults, RemoveDevice, AttachDevice, fixedVars, driverVars
<1>2. CountersInv'
  BY <1>1 DEF CountersInv, Counted, IsCounters, OnWay, Gains, Ahead, Selecting,
              OnI2c, OnSerial, OnUsb, OnMock
<1>3. CASE AttachDevice
  <2>1. 0 \in Registers /\ OwnAddress \in Addresses /\ MockLimit \in Nat
    BY I2cAssumption, DeviceAssumption, MockAssumption DEF Registers
  <2>. DEFINE M == [MockRegisters -> Registers]
              zero == [k \in MockRegisters |-> 0]
              m == [device.content.memory EXCEPT ![OwnAddress] = zero]
              p == [device.content.pointer EXCEPT ![OwnAddress] = 0]
  <2>2. device' = [present |-> TRUE,
                   content |-> IF interface = "i2c" THEN [memory |-> m, pointer |-> p] ELSE Content[interface]]
    BY <1>3 DEF AttachDevice
  <2>3. ASSUME interface = "i2c"
        PROVE  [memory |-> m, pointer |-> p] \in MockContents
    <3>1. device.content.memory \in [Addresses -> M] /\ device.content.pointer \in [Addresses -> 0 .. MockLimit]
      BY <1>1, <2>3 DEF MockInv, MockContents
    <3>2. zero \in M
      BY <2>1
    <3>. HIDE DEF M, zero
    <3>3. m \in [Addresses -> M] /\ p \in [Addresses -> 0 .. MockLimit]
      BY <2>1, <3>1, <3>2
    <3>. QED BY <3>3 DEF MockContents, M
  <2>. HIDE DEF m, p
  <2>. QED BY <1>1, <1>2, <2>2, <2>3 DEF MockInv
<1>4. CASE ~ AttachDevice
  <2>1. device' = device \/ device' = [device EXCEPT !.present = FALSE]
    BY <1>4 DEF MockTest, QueueError, ClearFaults, RemoveDevice
  <2>. QED BY <1>1, <1>2, <2>1, MockInvFrom
<1>. QED BY <1>3, <1>4

-----------------------------------------------------------------------------
(* Together *)

\* The inductive invariant.
StackInv == DeviceInv /\ MockInv /\ CountersInv

\* Every step keeps it,
LEMMA StackInvStep ==
    ASSUME StackInv, [Next]_deviceVars
    PROVE  StackInv'
<1>1. DeviceInv /\ DeviceInv' /\ MockInv /\ CountersInv
  BY DeviceInvStep DEF StackInv
<1>2. Base /\ I2cType /\ SerialInv /\ CdevInv /\ UsbInv
  BY <1>1 DEF DeviceInv, I2cInv
<1>3. OnI2c' = OnI2c /\ OnSerial' = OnSerial /\ OnCdev' = OnCdev /\ OnUsb' = OnUsb /\ OnMock' = OnMock
  BY <1>2, FixedTransport
<1>4. ASSUME UNCHANGED <<interface, backend, access, state, call, stats, delivered>>
      PROVE  CountersInv'
  BY <1>1, <1>4 DEF CountersInv, Counted, IsCounters, OnWay, Gains, Ahead, Selecting,
                    OnI2c, OnSerial, OnUsb, OnMock
<1>5. UNCHANGED deviceVars => UNCHANGED <<interface, backend, access, device, state, call, stats, delivered>>
  BY DEF deviceVars, fixedVars, driverVars
<1>6. LineChanges => UNCHANGED <<interface, backend, access, state, call, stats, delivered>>
  BY DEF LineChanges, fixedVars, driverVars
<1>7. CountersInv'
  <2>1. ASSUME NEW s \in Sessions, OnI2c /\ (I2cStep(s) \/ Fail(s)) PROVE CountersInv'
    BY <1>1, <1>2, <2>1, I2cCounts
  <2>2. ASSUME NEW s \in Sessions, OnSerial /\ (SerialStep(s) \/ Fail(s)) PROVE CountersInv'
    BY <1>1, <1>2, <2>2, SerialCounts
  <2>3. ASSUME NEW s \in Sessions, OnCdev /\ (CdevStep(s) \/ Fail(s)) PROVE CountersInv'
    BY <1>1, <1>2, <2>3, CdevCounts
  <2>4. ASSUME NEW s \in Sessions, OnUsb /\ (UsbStep(s) \/ Fail(s)) PROVE CountersInv'
    BY <1>1, <1>2, <2>4, UsbCounts
  <2>5. ASSUME NEW s \in Sessions, OnMock /\ MockStep(s) PROVE CountersInv'
    BY <1>1, <1>2, <2>5, MockCounts
  <2>6. ASSUME NEW s \in Sessions, Fail(s) PROVE CountersInv'
    BY <1>1, <1>2, <2>6, LifeCounts
  <2>7. MockTest => CountersInv'
    BY <1>1, <1>2, TestKeeps
  <2>. QED BY <1>4, <1>5, <1>6, <2>1, <2>2, <2>3, <2>4, <2>5, <2>6, <2>7, WhoSteps
<1>8. MockInv'
  <2>1. CASE ~ OnMock
    BY <1>3, <2>1 DEF MockInv
  <2>2. CASE OnMock
    <3>1. ASSUME NEW s \in Sessions, MockStep(s) PROVE MockInv'
      BY <1>1, <1>2, <2>2, <3>1, MockStepKeeps
    <3>2. MockTest => MockInv'
      BY <1>1, <1>2, TestKeeps
    <3>3. UNCHANGED deviceVars => MockInv'
      BY <1>1, <1>5, <2>2, MockInvFrom
    <3>. QED BY <2>2, <3>1, <3>2, <3>3, WhoSteps, Transports DEF OnMock
  <2>. QED BY <2>1, <2>2
<1>. QED BY <1>1, <1>7, <1>8 DEF StackInv

\* and it is true at the start.
LEMMA StackInvInit ==
    ASSUME Init
    PROVE  StackInv
<1>1. ByteLimit \in Nat /\ 0 \in Registers /\ MockLimit \in Nat
  BY DeviceAssumption, I2cAssumption, MockAssumption DEF Registers
<1>2. CountersInv
  <2>1. \A s \in Sessions : state[s] = "none" /\ stats[s] = Fresh /\ delivered[s] = 0
    BY DEF Init
  <2>2. IsCounters(Fresh) /\ Fresh.written = 0
    BY DEF IsCounters, Fresh
  <2>. QED BY <1>1, <2>1, <2>2 DEF CountersInv, Counted
<1>3. MockInv
  <2>1. OnMock => MockInit
    BY DEF Init, OnMock, I2cInit, SerialInit, UsbInit
  <2>2. MockInit => device = [present |-> TRUE, content |-> Content[interface]]
    BY DEF MockInit
  <2>3. Content["i2c"] \in MockContents
    <3>1. Content["i2c"] = I2cContent
      BY DEF Content
    <3>2. I2cContent \in MockContents
      BY <1>1 DEF I2cContent, MockContents
    <3>. QED BY <3>1, <3>2
  <2>. QED BY <2>1, <2>2, <2>3 DEF MockInv
<1>. QED BY <1>2, <1>3, DeviceInvInit DEF StackInv

\* The invariant of the whole stack: what its sessions know of their devices, and
\* what their drivers have counted.
THEOREM StackInvariant == Spec => []StackInv
<1>1. Init => StackInv
  BY StackInvInit
<1>2. StackInv /\ [Next]_deviceVars => StackInv'
  BY StackInvStep
<1>. QED BY <1>1, <1>2, PTL DEF Spec

\* A driver counts a byte as written only when the device has it, and reports an
\* interface as claimed only while it is (crates/lemnos-drivers-*, the counters
\* that a call records after it succeeded).
THEOREM CountersEarned == Spec => []CountersAreEarned
<1>1. StackInv => CountersAreEarned
  <2>. SUFFICES ASSUME StackInv, NEW s \in Sessions
                PROVE  /\ interface # "usb" \/ OnMock => stats[s].written <= delivered[s]
                       /\ OnUsb /\ state[s] \in {"idle", "faulted"} =>
                            \A n \in Numbers \ unsure[s] : n \in Reported(s).claimed <=> n \in Claimed(s)
    BY DEF CountersAreEarned
  <2>1. interface # "usb" \/ OnMock => stats[s].written <= delivered[s]
    <3>1. interface # "usb" \/ OnMock => ~ OnUsb
      BY DEF OnUsb, OnMock
    <3>. QED BY <3>1 DEF StackInv, CountersInv, Counted
  <2>2. ASSUME OnUsb, state[s] \in {"idle", "faulted"}
        PROVE  \A n \in Numbers \ unsure[s] : n \in Reported(s).claimed <=> n \in Claimed(s)
    <3>1. UsbSession(s)
      BY <2>2 DEF StackInv, DeviceInv, UsbInv
    <3>2. InFlight(s) = {}
      BY <2>2 DEF InFlight
    <3>3. Reported(s).claimed = stats[s].claimed
      BY <2>2 DEF Reported, StateOf, UsbState, OnUsb
    <3>. QED BY <2>2, <3>1, <3>2, <3>3 DEF UsbSession
  <2>. QED BY <2>1, <2>2
<1>. QED BY <1>1, StackInvariant, PTL

\* What a session that may not write does with an i2c device: it reads from
\* where the pointer of the device is, and writes no byte.
ReadSteps == {Refusal} \cup {Transfer(<<>>, read, 0) : read \in Nat}

\* The requests of a usb device that write nothing.
Asking == {"control_in", "bulk_read", "interrupt_read"}

\* A call that only reads.
ReadsOnly(s) ==
    /\ OnI2c => Ahead(call[s]) \in Seq(ReadSteps)
    /\ OnSerial => call[s].steps \in {<<[kind |-> "ask"]>>, <<>>}
    /\ OnUsb => call[s].request.op \in Asking

\* A session that may not write is in the middle of a call that only reads.
WritersInv == \A s \in Sessions : state[s] = "busy" /\ ~ CanWrite(s) => ReadsOnly(s)

LEMMA KernelReads ==
    ASSUME NEW adapter, NEW read \in Nat
    PROVE  KernelRead(adapter, read) \in Seq(ReadSteps)
<1>1. Transfer(<<>>, read, 0) \in ReadSteps /\ Refusal \in ReadSteps
  BY DEF ReadSteps
<1>. QED BY <1>1 DEF KernelRead

LEMMA TransactionReads ==
    ASSUME NEW adapter, NEW messages \in I2cMessages, \A k \in DOMAIN messages : messages[k].read > 0
    PROVE  KernelTransaction(adapter, messages) \in Seq(ReadSteps)
<1>. DEFINE pieces == [k \in DOMAIN messages |->
                            IF messages[k].read > 0 THEN KernelRead(adapter, messages[k].read)
                            ELSE KernelWrite(adapter, messages[k].write)]
<1>. DEFINE R == [write : Seq(Registers), read : Nat]
            T == Seq(ReadSteps)
            n == Len(messages)
<1>1. messages \in Seq(R)
  BY DEF I2cMessages
<1>. HIDE DEF R
<1>a. n \in Nat /\ DOMAIN messages = 1 .. n /\ \A k \in 1 .. n : messages[k] \in R
  BY <1>1
<1>2. \A k \in DOMAIN messages : pieces[k] \in Seq(ReadSteps)
  <2>. SUFFICES ASSUME NEW k \in DOMAIN messages PROVE pieces[k] \in Seq(ReadSteps)
    OBVIOUS
  <2>1. messages[k].read \in Nat /\ messages[k].read > 0
    BY <1>a DEF R
  <2>2. pieces[k] = KernelRead(adapter, messages[k].read)
    BY <2>1
  <2>. QED BY <2>1, <2>2, KernelReads
<1>3. pieces \in [1 .. n -> T]
  BY <1>a, <1>2
<1>4. KernelTransaction(adapter, messages) = FlattenSeq(pieces)
  BY DEF KernelTransaction
<1>. HIDE DEF pieces, T, n
<1>5. pieces \in Seq(T) /\ Len(pieces) \in Nat
  BY <1>a, <1>3
<1>6. PICK W : IsFlat(W, ReadSteps, pieces)
  BY <1>5, FlatFacts DEF T
<1>. QED BY <1>4, <1>5, <1>6 DEF IsFlat, T

LEMMA AskedReads ==
    ASSUME NEW adapter, NEW r, IsI2cRequest(r), ValidI2c(r),
           r.op = "read" \/ (r.op = "transaction" /\ \A k \in DOMAIN r.messages : r.messages[k].read > 0)
    PROVE  RequestSteps(adapter, r) \in Seq(ReadSteps)
<1>1. r.messages \in I2cMessages /\ (r.op # "transaction" => IsMessage(r.messages[1]))
  BY RequestFacts
<1>2. CASE r.op = "read"
  <2>1. r.messages[1].read \in Nat
    BY <1>1, <1>2 DEF IsMessage
  <2>2. RequestSteps(adapter, r) = KernelRead(adapter, r.messages[1].read)
    BY <1>2 DEF RequestSteps
  <2>. QED BY <2>1, <2>2, KernelReads
<1>3. CASE r.op = "transaction" /\ \A k \in DOMAIN r.messages : r.messages[k].read > 0
  <2>1. RequestSteps(adapter, r) = KernelTransaction(adapter, r.messages)
    BY <1>3 DEF RequestSteps
  <2>. QED BY <1>1, <1>3, <2>1, TransactionReads
<1>. QED BY <1>2, <1>3

\* It is enough to look at the session that makes the step.
LEMMA WritersFrom ==
    ASSUME Base, WritersInv, NEW s \in Sessions, Others(s),
           state'[s] = "busy" /\ ~ CanWrite(s) => ReadsOnly(s)'
    PROVE  WritersInv'
<1>1. UNCHANGED <<interface, backend, access>>
  BY DEF Others, fixedVars
<1>2. OnI2c' = OnI2c /\ OnSerial' = OnSerial /\ OnUsb' = OnUsb /\ (\A t \in Sessions : CanWrite(t)' = CanWrite(t))
  BY <1>1 DEF OnI2c, OnSerial, OnUsb, CanWrite
<1>3. ASSUME NEW t \in Sessions \ {s}, state'[t] = "busy", ~ CanWrite(t)
      PROVE  ReadsOnly(t)'
  <2>1. state[t] = "busy" /\ SameCall(call[t], call'[t])
    BY <1>3 DEF Others
  <2>2. IsCall(t, call[t]) /\ ReadsOnly(t)
    BY <1>3, <2>1 DEF Base, WritersInv
  <2>3. call'[t].steps = call[t].steps /\ call'[t].request = call[t].request
    BY <2>1, <2>2, SameCallFacts
  <2>. QED BY <1>2, <2>2, <2>3 DEF ReadsOnly, Ahead, Selecting
<1>. QED BY <1>2, <1>3 DEF WritersInv

LEMMA I2cWriters ==
    ASSUME Base, I2cType, WritersInv, OnI2c, NEW s \in Sessions, I2cStep(s) \/ Fail(s),
           state'[s] = "busy", ~ CanWrite(s)
    PROVE  Ahead(call'[s]) \in Seq(ReadSteps)
<1>1. ASSUME NEW r \in Requests[s].i2c, BeginDeviceCall(s, r) \/ BeginControllerCall(s, r)
      PROVE  Ahead(call'[s]) \in Seq(ReadSteps)
  <2>1. Ahead(call'[s]) = RequestSteps(device.adapter, r) /\ MayTransfer(s, r) /\ IsI2cRequest(r) /\ ValidI2c(r)
    BY <1>1, I2cBegins
  <2>2. r.op = "read" \/ (r.op = "transaction" /\ \A k \in DOMAIN r.messages : r.messages[k].read > 0)
    BY <2>1 DEF MayTransfer
  <2>3. RequestSteps(device.adapter, r) \in Seq(ReadSteps)
    BY <2>1, <2>2, AskedReads
  <2>. QED BY <2>1, <2>3
<1>2. ASSUME state[s] = "busy"
      PROVE  Ahead(call[s]) \in Seq(ReadSteps)
  BY <1>2 DEF WritersInv, ReadsOnly
<1>3. CASE SelectAddress(s)
  <2>1. state[s] = "busy" /\ Ahead(call'[s]) = Ahead(call[s])
    BY <1>3, I2cSelects DEF I2cGoesOn
  <2>. QED BY <1>2, <2>1
<1>4. CASE MakeTransfer(s)
  <2>1. state[s] = "busy" /\ Ahead(call[s]) # <<>> /\ Ahead(call'[s]) = Tail(Ahead(call[s]))
    BY <1>4, I2cTransfers DEF I2cGoesOn
  <2>. QED BY <1>2, <2>1
<1>5. CASE BlockGivesWay(s)
  <2>1. state[s] = "busy" /\ Ahead(call[s]) # <<>> /\ Head(Ahead(call[s])).kind = "block"
    BY <1>5, I2cBlockGivesWay DEF I2cGoesOn
  <2>2. Head(Ahead(call[s])) \in ReadSteps
    BY <1>2, <2>1
  <2>3. \A step \in ReadSteps : step.kind # "block"
    BY DEF ReadSteps, Refusal, Transfer
  <2>. QED BY <2>1, <2>2, <2>3
<1>6. CASE \/ BindDevice(s) \/ BindController(s)
           \/ Succeed(s, book[s]) /\ unsure' = unsure
           \/ MarkClosed(s) \/ Drop(s, [device EXCEPT !.selected[s] = NoBook]) \/ Fail(s)
  BY <1>6, I2cRests
<1>. QED BY <1>1, <1>3, <1>4, <1>5, <1>6 DEF I2cStep

LEMMA SerialWriters ==
    ASSUME Base, WritersInv, OnSerial, NEW s \in Sessions, SerialStep(s) \/ Fail(s),
           state'[s] = "busy", ~ CanWrite(s)
    PROVE  call'[s].steps \in {<<[kind |-> "ask"]>>, <<>>}
<1>0. state \in [Sessions -> SessionStates]
  BY DEF Base
<1>1. ASSUME NEW r \in Requests[s].spi, BeginSpi(s, r)
      PROVE  FALSE
  BY <1>1 DEF BeginSpi
<1>2. ASSUME NEW r \in Requests[s].uart, BeginUart(s, r)
      PROVE  call'[s].steps = <<[kind |-> "ask"]>>
  <2>1. r.op = "read" /\ BeginCall(s, r, UartSteps(r)) /\ interface = "uart"
    BY <1>2 DEF BeginUart, OnUart
  <2>2. call'[s] = Calling(r, UartSteps(r))
    BY <1>2, <2>1, BeginFacts
  <2>3. call'[s].steps = UartSteps(r)
    BY <2>2 DEF Calling
  <2>. QED BY <2>1, <2>3 DEF UartSteps
<1>3. ASSUME state[s] = "busy", call[s].steps # <<>>, Continues(s, Tail(call[s].steps))
      PROVE  call'[s].steps = <<>>
  <2>1. call[s].steps = <<[kind |-> "ask"]>>
    BY <1>3 DEF WritersInv, ReadsOnly
  <2>. QED BY <1>3, <2>1, OneStep DEF Continues
<1>4. CASE SetStep(s) \/ Send(s)
  <2>1. state[s] = "busy" /\ call[s].steps # <<>>
    BY <1>4 DEF SetStep, Send, AtStep
  <2>2. Continues(s, Tail(call[s].steps))
    BY <1>4, SerialSets, SerialSends
  <2>. QED BY <1>3, <2>1, <2>2
<1>5. CASE AskPort(s)
  <2>1. state[s] = "busy" /\ call[s].steps # <<>> /\ Pass(s)
    BY <1>5 DEF AskPort, AtStep
  <2>2. Continues(s, Tail(call[s].steps))
    BY <2>1, PassContinues
  <2>. QED BY <1>3, <2>1, <2>2
<1>6. CASE BindSpi(s) \/ BindUart(s)
  BY <1>0, <1>6 DEF BindSpi, BindUart, Bind
<1>7. CASE OpenFails(s)
  BY <1>7 DEF OpenFails, OpenPort
<1>8. CASE FinishSerial(s) \/ MarkClosed(s) \/ Drop(s, Released(s)) \/ Fail(s)
  BY <1>0, <1>8 DEF FinishSerial, Succeed, Return, MarkClosed, Drop, Fail
<1>9. CASE OpenSpi(s) \/ OpenSpiFails(s)
  BY <1>9, SerialOpening
<1>10. ~ GetStep(s)
  <2>. SUFFICES ASSUME GetStep(s) PROVE FALSE
    OBVIOUS
  <2>1. call[s].steps # <<>> /\ Head(call[s].steps).kind = "get" /\ state[s] = "busy"
    BY SerialGets DEF NextStep
  <2>2. call[s].steps = <<[kind |-> "ask"]>>
    BY <2>1 DEF WritersInv, ReadsOnly
  <2>. QED BY <2>1, <2>2
<1>. QED BY <1>1, <1>2, <1>4, <1>5, <1>6, <1>7, <1>8, <1>9, <1>10 DEF SerialStep, SpiStep, UartStep

LEMMA UsbWriters ==
    ASSUME Base, WritersInv, OnUsb, NEW s \in Sessions, UsbStep(s) \/ Fail(s),
           state'[s] = "busy", ~ CanWrite(s)
    PROVE  call'[s].request.op \in Asking
<1>0. state \in [Sessions -> SessionStates]
  BY DEF Base
<1>1. ASSUME NEW r \in Requests[s].usb, BeginUsb(s, r)
      PROVE  call'[s].request.op \in Asking
  <2>1. r.op \in Asking /\ BeginCall(s, r, UsbSteps(r)) /\ interface = "usb"
    BY <1>1 DEF BeginUsb, MayAsk, Asking, OnUsb
  <2>2. call'[s] = Calling(r, UsbSteps(r))
    BY <1>1, <2>1, BeginFacts
  <2>. QED BY <2>1, <2>2 DEF Calling
<1>2. ASSUME state[s] = "busy", call'[s].request = call[s].request
      PROVE  call'[s].request.op \in Asking
  BY <1>2 DEF WritersInv, ReadsOnly
<1>3. CASE TakeClaim(s) \/ SetAlternate(s) \/ GiveBack(s) \/ Exchange(s)
  <2>1. Continues(s, Tail(call[s].steps))
    BY <1>3, UsbClaims, UsbAlternates, UsbGivesBack, UsbExchanges
  <2>. QED BY <1>2, <2>1, ContinuesFacts
<1>4. CASE AlternateFails(s)
  BY <1>2, <1>4, UsbTakesBack
<1>5. CASE BindUsb(s)
  BY <1>0, <1>5 DEF BindUsb, Bind
<1>6. CASE FinishUsb(s) \/ CloseUsb(s) \/ Drop(s, Give(Claimed(s), NoHolder)) \/ Fail(s)
  BY <1>0, <1>6 DEF FinishUsb, Succeed, Return, CloseUsb, Drop, Fail
<1>7. CASE CloseFails(s)
  BY <1>7 DEF CloseFails
<1>. QED BY <1>1, <1>3, <1>4, <1>5, <1>6, <1>7 DEF UsbStep

\* Every step keeps that.
LEMMA WritersStep ==
    ASSUME Base, I2cType, WritersInv, [Next]_deviceVars
    PROVE  WritersInv'
<1>1. ASSUME NEW s \in Sessions, SessionStep(s), Advance(s)
      PROVE  WritersInv'
  <2>1. Others(s) /\ UNCHANGED fixedVars
    BY <1>1 DEF Advance, Others
  <2>2. OnI2c' = OnI2c /\ OnSerial' = OnSerial /\ OnUsb' = OnUsb
    BY <2>1 DEF OnI2c, OnSerial, OnUsb, fixedVars
  <2>3. ASSUME state'[s] = "busy", ~ CanWrite(s)
        PROVE  ReadsOnly(s)'
    <3>1. ASSUME OnI2c
          PROVE  Ahead(call'[s]) \in Seq(ReadSteps)
      <4>1. I2cStep(s) \/ Fail(s)
        BY <1>1, <3>1, SerialOnly, CdevOnly, UsbOnly, MockOnly, Transports DEF SessionStep, LinuxFails
      <4>. QED BY <2>3, <3>1, <4>1, I2cWriters
    <3>2. ASSUME OnSerial
          PROVE  call'[s].steps \in {<<[kind |-> "ask"]>>, <<>>}
      <4>1. SerialStep(s) \/ Fail(s)
        BY <1>1, <3>2, I2cOnly, CdevOnly, UsbOnly, MockOnly, Transports DEF SessionStep, LinuxFails
      <4>. QED BY <2>3, <3>2, <4>1, SerialWriters
    <3>3. ASSUME OnUsb
          PROVE  call'[s].request.op \in Asking
      <4>1. UsbStep(s) \/ Fail(s)
        BY <1>1, <3>3, I2cOnly, SerialOnly, CdevOnly, MockOnly, Transports DEF SessionStep, LinuxFails
      <4>. QED BY <2>3, <3>3, <4>1, UsbWriters
    <3>4. Ahead(call[s])' = Ahead(call'[s])
      BY DEF Ahead, Selecting
    <3>. QED BY <2>2, <3>1, <3>2, <3>3, <3>4 DEF ReadsOnly
  <2>. QED BY <2>1, <2>3, WritersFrom
<1>2. ASSUME UNCHANGED <<fixedVars, state, book, call, stats, delivered, unsure>>
      PROVE  WritersInv'
  BY <1>2 DEF WritersInv, ReadsOnly, Ahead, Selecting, CanWrite, OnI2c, OnSerial, OnUsb, fixedVars
<1>. QED BY <1>1, <1>2, StepAdvances

-----------------------------------------------------------------------------
(* The sessions of the kernel transports are sessions of lemnos-bus *)

\* The states and the hardware that lemnos-bus sees.
StackState == IF OnMock THEN [s \in Sessions |-> "none"] ELSE state

\* The hardware that lemnos-bus may see.
StackHardwares ==
    [memory : [Addresses -> Memories], settings : SUBSET (StackFields \X Values),
     delivered : [Sessions -> 0 .. ByteLimit]]

\* The setting that anybody changes: the direction of a line.
Hidden == {"output"}

\* What it sees is of that kind,
LEMMA HardwareType == StackInv => StackHardware \in StackHardwares
<1>. SUFFICES ASSUME StackInv PROVE StackHardware \in StackHardwares
  OBVIOUS
<1>1. [a \in Addresses |-> [i \in Registers |-> 0]] \in [Addresses -> Memories]
  BY I2cAssumption DEF Memories, Registers
<1>2. OnI2c => device.memory \in [Addresses -> Memories]
  BY DeviceFacts DEF StackInv, DeviceInv, I2cInv, I2cType
<1>3. OnSerial \/ OnCdev => device.settings \in Settings /\ FieldNames \subseteq StackFields
  <2>1. ASSUME OnSerial \/ OnCdev
        PROVE  device.settings \in Settings
    BY <2>1, SerialDevice, CdevDevice DEF StackInv, DeviceInv
  <2>2. ASSUME OnSerial \/ OnCdev
        PROVE  FieldNames \subseteq StackFields
    <3>1. interface \in {"spi", "uart", "gpio"}
      BY <2>2 DEF OnSerial, OnCdev
    <3>. QED BY <3>1 DEF FieldNames, StackFields
  <2>. QED BY <2>1, <2>2
<1>4. OnSerial \/ OnCdev =>
          {<<f, device.settings[f]>> : f \in DOMAIN device.settings \ Hidden} \in SUBSET (StackFields \X Values)
  <2>. SUFFICES ASSUME OnSerial \/ OnCdev, NEW f \in DOMAIN device.settings
                PROVE  <<f, device.settings[f]>> \in StackFields \X Values
    OBVIOUS
  <2>1. f \in FieldNames /\ device.settings[f] \in Values /\ f \in StackFields
    BY <1>3 DEF Settings
  <2>. QED BY <2>1
<1>5. ~ OnMock => delivered \in [Sessions -> 0 .. ByteLimit]
  <2>. SUFFICES ASSUME ~ OnMock PROVE delivered \in [Sessions -> 0 .. ByteLimit]
    OBVIOUS
  <2>1. delivered = [s \in Sessions |-> delivered[s]]
    BY DEF StackInv, DeviceInv, I2cInv, Base, OfSessions
  <2>2. ASSUME NEW s \in Sessions
        PROVE  delivered[s] \in 0 .. ByteLimit
    <3>1. delivered[s] \in Nat /\ delivered[s] <= ByteLimit
      BY DEF StackInv, CountersInv, Counted
    <3>. QED BY <3>1, DeviceAssumption
  <2>3. [s \in Sessions |-> delivered[s]] \in [Sessions -> 0 .. ByteLimit]
    BY <2>2
  <2>. QED BY <2>1, <2>3
<1>6. [s \in Sessions |-> 0] \in [Sessions -> 0 .. ByteLimit]
  BY DeviceAssumption
<1>. DEFINE memory == IF OnI2c THEN device.memory ELSE [a \in Addresses |-> [i \in Registers |-> 0]]
            settings == IF OnSerial \/ OnCdev
                        THEN {<<f, device.settings[f]>> : f \in DOMAIN device.settings \ Hidden} ELSE {}
            sent == IF OnMock THEN [s \in Sessions |-> 0] ELSE delivered
<1>7. memory \in [Addresses -> Memories] /\ settings \in SUBSET (StackFields \X Values)
      /\ sent \in [Sessions -> 0 .. ByteLimit]
  BY <1>1, <1>2, <1>4, <1>5, <1>6
<1>8. StackHardware = [memory |-> memory, settings |-> settings, delivered |-> sent]
  BY DEF StackHardware, Hidden
<1>. HIDE DEF memory, settings, sent
<1>. QED BY <1>7, <1>8 DEF StackHardwares

\* and so is what it sees next.
LEMMA NextHardwareType == StackInv' => (StackHardware \in StackHardwares)'
BY HardwareType, PTL

\* What leaves the memories, the settings and the bytes that arrived alone.
LEMMA HardwareStays ==
    ASSUME UNCHANGED fixedVars,
           ~ OnMock => delivered' = delivered,
           OnI2c => device'.memory = device.memory,
           OnSerial \/ OnCdev =>
               /\ DOMAIN device'.settings = DOMAIN device.settings
               /\ \A f \in DOMAIN device.settings \ Hidden : device'.settings[f] = device.settings[f]
    PROVE  StackHardware' = StackHardware /\ UNCHANGED access
<1>1. UNCHANGED <<interface, backend, access>>
  BY DEF fixedVars
<1>2. /\ OnI2c' = OnI2c /\ OnSerial' = OnSerial /\ OnCdev' = OnCdev /\ OnMock' = OnMock
  BY <1>1 DEF OnI2c, OnSerial, OnCdev, OnMock
<1>3. OnSerial \/ OnCdev =>
          {<<f, device'.settings[f]>> : f \in DOMAIN device'.settings \ Hidden} =
          {<<f, device.settings[f]>> : f \in DOMAIN device.settings \ Hidden}
  OBVIOUS
<1>. DEFINE memory == IF OnI2c THEN device.memory ELSE [a \in Addresses |-> [i \in Registers |-> 0]]
            settings == IF OnSerial \/ OnCdev
                        THEN {<<f, device.settings[f]>> : f \in DOMAIN device.settings \ Hidden} ELSE {}
            sent == IF OnMock THEN [s \in Sessions |-> 0] ELSE delivered
<1>4. memory' = memory
  BY <1>2
<1>5. settings' = settings
  BY <1>2, <1>3
<1>6. sent' = sent
  BY <1>2
<1>7. StackHardware = [memory |-> memory, settings |-> settings, delivered |-> sent]
      /\ StackHardware' = [memory |-> memory', settings |-> settings', delivered |-> sent']
  BY DEF StackHardware, Hidden
<1>. HIDE DEF memory, settings, sent
<1>. QED BY <1>1, <1>4, <1>5, <1>6, <1>7

\* What lemnos-bus sees of a step of a session: a step of its own, or nothing.
BusStepOf(s) ==
    \/ Bus!Open(s) \/ Bus!OpenFails(s) \/ Bus!BeginCall(s) \/ Bus!Touch(s)
    \/ Bus!FinishCall(s) \/ Bus!Close(s) \/ Bus!Drop(s)

BusSeesNothing == UNCHANGED <<StackState, access, StackHardware>>

LEMMA SeenState ==
    ASSUME UNCHANGED fixedVars, ~ OnMock
    PROVE  StackState = state /\ StackState' = state' /\ UNCHANGED access
BY DEF StackState, OnMock, fixedVars

LEMMA OpenIsSeen ==
    ASSUME Base, StackHardware' \in StackHardwares, ~ OnMock, NEW s \in Sessions, NEW d, NEW b, Bind(s, d, b)
    PROVE  Bus!Open(s)
<1>1. UNCHANGED fixedVars /\ state[s] = "none" /\ state' = [state EXCEPT ![s] = "idle"]
  BY DEF Bind
<1>2. StackState = state /\ StackState' = state' /\ access' = access
  BY <1>1, SeenState
<1>3. access[s] \in SessionAccess /\ access = [access EXCEPT ![s] = access[s]]
  BY DEF Base
<1>4. \E a \in SessionAccess : access' = [access EXCEPT ![s] = a]
  BY <1>2, <1>3
<1>. QED BY <1>1, <1>2, <1>4 DEF Bus!Open, Bus!SessionAccess, SessionAccess, StackState, StackHardwares, Memories

LEMMA TouchIsSeen ==
    ASSUME StackHardware' \in StackHardwares, ~ OnMock, NEW s \in Sessions, CanWrite(s),
           state[s] = "busy", UNCHANGED <<fixedVars, state>>
    PROVE  Bus!Touch(s)
<1>1. StackState = state /\ StackState' = state' /\ access' = access
  BY SeenState
<1>. QED BY <1>1 DEF Bus!Touch, Bus!CanWrite, CanWrite, StackState, StackHardwares, Memories

\* A call begins or ends, or a session is closed or dropped.
LEMMA LifeIsSeen ==
    ASSUME Base, StackHardware' = StackHardware, ~ OnMock, NEW s \in Sessions,
           \/ \E r, steps : BeginCall(s, r, steps)
           \/ \E b : Succeed(s, b)
           \/ Fail(s) \/ MarkClosed(s)
           \/ \E d : Drop(s, d)
    PROVE  BusStepOf(s) \/ BusSeesNothing
<1>1. UNCHANGED fixedVars /\ state \in [Sessions -> SessionStates]
  BY DEF BeginCall, Succeed, Fail, Return, MarkClosed, Drop, Base
<1>2. StackState = state /\ StackState' = state' /\ access' = access
  BY <1>1, SeenState
<1>3. CASE \E r, steps : BeginCall(s, r, steps)
  <2>1. state[s] \in {"idle", "faulted"} /\ state' = [state EXCEPT ![s] = "busy"]
    BY <1>3 DEF BeginCall, EnsureOpen, OnMock
  <2>2. Bus!BeginCall(s)
    BY <1>2, <2>1 DEF Bus!BeginCall, Bus!Callable, StackState
  <2>. QED BY <2>2 DEF BusStepOf
<1>4. CASE (\E b : Succeed(s, b)) \/ Fail(s)
  <2>1. state[s] = "busy" /\ \E outcome \in {"idle", "faulted"} : state' = [state EXCEPT ![s] = outcome]
    BY <1>4 DEF Succeed, Done, Fail, Return
  <2>2. Bus!FinishCall(s)
    BY <1>2, <2>1 DEF Bus!FinishCall, StackState
  <2>. QED BY <2>2 DEF BusStepOf
<1>5. CASE MarkClosed(s)
  <2>1. state[s] \in {"idle", "faulted", "closed"} /\ state' = [state EXCEPT ![s] = "closed"]
    BY <1>5 DEF MarkClosed
  <2>2. CASE state[s] = "closed"
    <3>1. state' = state
      BY <1>1, <2>1, <2>2
    <3>. QED BY <1>2, <3>1 DEF BusSeesNothing
  <2>3. CASE state[s] \in {"idle", "faulted"}
    <3>1. Bus!Close(s)
      BY <1>2, <2>1, <2>3 DEF Bus!Close, Bus!Callable, StackState
    <3>. QED BY <3>1 DEF BusStepOf
  <2>. QED BY <2>1, <2>2, <2>3
<1>6. CASE \E d : Drop(s, d)
  <2>1. state[s] \in {"idle", "faulted", "closed"} /\ state' = [state EXCEPT ![s] = "none"]
    BY <1>6 DEF Drop
  <2>2. Bus!Drop(s)
    BY <1>2, <2>1 DEF Bus!Drop, StackState
  <2>. QED BY <2>2 DEF BusStepOf
<1>. QED BY <1>3, <1>4, <1>5, <1>6

LEMMA InsideIsSeen ==
    ASSUME UNCHANGED <<fixedVars, state>>, StackHardware' = StackHardware
    PROVE  BusSeesNothing
BY DEF BusSeesNothing, StackState, OnMock, fixedVars

LEMMA DeliveredStays ==
    ASSUME Base, NEW s \in Sessions, Others(s), OfSessions(delivered)', delivered'[s] = delivered[s]
    PROVE  delivered' = delivered
<1>1. delivered = [t \in Sessions |-> delivered[t]] /\ delivered' = [t \in Sessions |-> delivered'[t]]
  BY DEF Base, OfSessions
<1>2. \A t \in Sessions : delivered'[t] = delivered[t]
  BY DEF Others
<1>. QED BY <1>1, <1>2

\* What does nothing to the device and to the bytes that reached it.
LEMMA NothingReached ==
    ASSUME UNCHANGED <<fixedVars, device, delivered>>
    PROVE  StackHardware' = StackHardware
BY HardwareStays

LEMMA HarmlessTransfer ==
    ASSUME StackInv, OnI2c, NEW s \in Sessions, MakeTransfer(s), Head(Ahead(call[s])) \in ReadSteps
    PROVE  device'.memory = device.memory /\ delivered' = delivered
<1>. DEFINE step == Head(Ahead(call[s]))
            x == Now(call[s], device)
            a == call[s].request.address
<1>0. Base /\ I2cType
  BY DEF StackInv, DeviceInv, I2cInv
<1>1. /\ Plays(step) /\ I2cGoesOn(s, Tail(Ahead(call[s])))
      /\ Now(call'[s], device') = Did(x, step)
      /\ delivered'[s] = delivered[s] + step.carries
      /\ \A b \in Addresses \ {a} : device'.memory[b] = device.memory[b]
  BY <1>0, I2cTransfers
<1>2. step.write = <<>> /\ step.carries = 0 /\ step.read \in Nat
  <2>1. \A q \in ReadSteps : Plays(q) => q.write = <<>> /\ q.carries = 0 /\ q.read \in Nat
    BY DEF ReadSteps, Refusal, Transfer, Plays
  <2>. QED BY <1>1, <2>1
<1>3. /\ Others(s) /\ Shaped /\ device' \in I2cDevices /\ call'[s].request = call[s].request /\ state[s] = "busy"
  BY <1>1 DEF I2cGoesOn
<1>4. /\ I2cCall(call[s], device.selected[s]) /\ device \in I2cDevices /\ a \in Addresses
  BY <1>0, <1>3, BusyCall
<1>5. x \in Results
  BY <1>4, NowType DEF I2cCall
<1>6. x.memory = device.memory[a] /\ Did(x, step).memory = device'.memory[a]
  BY <1>1, <1>3 DEF Now
<1>. HIDE DEF step, x
<1>7. RegisterCount \in Nat \ {0} /\ IsMessage(step)
  BY <1>2, I2cAssumption DEF IsMessage
<1>8. Did(x, step).memory = Stored(x.memory, Start(x, step), Remainder(step)) /\ Start(x, step) \in Registers
  BY <1>5, <1>7, DidFacts
<1>9. x.memory \in Memories /\ Start(x, step) \in Nat /\ Remainder(step) = <<>>
  BY <1>2, <1>5, <1>8, I2cAssumption DEF Results, Remainder, Registers
<1>10. device'.memory[a] = device.memory[a]
  BY <1>6, <1>7, <1>8, <1>9, StoredNothing
<1>11. device'.memory \in [Addresses -> Memories] /\ device.memory \in [Addresses -> Memories]
  BY <1>3, <1>4, DeviceFacts
<1>12. device'.memory = device.memory
  BY <1>1, <1>10, <1>11
<1>13. delivered[s] \in Nat
  BY DEF StackInv, CountersInv, Counted
<1>14. delivered' = delivered
  BY <1>0, <1>1, <1>2, <1>3, <1>13, DeliveredStays DEF Shaped
<1>. QED BY <1>12, <1>14

\* What it sees of a step of an i2c session is a step of a session of its own,
LEMMA I2cIsSeen ==
    ASSUME StackInv, WritersInv, StackHardware' \in StackHardwares, OnI2c, NEW s \in Sessions,
           I2cStep(s) \/ Fail(s)
    PROVE  BusStepOf(s) \/ BusSeesNothing
<1>0. Base /\ I2cType /\ ~ OnMock /\ ~ OnSerial /\ ~ OnCdev /\ device \in I2cDevices
  BY Transports DEF StackInv, DeviceInv, I2cInv, I2cType
<1>1. CASE BindDevice(s) \/ BindController(s)
  <2>1. \E d, b : Bind(s, d, b)
    BY <1>1 DEF BindDevice, BindController
  <2>. QED BY <1>0, <2>1, OpenIsSeen DEF BusStepOf
<1>2. CASE \/ \E r \in Requests[s].i2c : BeginDeviceCall(s, r) \/ BeginControllerCall(s, r)
           \/ Succeed(s, book[s]) \/ MarkClosed(s) \/ Fail(s)
  <2>1. (\E r, steps : BeginCall(s, r, steps)) \/ (\E b : Succeed(s, b)) \/ MarkClosed(s) \/ Fail(s)
    BY <1>2 DEF BeginDeviceCall, BeginControllerCall
  <2>2. UNCHANGED <<fixedVars, device, delivered>>
    BY <2>1 DEF BeginCall, Succeed, Return, MarkClosed, Fail, driverVars
  <2>. QED BY <1>0, <2>1, <2>2, NothingReached, LifeIsSeen
<1>3. CASE Drop(s, [device EXCEPT !.selected[s] = NoBook])
  <2>1. /\ device' = [device EXCEPT !.selected[s] = NoBook] /\ UNCHANGED <<fixedVars, delivered>>
    BY <1>3 DEF Drop
  <2>2. device'.memory = device.memory
    BY <1>0, <2>1, SelectedFacts
  <2>3. StackHardware' = StackHardware
    BY <1>0, <2>1, <2>2, HardwareStays
  <2>. QED BY <1>0, <1>3, <2>3, LifeIsSeen
<1>4. CASE SelectAddress(s)
  <2>1. Others(s) /\ state' = state /\ device'.memory = device.memory /\ delivered' = delivered
    BY <1>0, <1>4, I2cSelects DEF I2cGoesOn
  <2>2. UNCHANGED fixedVars
    BY <2>1 DEF Others
  <2>. QED BY <1>0, <2>1, <2>2, HardwareStays, InsideIsSeen
<1>5. CASE MakeTransfer(s)
  <2>1. /\ Ahead(call[s]) # <<>> /\ Others(s) /\ state' = state /\ state[s] = "busy"
    BY <1>0, <1>5, I2cTransfers DEF I2cGoesOn
  <2>2. UNCHANGED fixedVars
    BY <2>1 DEF Others
  <2>3. CASE CanWrite(s)
    BY <1>0, <2>1, <2>2, <2>3, TouchIsSeen DEF BusStepOf
  <2>4. CASE ~ CanWrite(s)
    <3>1. Ahead(call[s]) \in Seq(ReadSteps)
      BY <2>1, <2>4 DEF WritersInv, ReadsOnly
    <3>2. Head(Ahead(call[s])) \in ReadSteps
      BY <2>1, <3>1
    <3>3. device'.memory = device.memory /\ delivered' = delivered
      BY <1>5, <3>2, HarmlessTransfer
    <3>. QED BY <1>0, <2>1, <2>2, <3>3, HardwareStays, InsideIsSeen
  <2>. QED BY <2>3, <2>4
<1>6. CASE BlockGivesWay(s)
  <2>1. Others(s) /\ state' = state /\ device' = device /\ delivered' = delivered
    BY <1>0, <1>6, I2cBlockGivesWay DEF I2cGoesOn
  <2>2. UNCHANGED fixedVars
    BY <2>1 DEF Others
  <2>. QED BY <2>1, <2>2, NothingReached, InsideIsSeen
<1>. QED BY <1>1, <1>2, <1>3, <1>4, <1>5, <1>6 DEF I2cStep

\* Dropping a session of a port or a line gives up the port, not its settings.
LEMMA ReleasedKeeps ==
    ASSUME OnSerial \/ OnCdev, StackInv, NEW s \in Sessions
    PROVE  Released(s).settings = device.settings
<1>1. device = [settings |-> device.settings, holder |-> device.holder]
  BY SerialDevice, CdevDevice DEF StackInv, DeviceInv
<1>. QED BY <1>1 DEF Released

\* of a serial session,
LEMMA SerialIsSeen ==
    ASSUME StackInv, WritersInv, StackHardware' \in StackHardwares, OnSerial, NEW s \in Sessions,
           SerialStep(s) \/ Fail(s)
    PROVE  BusStepOf(s) \/ BusSeesNothing
<1>0. Base /\ SerialInv /\ ~ OnMock /\ ~ OnI2c
  BY Transports DEF StackInv, DeviceInv, I2cInv
<1>1. CASE BindSpi(s) \/ BindUart(s)
  <2>1. \E d, b : Bind(s, d, b)
    BY <1>1 DEF BindSpi, BindUart
  <2>. QED BY <1>0, <2>1, OpenIsSeen DEF BusStepOf
<1>2. CASE \/ (\E r \in Requests[s].spi : BeginSpi(s, r)) \/ (\E r \in Requests[s].uart : BeginUart(s, r))
           \/ FinishSerial(s) \/ MarkClosed(s) \/ Fail(s)
  <2>1. (\E r, steps : BeginCall(s, r, steps)) \/ (\E b : Succeed(s, b)) \/ MarkClosed(s) \/ Fail(s)
    BY <1>2 DEF BeginSpi, BeginUart, FinishSerial
  <2>2. UNCHANGED <<fixedVars, device, delivered>>
    BY <2>1 DEF BeginCall, Succeed, Return, MarkClosed, Fail, driverVars
  <2>. QED BY <1>0, <2>1, <2>2, NothingReached, LifeIsSeen
<1>3. CASE Drop(s, Released(s))
  <2>1. device' = Released(s) /\ UNCHANGED <<fixedVars, delivered>>
    BY <1>3 DEF Drop
  <2>2. device'.settings = device.settings
    BY <2>1, ReleasedKeeps
  <2>3. StackHardware' = StackHardware
    BY <1>0, <2>1, <2>2, HardwareStays
  <2>. QED BY <1>0, <1>3, <2>3, LifeIsSeen
<1>4. CASE SetStep(s) \/ Send(s)
  <2>1. state[s] = "busy" /\ call[s].steps # <<>> /\ Head(call[s].steps).kind \in {"set", "send"}
    BY <1>4 DEF SetStep, Send, AtStep, NextStep
  <2>2. UNCHANGED <<fixedVars, state>>
    BY <1>4 DEF SetStep, Send, Touch
  <2>3. CanWrite(s)
    <3>. SUFFICES ASSUME ~ CanWrite(s) PROVE FALSE
      OBVIOUS
    <3>1. call[s].steps = <<[kind |-> "ask"]>>
      BY <1>0, <2>1 DEF WritersInv, ReadsOnly
    <3>2. Head(call[s].steps) = [kind |-> "ask"]
      BY <3>1, OneStep
    <3>. QED BY <2>1, <3>2
  <2>. QED BY <1>0, <2>1, <2>2, <2>3, TouchIsSeen DEF BusStepOf
<1>5. CASE AskPort(s) \/ GetStep(s) \/ OpenSpi(s) \/ OpenSpiFails(s)
  <2>1. UNCHANGED <<fixedVars, device, delivered, state>>
    BY <1>5 DEF AskPort, GetStep, OpenSpi, OpenSpiFails, Pass, driverVars
  <2>. QED BY <2>1, NothingReached, InsideIsSeen
<1>6. CASE OpenFails(s)
  <2>1. OnUart /\ device.holder = NoHolder /\ UNCHANGED <<fixedVars, state>>
    BY <1>6 DEF OpenFails, OpenPort
  <2>2. \A t \in Sessions : state[t] = "none"
    BY <1>0, <2>1, FreePort
  <2>3. StackState = state /\ StackState' = state' /\ UNCHANGED access
    BY <1>0, <2>1, SeenState
  <2>4. Bus!OpenFails(s)
    BY <2>1, <2>2, <2>3 DEF Bus!OpenFails, StackState, StackHardwares, Memories
  <2>. QED BY <2>4 DEF BusStepOf
<1>. QED BY <1>1, <1>2, <1>3, <1>4, <1>5, <1>6 DEF SerialStep, SpiStep, UartStep

\* of a line,
LEMMA CdevIsSeen ==
    ASSUME StackInv, StackHardware' \in StackHardwares, OnCdev, NEW s \in Sessions,
           CdevStep(s) \/ Fail(s)
    PROVE  BusStepOf(s) \/ BusSeesNothing
<1>0. Base /\ CdevInv /\ ~ OnMock /\ ~ OnI2c
  BY Transports DEF StackInv, DeviceInv, I2cInv
<1>1. CASE BindCdev(s)
  <2>1. \E d, b : Bind(s, d, b)
    BY <1>1 DEF BindCdev
  <2>. QED BY <1>0, <2>1, OpenIsSeen DEF BusStepOf
<1>2. CASE \/ (\E r \in Requests[s].gpio : BeginCdev(s, r))
           \/ Succeed(s, book[s]) \/ MarkClosed(s) \/ Fail(s)
  <2>1. (\E r, steps : BeginCall(s, r, steps)) \/ (\E b : Succeed(s, b)) \/ MarkClosed(s) \/ Fail(s)
    BY <1>2 DEF BeginCdev
  <2>2. UNCHANGED <<fixedVars, device, delivered>>
    BY <2>1 DEF BeginCall, Succeed, Return, MarkClosed, Fail, driverVars
  <2>. QED BY <1>0, <2>1, <2>2, NothingReached, LifeIsSeen
<1>3. CASE Drop(s, Released(s))
  <2>1. device' = Released(s) /\ UNCHANGED <<fixedVars, delivered>>
    BY <1>3 DEF Drop
  <2>2. device'.settings = device.settings
    BY <2>1, ReleasedKeeps
  <2>3. StackHardware' = StackHardware
    BY <1>0, <2>1, <2>2, HardwareStays
  <2>. QED BY <1>0, <1>3, <2>3, LifeIsSeen
<1>4. CASE SetLevel(s)
  <2>1. state[s] = "busy" /\ UNCHANGED <<fixedVars, state>>
    BY <1>4 DEF SetLevel, AtStep, Touch
  <2>2. CanWrite(s)
    BY <1>0, <1>4, LevelKeepsCdev
  <2>. QED BY <1>0, <2>1, <2>2, TouchIsSeen DEF BusStepOf
<1>5. CASE GetLevel(s)
  <2>1. UNCHANGED <<fixedVars, device, delivered, state>>
    BY <1>5 DEF GetLevel, Pass, driverVars
  <2>. QED BY <2>1, NothingReached, InsideIsSeen
<1>. QED BY <1>1, <1>2, <1>3, <1>4, <1>5 DEF CdevStep

\* A line without a holder may become an input or an output.
LEMMA LineIsNotSeen ==
    ASSUME StackInv, LineChanges
    PROVE  BusSeesNothing
<1>1. interface = "gpio" /\ OnCdev /\ UNCHANGED <<fixedVars, delivered, state>>
  BY DEF LineChanges, OnCdev, driverVars
<1>2. ~ OnMock /\ ~ OnI2c /\ ~ OnSerial
  BY <1>1, Transports
<1>3. PICK v : device' = [device EXCEPT !.settings["output"] = v]
  BY DEF LineChanges
<1>4. /\ device = [settings |-> device.settings, holder |-> device.holder]
      /\ device.settings \in Settings
  BY <1>1, CdevDevice DEF StackInv, DeviceInv
<1>5. device'.settings = [device.settings EXCEPT !["output"] = v]
  BY <1>3, <1>4
<1>6. /\ DOMAIN device'.settings = DOMAIN device.settings
      /\ \A f \in DOMAIN device.settings \ {"output"} : device'.settings[f] = device.settings[f]
  BY <1>4, <1>5 DEF Settings
<1>7. StackHardware' = StackHardware
  BY <1>1, <1>2, <1>6, HardwareStays DEF Hidden
<1>. QED BY <1>1, <1>7, InsideIsSeen

\* of a usb session,
LEMMA UsbIsSeen ==
    ASSUME StackInv, WritersInv, StackHardware' \in StackHardwares, OnUsb, NEW s \in Sessions,
           UsbStep(s) \/ Fail(s)
    PROVE  BusStepOf(s) \/ BusSeesNothing
<1>0. Base /\ UsbInv /\ ~ OnMock /\ ~ OnI2c /\ ~ OnSerial /\ ~ OnCdev
  BY Transports DEF StackInv, DeviceInv, I2cInv
<1>1. ASSUME UNCHANGED <<fixedVars, delivered>>
      PROVE  StackHardware' = StackHardware
  BY <1>0, <1>1, HardwareStays
<1>2. ASSUME Others(s), Shaped, delivered'[s] \in {delivered[s], delivered[s] + 0}
      PROVE  StackHardware' = StackHardware
  <2>1. delivered[s] \in Nat
    BY DEF StackInv, CountersInv, Counted
  <2>2. delivered' = delivered
    BY <1>0, <1>2, <2>1, DeliveredStays DEF Shaped
  <2>. QED BY <1>1, <1>2, <2>2 DEF Others
<1>3. CASE BindUsb(s)
  <2>1. \E d, b : Bind(s, d, b)
    BY <1>3 DEF BindUsb
  <2>. QED BY <1>0, <2>1, OpenIsSeen DEF BusStepOf
<1>4. CASE \/ (\E r \in Requests[s].usb : BeginUsb(s, r))
           \/ FinishUsb(s) \/ Drop(s, Give(Claimed(s), NoHolder)) \/ Fail(s)
  <2>1. (\E r, steps : BeginCall(s, r, steps)) \/ (\E b : Succeed(s, b)) \/ (\E d : Drop(s, d)) \/ Fail(s)
    BY <1>4 DEF BeginUsb, FinishUsb
  <2>2. UNCHANGED <<fixedVars, delivered>>
    BY <2>1 DEF BeginCall, Succeed, Return, Drop, Fail, driverVars
  <2>. QED BY <1>0, <1>1, <2>1, <2>2, LifeIsSeen
<1>5. CASE TakeClaim(s) \/ GiveBack(s) \/ SetAlternate(s)
  <2>1. /\ Continues(s, Tail(call[s].steps)) /\ Advance(s)
        /\ delivered'[s] \in {delivered[s], delivered[s] + 0}
    BY <1>0, <1>5, UsbClaims, UsbGivesBack, UsbAlternates
  <2>2. Others(s) /\ Shaped /\ state' = state
    BY <2>1 DEF Continues, Advance
  <2>3. StackHardware' = StackHardware
    BY <1>2, <2>1, <2>2
  <2>. QED BY <2>2, <2>3, InsideIsSeen DEF Others
<1>6. CASE AlternateFails(s) \/ CloseFails(s)
  <2>1. UNCHANGED <<fixedVars, delivered, state>>
    BY <1>6 DEF AlternateFails, CloseFails
  <2>. QED BY <1>1, <2>1, InsideIsSeen
<1>7. CASE Exchange(s)
  <2>1. PICK moved \in Moved(call[s].request) : delivered'[s] = delivered[s] + moved
    BY <1>0, <1>7, UsbExchanges
  <2>2. Others(s) /\ Shaped /\ state[s] = "busy" /\ UNCHANGED <<fixedVars, state>>
    BY <1>0, <1>7, UsbExchanges DEF Continues, Advance, Others
  <2>3. CASE CanWrite(s)
    BY <1>0, <2>2, <2>3, TouchIsSeen DEF BusStepOf
  <2>4. CASE ~ CanWrite(s)
    <3>. DEFINE r == call[s].request
    <3>1. r.op \in Asking /\ IsCall(s, call[s])
      BY <1>0, <2>2, <2>4 DEF WritersInv, ReadsOnly, Base
    <3>2. IsUsbRequest(r)
      <4>1. r \in Requests[s].usb
        BY <3>1 DEF IsCall, OnUsb
      <4>. QED BY <4>1, UsbAssumption
    <3>3. Payload(r) = 0
      <4>1. CASE "messages" \notin DOMAIN r
        BY <4>1 DEF Payload
      <4>2. CASE "messages" \in DOMAIN r
        <5>1. /\ r.messages \in Seq([write : Seq(Nat), read : Nat])
              /\ \A k \in DOMAIN r.messages : r.messages[k].write = <<>>
          BY <3>1, <3>2, <4>2 DEF IsUsbRequest, Asking
        <5>2. r.messages \in Messages(Nat)
          BY <5>1 DEF Messages
        <5>. HIDE DEF r
        <5>. QED BY <4>2, <5>1, <5>2, PayloadOfReads
      <4>. QED BY <4>1, <4>2
    <3>4. moved = 0
      BY <2>1, <3>1, <3>3 DEF Moved, MovedByControl, MovedInBulk, MovedByInterrupt, Asking
    <3>5. StackHardware' = StackHardware
      BY <1>2, <2>1, <2>2, <3>4
    <3>. QED BY <2>2, <3>5, InsideIsSeen
  <2>. QED BY <2>3, <2>4
<1>8. CASE CloseUsb(s)
  <2>1. /\ UNCHANGED <<fixedVars, delivered>>
        /\ state[s] \in {"idle", "faulted", "closed"} /\ state' = [state EXCEPT ![s] = "closed"]
    BY <1>8 DEF CloseUsb, driverVars
  <2>2. StackHardware' = StackHardware
    BY <1>1, <2>1
  <2>3. CASE state[s] = "closed"
    <3>1. state' = state
      BY <1>0, <2>1, <2>3 DEF Base
    <3>. QED BY <2>1, <2>2, <3>1, InsideIsSeen
  <2>4. CASE state[s] \in {"idle", "faulted"}
    <3>1. StackState = state /\ StackState' = state' /\ access' = access
      BY <1>0, <2>1, SeenState
    <3>2. Bus!Close(s)
      BY <2>1, <2>2, <2>4, <3>1 DEF Bus!Close, Bus!Callable, StackState
    <3>. QED BY <3>2 DEF BusStepOf
  <2>. QED BY <2>1, <2>3, <2>4
<1>. QED BY <1>3, <1>4, <1>5, <1>6, <1>7, <1>8 DEF UsbStep

\* lemnos-bus sees nothing of the mock.
LEMMA MockIsNotSeen ==
    ASSUME OnMock, UNCHANGED fixedVars
    PROVE  BusSeesNothing
<1>1. ~ OnI2c /\ ~ OnSerial /\ ~ OnCdev
  BY Transports
<1>2. StackHardware' = StackHardware /\ UNCHANGED access
  BY <1>1, HardwareStays
<1>3. StackState' = StackState
  BY DEF StackState, OnMock, fixedVars
<1>. QED BY <1>2, <1>3 DEF BusSeesNothing

\* and so of every step of the system.
LEMMA StepIsSeen ==
    ASSUME StackInv, WritersInv, StackInv', [Next]_deviceVars
    PROVE  (\E s \in Sessions : BusStepOf(s)) \/ BusSeesNothing
<1>0. Base /\ I2cType
  BY DEF StackInv, DeviceInv, I2cInv
<1>1. StackHardware' \in StackHardwares
  <2>1. (StackHardware \in StackHardwares)'
    BY NextHardwareType
  <2>2. StackHardwares' = StackHardwares
    BY DEF StackHardwares, Memories, Registers, StackFields
  <2>. QED BY <2>1, <2>2
<1>2. ASSUME NEW s \in Sessions, SessionStep(s)
      PROVE  BusStepOf(s) \/ BusSeesNothing
  <2>1. CASE OnI2c
    <3>1. I2cStep(s) \/ Fail(s)
      BY <1>2, <2>1, SerialOnly, CdevOnly, UsbOnly, MockOnly, Transports DEF SessionStep, LinuxFails
    <3>. QED BY <1>1, <2>1, <3>1, I2cIsSeen
  <2>2. CASE OnSerial
    <3>1. SerialStep(s) \/ Fail(s)
      BY <1>2, <2>2, I2cOnly, CdevOnly, UsbOnly, MockOnly, Transports DEF SessionStep, LinuxFails
    <3>. QED BY <1>1, <2>2, <3>1, SerialIsSeen
  <2>3. CASE OnCdev
    <3>1. CdevStep(s) \/ Fail(s)
      BY <1>2, <2>3, I2cOnly, SerialOnly, UsbOnly, MockOnly, Transports DEF SessionStep, LinuxFails
    <3>. QED BY <1>1, <2>3, <3>1, CdevIsSeen
  <2>4. CASE OnUsb
    <3>1. UsbStep(s) \/ Fail(s)
      BY <1>2, <2>4, I2cOnly, SerialOnly, CdevOnly, MockOnly, Transports DEF SessionStep, LinuxFails
    <3>. QED BY <1>1, <2>4, <3>1, UsbIsSeen
  <2>5. CASE OnMock
    <3>1. UNCHANGED fixedVars
      BY <1>0, FixedTransport
    <3>. QED BY <2>5, <3>1, MockIsNotSeen
  <2>6. OnI2c \/ OnSerial \/ OnCdev \/ OnUsb \/ OnMock
    <3>1. DOMAIN Operations = {"gpio", "pwm", "i2c", "spi", "uart", "usb"}
      BY DEF Operations
    <3>2. interface \in {"gpio", "pwm", "i2c", "spi", "uart", "usb"} /\ backend \in {"linux", "mock"}
          /\ (interface = "pwm" => backend = "mock")
      BY <1>0, <3>1 DEF Base, Interfaces
    <3>. QED BY <3>2 DEF OnI2c, OnSerial, OnCdev, OnUsb, OnMock
  <2>. QED BY <2>1, <2>2, <2>3, <2>4, <2>5, <2>6
<1>3. ASSUME LineChanges
      PROVE  BusSeesNothing
  BY <1>3, LineIsNotSeen
<1>4. ASSUME MockTest
      PROVE  BusSeesNothing
  <2>1. UNCHANGED fixedVars /\ OnMock
    BY <1>0, <1>4, FixedTransport, TestOnly
  <2>. QED BY <2>1, MockIsNotSeen
<1>5. ASSUME UNCHANGED deviceVars
      PROVE  BusSeesNothing
  BY <1>5, NothingReached, InsideIsSeen DEF deviceVars, driverVars, fixedVars
<1>. QED BY <1>2, <1>3, <1>4, <1>5 DEF Next

\* At the start no session is in a call,
LEMMA WritersInit ==
    ASSUME Init
    PROVE  WritersInv
BY DEF Init, WritersInv

\* and lemnos-bus sees its own initial state.
LEMMA SeenInit ==
    ASSUME Init
    PROVE  Bus!Init
<1>1. StackHardware \in StackHardwares
  BY StackInvInit, HardwareType
<1>2. access \in [Sessions -> SessionAccess] /\ state = [s \in Sessions |-> "none"]
  BY DEF Init
<1>3. StackState = [s \in Sessions |-> "none"]
  BY <1>2 DEF StackState
<1>. QED BY <1>1, <1>2, <1>3 DEF Bus!Init, Bus!SessionAccess, SessionAccess, StackState, StackHardwares, Memories

\* The i2c, spi, uart, usb and character device sessions implement the session
\* of lemnos-bus: one call at a time, closed for good until it is dropped, and
\* the device reached only from within a call of a session that may write.
THEOREM StackImplementsBus == Spec => ImplementsBusSession
<1>1. Init => Bus!Init
  BY SeenInit
<1>2. StackInv /\ WritersInv /\ StackInv' /\ [Next]_deviceVars => [Bus!Next]_(Bus!busVars)
  <2>. SUFFICES ASSUME StackInv, WritersInv, StackInv', [Next]_deviceVars
                PROVE  [Bus!Next]_(Bus!busVars)
    OBVIOUS
  <2>1. (\E s \in Sessions : BusStepOf(s)) \/ BusSeesNothing
    BY StepIsSeen
  <2>. QED BY <2>1 DEF BusStepOf, BusSeesNothing, Bus!Next, Bus!busVars, StackState
<1>3. Init => StackInv /\ WritersInv
  BY StackInvInit, WritersInit
<1>4. StackInv /\ WritersInv /\ [Next]_deviceVars => (StackInv /\ WritersInv)'
  <2>. SUFFICES ASSUME StackInv, WritersInv, [Next]_deviceVars
                PROVE  StackInv' /\ WritersInv'
    OBVIOUS
  <2>1. Base /\ I2cType
    BY DEF StackInv, DeviceInv, I2cInv
  <2>. QED BY <2>1, StackInvStep, WritersStep
<1>5. Init /\ [][Next]_deviceVars => [](StackInv /\ WritersInv)
  BY <1>3, <1>4, PTL
<1>. QED BY <1>1, <1>2, <1>5, PTL DEF Spec, ImplementsBusSession, Bus!Spec
=============================================================================
