---------------------------- MODULE SignalProofs ----------------------------
(***************************************************************************)
(* Proofs about SignalRing, for buffers of any size, delay and number of   *)
(* channels, and for any block lengths.                                    *)
(***************************************************************************)
EXTENDS SignalRing, TLAPS

-----------------------------------------------------------------------------
(* The inductive invariant *)

Typed ==
    /\ shape \in Shapes /\ lens \subseteq Lengths /\ len <= shape.size
    /\ frames \in Nat /\ fresh \in Nat
    /\ chan \in Channels /\ len \in {0} \cup lens
    /\ DOMAIN out = Channels /\ DOMAIN past = Channels
    /\ \A c \in Channels : DOMAIN past[c] = 0..shape.size - 1

\* The pointer goes round with the frames, in steps of the block length.
Counting ==
    /\ ptr = fresh % Cycle
    /\ \A n \in lens : Fixed(n) => fresh % n = 0

\* Frames of the block in progress that channel c has already.
Written(c) == IF c < chan THEN len ELSE 0

\* RingHoldsLatest, also while some channels have the block and others have not.
Recorded ==
    Sound /\ ~dead =>
        \A c \in Channels : \A k \in 1..Cycle :
            k <= fresh + Written(c) =>
                queue[Place(c, ptr + Written(c) - k)] = Sample(c, frames + Written(c) - k)

\* The samples to play are where the constructor has put them.
Loaded ==
    shape.plays =>
        \A c \in Channels : \A f \in 0..shape.size - 1 : queue[Base(c) + f] = Sample(c, f)

\* What the channels up to the driver's loop have delivered.
Delivered ==
    shape.plays =>
        \A c \in Channels : \A i \in 0..Written(c) - 1 :
            out[c][i] = Sample(c, (fresh + i) % shape.size)

\* What the preprocessors remember, with one block length.
Remembers ==
    Sound /\ ~dead /\ shape.filtered =>
        \A n \in lens : Fixed(n) =>
            \A c \in Channels : frames + Written(c) > 0 =>
                \A i \in 0..n - 1 : past[c][i] = Sample(c, frames + Written(c) - n + i)

\* Why each sample is where it belongs.
IInv ==
    /\ Typed /\ Counting /\ Recorded /\ Loaded /\ Delivered /\ Remembers
    /\ MultipleNeverThrows

-----------------------------------------------------------------------------

-----------------------------------------------------------------------------
(* Remainders *)

\* A remainder, and the quotient it leaves.
LEMMA Remainder ==
  ASSUME NEW m \in Nat \ {0}, NEW x \in Int
  PROVE  /\ x % m \in 0..m - 1
         /\ x \div m \in Int
         /\ x = (m * (x \div m)) + (x % m)
OBVIOUS

\* A number written with quotient and remainder has these.
LEMMA DivMod ==
  ASSUME NEW m \in Nat \ {0}, NEW q \in Int, NEW r \in 0..m - 1
  PROVE  /\ ((m * q) + r) % m = r
         /\ ((m * q) + r) \div m = q
OBVIOUS

\* Multiples of m that differ are at least m apart.
LEMMA Gap ==
  ASSUME NEW m \in Nat \ {0}, NEW a \in Int, NEW b \in Int, a < b
  PROVE  (m * a) + m <= m * b
<1>1. b - a >= 1
  OBVIOUS
<1>2. m * (b - a) >= m
  BY <1>1
<1> QED BY <1>2

\* Taking the pointer round before going on changes nothing.
LEMMA ModAdd ==
  ASSUME NEW m \in Nat \ {0}, NEW x \in Int, NEW y \in Int
  PROVE  ((x % m) + y) % m = (x + y) % m
<1> DEFINE q == x \div m
           r == x % m
           p == (r + y) \div m
           s == (r + y) % m
<1>1. r \in 0..m - 1 /\ q \in Int /\ x = (m * q) + r
  BY Remainder
<1> HIDE DEF q, r
<1>2. s \in 0..m - 1 /\ p \in Int /\ r + y = (m * p) + s
  <2>1. r + y \in Int
    BY <1>1
  <2> QED BY <2>1, Remainder
<1> HIDE DEF p, s
<1>3. x + y = (m * (q + p)) + s
  BY <1>1, <1>2
<1>4. \A u \in Int, t \in 0..m - 1 : ((m * u) + t) % m = t
  BY DivMod
<1>5. q + p \in Int
  BY <1>1, <1>2
<1>6. (x + y) % m = s
  BY <1>2, <1>3, <1>4, <1>5
<1> QED BY <1>6 DEF s, r

\* Going once round changes nothing.
LEMMA ModRound ==
  ASSUME NEW m \in Nat \ {0}, NEW x \in Int
  PROVE  (x + m) % m = x % m
<1> DEFINE q == x \div m
           r == x % m
<1>1. r \in 0..m - 1 /\ q \in Int /\ x = (m * q) + r
  BY Remainder
<1> HIDE DEF q, r
<1>2. x + m = (m * (q + 1)) + r
  BY <1>1
<1>3. \A u \in Int, t \in 0..m - 1 : ((m * u) + t) % m = t
  BY DivMod
<1>4. (x + m) % m = r
  BY <1>1, <1>2, <1>3
<1> QED BY <1>4 DEF r

\* Values less than one round apart are in different cells.
LEMMA ModApart ==
  ASSUME NEW m \in Nat \ {0}, NEW x \in Int, NEW d \in 1..m - 1
  PROVE  (x + d) % m # x % m
<1> DEFINE q == x \div m
           r == x % m
           p == (x + d) \div m
           s == (x + d) % m
<1>1. r \in 0..m - 1 /\ q \in Int /\ x = (m * q) + r
  BY Remainder
<1>2. s \in 0..m - 1 /\ p \in Int /\ x + d = (m * p) + s
  BY Remainder
<1> HIDE DEF q, r, p, s
<1>3. SUFFICES ASSUME s = r PROVE FALSE
  BY DEF s, r
<1>4. m * (p - q) = d
  BY <1>1, <1>2, <1>3
<1>5. CASE p <= q
  <2>1. m * (p - q) <= 0
    BY <1>1, <1>2, <1>5
  <2> QED BY <1>4, <2>1
<1>6. CASE p > q
  <2>1. \A a, b \in Int : a < b => (m * a) + m <= m * b
    BY Gap
  <2>2. (m * q) + m <= m * p
    BY <1>1, <1>2, <1>6, <2>1
  <2> QED BY <1>1, <1>2, <1>4, <2>2
<1> QED BY <1>1, <1>2, <1>5, <1>6

\* A number within the first round stays as it is; one in the second loses m.
LEMMA ModSmall ==
  ASSUME NEW m \in Nat \ {0}, NEW x \in 0..(2 * m) - 1
  PROVE  x % m = IF x < m THEN x ELSE x - m
<1>1. \A u \in Int, t \in 0..m - 1 : ((m * u) + t) % m = t
  BY DivMod
<1>2. CASE x < m
  <2>1. x = (m * 0) + x
    OBVIOUS
  <2> QED BY <1>1, <1>2, <2>1
<1>3. CASE x >= m
  <2>1. x = (m * 1) + (x - m) /\ x - m \in 0..m - 1
    BY <1>3
  <2> QED BY <1>1, <1>3, <2>1
<1> QED BY <1>2, <1>3

\* In a ring of a whole number of blocks, a pointer that moves by blocks is at
\* the beginning of one, with room for it before the end.
LEMMA WholeBlocks ==
  ASSUME NEW m \in Nat \ {0}, NEW n \in Nat \ {0}, NEW x \in Int,
         m % n = 0, x % n = 0
  PROVE  (x % m) % n = 0 /\ (x % m) + n <= m
<1> DEFINE a == m \div n
           b == x \div n
           q == x \div m
           y == x % m
           d == b - (a * q)
<1>1. a \in Int /\ m = n * a
  BY Remainder
<1>2. b \in Int /\ x = n * b
  BY Remainder
<1>3. y \in 0..m - 1 /\ q \in Int /\ x = (m * q) + y
  BY Remainder
<1> HIDE DEF a, b, q, y
<1>4. d \in Int
  BY <1>1, <1>2, <1>3
<1>5. n * d = (n * b) - ((n * a) * q)
  BY <1>1, <1>2, <1>3
<1>6. y = n * d
  BY <1>1, <1>2, <1>3, <1>5
<1> HIDE DEF d
<1>7. y % n = 0
  <2>1. \A u \in Int, t \in 0..n - 1 : ((n * u) + t) % n = t
    BY DivMod
  <2>2. y = (n * d) + 0 /\ 0 \in 0..n - 1
    BY <1>3, <1>4, <1>6
  <2> QED BY <1>4, <2>1, <2>2
<1>8. d < a
  <2>1. SUFFICES ASSUME a <= d PROVE FALSE
    BY <1>1, <1>4
  <2>2. n * (d - a) >= 0
    BY <1>1, <1>4, <2>1
  <2>3. n * d >= n * a
    BY <1>1, <1>4, <2>2
  <2> QED BY <1>1, <1>3, <1>6, <2>3
<1>9. (n * d) + n <= n * a
  BY <1>1, <1>4, <1>8, Gap
<1> QED BY <1>1, <1>6, <1>7, <1>9 DEF y

\* Sums and differences of whole numbers of blocks are whole numbers of blocks.
LEMMA BlocksAdd ==
  ASSUME NEW n \in Nat \ {0}, NEW x \in Int, NEW y \in Int, x % n = 0, y % n = 0
  PROVE  (x + y) % n = 0 /\ (x - y) % n = 0 /\ n % n = 0
<1> DEFINE a == x \div n
           b == y \div n
<1>1. a \in Int /\ x = n * a
  BY Remainder
<1>2. b \in Int /\ y = n * b
  BY Remainder
<1> HIDE DEF a, b
<1>3. \A u \in Int, t \in 0..n - 1 : ((n * u) + t) % n = t
  BY DivMod
<1>4. x + y = (n * (a + b)) + 0 /\ x - y = (n * (a - b)) + 0 /\ n = (n * 1) + 0
  BY <1>1, <1>2
<1> QED BY <1>1, <1>2, <1>3, <1>4

-----------------------------------------------------------------------------
(* The ring *)

\* What the assumption on the constants says of the buffer.
LEMMA ShapeFacts ==
  ASSUME Typed
  PROVE  /\ shape.size \in Nat \ {0} /\ shape.delay \in Nat /\ shape.channels \in Nat \ {0}
         /\ Cycle \in Nat \ {0} /\ Cycle = shape.size + shape.delay
         /\ shape.plays => shape.delay = 0
         /\ lens \subseteq Nat \ {0}
         /\ len \in 0..shape.size
         /\ len > 0 => len \in lens
BY ConstantsAssumption DEF Typed, Cycle

\* With no delay, or a single channel, each channel has a ring of its own: its
\* cells are in m_timeQueue, and no other channel's.
LEMMA RingsApart ==
  ASSUME Typed, shape.delay = 0 \/ shape.channels = 1,
         NEW c \in Channels, NEW d \in Channels, NEW x \in Int, NEW y \in Int
  PROVE  /\ Place(c, x) \in Addresses
         /\ Place(c, x) = Place(d, y) => c = d /\ x % Cycle = y % Cycle
<1> DEFINE s == shape.size
           r == x % Cycle
           t == y % Cycle
<1>1. s \in Nat \ {0} /\ Cycle \in Nat \ {0} /\ Cycle = s + shape.delay
      /\ shape.delay \in Nat /\ shape.channels \in Nat \ {0}
  BY ShapeFacts
<1>2. r \in 0..Cycle - 1 /\ t \in 0..Cycle - 1
  BY <1>1, Remainder
<1>3. Place(c, x) = (s * c) + r /\ Place(d, y) = (s * d) + t
  BY DEF Place, Base
<1>4. c \in 0..shape.channels - 1 /\ d \in 0..shape.channels - 1
  BY DEF Channels
<1>5. Addresses = 0..(shape.channels * Cycle) - 1
  BY DEF Addresses
<1> DEFINE n == shape.channels
<1>6. CASE shape.delay = 0
  <2>1. Cycle = s
    BY <1>1, <1>6
  <2>2. \A a, b \in Int : a < b => (s * a) + s <= s * b
    BY <1>1, Gap
  <2>3. (s * c) + s <= s * n /\ s * c >= 0
    <3>1. s * c >= 0
      BY <1>1, <1>4
    <3> QED BY <1>1, <1>4, <2>2, <3>1
  <2>4. (s * c) + r \in 0..(n * Cycle) - 1
    <3>1. n * Cycle = s * n
      BY <1>1, <2>1
    <3>2. s * c \in Int /\ s * n \in Int
      BY <1>1, <1>4
    <3> HIDE DEF s, r, n
    <3> QED BY <1>1, <1>2, <2>1, <2>3, <3>1, <3>2
  <2>5. ASSUME (s * c) + r = (s * d) + t PROVE c = d /\ r = t
    <3>1. \A q \in Int, u \in 0..s - 1 : /\ ((s * q) + u) % s = u
                                         /\ ((s * q) + u) \div s = q
      BY <1>1, DivMod
    <3>2. c \in Int /\ d \in Int /\ r \in 0..s - 1 /\ t \in 0..s - 1
      BY <1>1, <1>2, <1>4, <2>1
    <3> HIDE DEF s, r, t
    <3>3. /\ ((s * c) + r) % s = r /\ ((s * c) + r) \div s = c
          /\ ((s * d) + t) % s = t /\ ((s * d) + t) \div s = d
      BY <3>1, <3>2
    <3> QED BY <2>5, <3>3
  <2> QED BY <1>3, <1>5, <2>4, <2>5
<1>7. CASE shape.channels = 1
  <2>1. c = 0 /\ d = 0 /\ s * 0 = 0
    BY <1>1, <1>4, <1>7
  <2>2. n * Cycle = Cycle
    BY <1>1, <1>7
  <2>3. Place(c, x) = r /\ Place(d, y) = t
    <3>1. Place(c, x) = 0 + r /\ Place(d, y) = 0 + t
      BY <1>3, <2>1
    <3> HIDE DEF r, t
    <3> QED BY <1>1, <1>2, <3>1
  <2>4. r \in Addresses
    <3> HIDE DEF r
    <3> QED BY <1>2, <1>5, <2>2
  <2> QED BY <2>1, <2>3, <2>4
<1> QED BY <1>6, <1>7

\* A block is never longer than the ring, so that each of its frames has a
\* cell of its own, away from those of the frames before it that are kept.
LEMMA CellsApart ==
  ASSUME Typed, NEW x \in Int, NEW i \in Int, NEW j \in Int,
         i < j, j - i < Cycle
  PROVE  (x + i) % Cycle # (x + j) % Cycle
<1>1. Cycle \in Nat \ {0}
  BY ShapeFacts
<1>2. \A y \in Int, e \in 1..Cycle - 1 : (y + e) % Cycle # y % Cycle
  BY <1>1, ModApart
<1>3. x + i \in Int /\ j - i \in 1..Cycle - 1 /\ (x + i) + (j - i) = x + j
  BY <1>1
<1> QED BY <1>2, <1>3

\* The converter's block never passes the end of a ring of whole blocks.
LEMMA NoBreak ==
  ASSUME Typed, Counting, len > 0, Fixed(len), Cycle % len = 0
  PROVE  ptr % len = 0 /\ ~Breaks
<1>1. len \in Nat \ {0} /\ len \in lens /\ Cycle \in Nat \ {0}
  BY ShapeFacts
<1>2. ptr = fresh % Cycle /\ fresh % len = 0 /\ fresh \in Int
  BY <1>1 DEF Counting, Typed
<1>3. (fresh % Cycle) % len = 0 /\ (fresh % Cycle) + len <= Cycle
  BY <1>1, <1>2, WholeBlocks
<1>4. ptr \in Int
  BY <1>1, <1>2, Remainder
<1> QED BY <1>1, <1>2, <1>3, <1>4 DEF Breaks, UntilEnd

\* In a sound setup each sample of the block is copied from its own frame.
LEMMA SourceIsOwn ==
  ASSUME Typed, Counting, Sound, NEW c \in Channels, NEW i \in 0..len - 1
  PROVE  Source(c, i) = Sample(c, frames + i)
<1>1. CASE ~shape.converted
  BY <1>1 DEF Source
<1>2. CASE shape.converted
  <2>1. len \in lens /\ len > 0
    BY ShapeFacts
  <2>2. Fixed(len) /\ Cycle % len = 0
    BY <1>2, <2>1 DEF Sound, Fixed
  <2>3. ~Breaks
    BY <2>1, <2>2, NoBreak
  <2> QED BY <1>2, <2>3 DEF Source, Interleaved
<1> QED BY <1>1, <1>2

-----------------------------------------------------------------------------
(* What adding a block does to the ring *)

\* Frames of the block that channel d has when channel c has been filled.
After(c, d) == IF d <= c THEN len ELSE 0

\* The pointer, the counters and the loop have integer values.
LEMMA NumberFacts ==
  ASSUME Typed, Counting
  PROVE  /\ ptr \in 0..Cycle - 1 /\ ptr \in Int /\ len \in Nat
         /\ frames \in Nat /\ fresh \in Nat
         /\ chan \in Channels /\ Channels \subseteq Int
<1>1. Cycle \in Nat \ {0} /\ len \in Nat /\ fresh \in Int
  BY ShapeFacts DEF Typed
<1>2. fresh % Cycle \in 0..Cycle - 1
  BY <1>1, Remainder
<1>3. ptr \in 0..Cycle - 1
  BY <1>2 DEF Counting
<1> QED BY <1>1, <1>3 DEF Typed, Channels

\* When a channel has been filled, the newest frame of each is just before the
\* pointer, or before the pointer's next value if the channel has the block.
LEMMA CopiedRing ==
  ASSUME Typed, Counting, Recorded, Sound, ~dead, len > 0,
         NEW c \in Channels, chan = c, NEW d \in Channels, NEW k \in 1..Cycle,
         k <= fresh + After(c, d)
  PROVE  Copied(c)[Place(d, ptr + After(c, d) - k)] = Sample(d, frames + After(c, d) - k)
<1> DEFINE w == After(c, d)
           a == Place(d, ptr + w - k)
           Block == 0..len - 1
<1>1. /\ ptr \in Int /\ len \in Nat /\ frames \in Nat /\ fresh \in Nat
      /\ c \in Int /\ d \in Int /\ Cycle \in Nat \ {0} /\ len <= Cycle
  BY ShapeFacts, NumberFacts
<1>2. w \in Int
  BY <1>1 DEF After
<1>3. shape.delay = 0 \/ shape.channels = 1
  BY DEF Sound
<1>4. \A e, f \in Channels : \A x, y \in Int :
          /\ Place(e, x) \in Addresses
          /\ Place(e, x) = Place(f, y) => e = f /\ x % Cycle = y % Cycle
  BY <1>3, RingsApart
<1>5. a \in Addresses
  BY <1>1, <1>2, <1>4
<1>6. Copied(c)[a] = IF \E i \in Block : a = Place(c, ptr + i)
                     THEN Source(c, CHOOSE i \in Block : a = Place(c, ptr + i))
                     ELSE queue[a]
  BY <1>5 DEF Copied
<1>7. \A e \in Channels : \A j \in 1..Cycle :
          j <= fresh + Written(e) =>
              queue[Place(e, ptr + Written(e) - j)] = Sample(e, frames + Written(e) - j)
  BY DEF Recorded
<1>8. CASE d # c
  <2>1. w = Written(d)
    BY <1>1, <1>8 DEF After, Written
  <2>2. queue[a] = Sample(d, frames + w - k)
    BY <1>7, <2>1
  <2>3. ~ \E i \in Block : a = Place(c, ptr + i)
    <3>1. SUFFICES ASSUME NEW i \in Block, a = Place(c, ptr + i) PROVE FALSE
      OBVIOUS
    <3>2. ptr + w - k \in Int /\ ptr + i \in Int
      BY <1>1, <1>2
    <3> QED BY <1>4, <1>8, <3>1, <3>2
  <2> QED BY <1>6, <2>2, <2>3
<1>9. CASE d = c
  <2>1. w = len /\ Written(c) = 0
    BY <1>1, <1>9 DEF After, Written
  <2>2. a = Place(c, ptr + (len - k))
    <3>1. ptr + w - k = ptr + (len - k)
      BY <1>1, <2>1
    <3> QED BY <1>9, <3>1
  <2>3. \A i, j \in Int : i < j /\ j - i < Cycle => (ptr + i) % Cycle # (ptr + j) % Cycle
    BY <1>1, CellsApart
  <2>4. CASE k <= len
    <3> DEFINE i == len - k
               j == CHOOSE l \in Block : a = Place(c, ptr + l)
    <3>1. i \in Block
      BY <1>1, <2>4
    <3>2. a = Place(c, ptr + i)
      BY <2>2
    <3>3. j \in Block /\ a = Place(c, ptr + j)
      BY <3>1, <3>2
    <3> HIDE DEF i, j
    <3>4. (ptr + i) % Cycle = (ptr + j) % Cycle
      <4>1. ptr + i \in Int /\ ptr + j \in Int
        BY <1>1, <3>1, <3>3
      <4> QED BY <1>4, <3>2, <3>3, <4>1
    <3>5. i = j
      <4>1. i \in Int /\ j \in Int /\ j - i < Cycle /\ i - j < Cycle
        BY <1>1, <3>1, <3>3
      <4>2. ~(i < j) /\ ~(j < i)
        BY <2>3, <3>4, <4>1
      <4> QED BY <4>1, <4>2
    <3>6. Copied(c)[a] = Source(c, i)
      BY <1>6, <3>1, <3>2, <3>5 DEF j
    <3>7. Source(c, i) = Sample(c, frames + i)
      BY <3>1, SourceIsOwn
    <3>8. frames + i = frames + w - k
      BY <1>1, <2>1 DEF i
    <3> QED BY <1>9, <3>6, <3>7, <3>8
  <2>5. CASE k > len
    <3>1. ~ \E i \in Block : a = Place(c, ptr + i)
      <4>1. SUFFICES ASSUME NEW i \in Block, a = Place(c, ptr + i) PROVE FALSE
        OBVIOUS
      <4>2. ptr + (len - k) \in Int /\ ptr + i \in Int
        BY <1>1
      <4>3. (ptr + (len - k)) % Cycle = (ptr + i) % Cycle
        BY <1>4, <2>2, <4>1, <4>2
      <4>4. len - k < i /\ i - (len - k) < Cycle /\ len - k \in Int /\ i \in Int
        BY <1>1, <2>5
      <4> QED BY <2>3, <4>3, <4>4
    <3> DEFINE j == k - len
    <3>2. j \in 1..Cycle /\ j <= fresh + Written(c)
      BY <1>1, <2>1, <2>5
    <3>3. queue[Place(c, ptr + Written(c) - j)] = Sample(c, frames + Written(c) - j)
      BY <1>7, <3>2
    <3>4. ptr + Written(c) - j = ptr + (len - k) /\ frames + Written(c) - j = frames + w - k
      BY <1>1, <2>1
    <3> QED BY <1>6, <1>9, <2>2, <3>1, <3>3, <3>4
  <2> QED BY <1>1, <2>4, <2>5
<1> QED BY <1>8, <1>9

-----------------------------------------------------------------------------
(* The inductive invariant *)

\* Zero is a whole number of rounds and of blocks.
LEMMA ZeroMod ==
  ASSUME NEW m \in Nat \ {0}
  PROVE  0 % m = 0
OBVIOUS

\* The invariant holds at first: nothing is recorded or remembered yet, and the
\* samples to play are channel after channel.
LEMMA InvInit == Init => IInv
<1> SUFFICES ASSUME Init PROVE IInv
  OBVIOUS
<1>1. Typed
  <2>1. 0 \in Channels
    BY ConstantsAssumption DEF Init, Channels
  <2> QED BY ConstantsAssumption, <2>1 DEF Init, Typed
<1>2. /\ shape.size \in Nat \ {0} /\ shape.channels \in Nat \ {0} /\ Cycle \in Nat \ {0}
      /\ shape.plays => shape.delay = 0
      /\ lens \subseteq Nat \ {0}
  BY <1>1, ShapeFacts
<1>3. Counting
  BY <1>2, ZeroMod DEF Init, Counting
<1>4. \A c \in Channels : Written(c) = 0
  BY DEF Init, Written, Channels
<1>5. Recorded /\ Delivered /\ Remembers
  BY <1>4 DEF Init, Recorded, Delivered, Remembers
<1>6. Loaded
  <2>1. SUFFICES ASSUME shape.plays, NEW c \in Channels, NEW f \in 0..shape.size - 1
                 PROVE  queue[Base(c) + f] = Sample(c, f)
    BY DEF Loaded
  <2> DEFINE s == shape.size
             a == (s * c) + f
  <2>2. shape.delay = 0 /\ Cycle = s /\ s \in Nat \ {0} /\ c \in Int
    BY <1>1, <1>2, <2>1, ShapeFacts DEF Channels
  <2>3. f % s = f
    <3>1. f = (s * 0) + f
      BY <2>2
    <3> QED BY <2>2, <3>1, DivMod
  <2>4. Place(c, f) = Base(c) + f
    BY <2>2, <2>3 DEF Place
  <2>5. Base(c) + f \in Addresses
    BY <1>1, <2>2, <2>4, RingsApart
  <2>6. queue[Base(c) + f] = Sample((Base(c) + f) \div shape.size, (Base(c) + f) % shape.size)
    BY <2>1, <2>5 DEF Init
  <2>7. (Base(c) + f) \div shape.size = c /\ (Base(c) + f) % shape.size = f
    BY <2>2, DivMod DEF Base
  <2> QED BY <2>6, <2>7
<1>7. MultipleNeverThrows
  BY DEF Init, MultipleNeverThrows
<1> QED BY <1>1, <1>3, <1>5, <1>6, <1>7 DEF IInv

\* Every step keeps the types.
LEMMA TypedStep == Typed /\ Counting /\ [Next]_vars => Typed'
<1> SUFFICES ASSUME Typed, Counting, [Next]_vars PROVE Typed'
  OBVIOUS
<1>1. /\ shape.channels \in Nat \ {0} /\ lens \subseteq Nat \ {0}
      /\ frames \in Nat /\ fresh \in Nat /\ len \in Nat
      /\ len <= shape.size /\ 0 <= shape.size
  BY ShapeFacts, NumberFacts
<1>2. 0 \in Channels
  BY <1>1 DEF Channels
<1> USE DEF Typed, Channels
<1>3. CASE UNCHANGED vars
  BY <1>3 DEF vars
<1>4. CASE StartBlock \/ BlockTooLong
  BY <1>2, <1>4 DEF StartBlock, BlockTooLong
<1>5. CASE Stage
  BY <1>5 DEF Stage
<1>6. CASE Reset
  BY <1>6 DEF Reset
<1>7. ASSUME NEW c \in Channels, AddBlock(c) PROVE Typed'
  <2>1. c # shape.channels - 1 => c + 1 \in Channels
    BY <1>1
  <2>2. frames + len \in Nat /\ fresh + len \in Nat
    BY <1>1
  <2>3. past' \in {past, Remembered(c)}
    BY <1>7 DEF AddBlock
  <2>4. DOMAIN past' = Channels /\ \A d \in Channels : DOMAIN past'[d] = 0..shape.size - 1
    BY <2>3 DEF Remembered
  <2>5. shape' = shape /\ lens' = lens /\ out' = out
    BY <1>7 DEF AddBlock
  <2>6. /\ frames' \in {frames, frames + len} /\ fresh' \in {fresh, fresh + len}
        /\ chan' \in {chan, c + 1, 0} /\ len' \in {len, 0}
        /\ chan' = c + 1 => chan' = chan \/ c # shape.channels - 1 \/ chan' = 0
    BY <1>7 DEF AddBlock
  <2>7. len' <= shape'.size
    BY <1>1, <2>5, <2>6
  <2>8. len' \in {0} \cup lens' /\ chan' \in Channels'
    BY <1>2, <2>1, <2>5, <2>6
  <2> QED BY <2>2, <2>4, <2>5, <2>6, <2>7, <2>8
<1>8. ASSUME NEW c \in Channels, GetBlock(c) PROVE Typed'
  <2>1. c # shape.channels - 1 => c + 1 \in Channels
    BY <1>1
  <2>2. frames + len \in Nat /\ fresh + len \in Nat
    BY <1>1
  <2>3. DOMAIN out' = Channels /\ shape' = shape /\ lens' = lens /\ past' = past
    BY <1>8 DEF GetBlock
  <2>4. \/ /\ frames' = frames + len /\ fresh' = fresh + len
           /\ chan' = 0 /\ len' = 0
        \/ /\ chan' = c + 1 /\ c # shape.channels - 1
           /\ frames' = frames /\ fresh' = fresh /\ len' = len
    BY <1>8 DEF GetBlock
  <2>5. len' <= shape'.size
    BY <1>1, <2>3, <2>4
  <2>6. len' \in {0} \cup lens' /\ chan' \in Channels'
    BY <1>2, <2>1, <2>3, <2>4
  <2> QED BY <2>2, <2>3, <2>4, <2>5, <2>6
<1> QED BY <1>3, <1>4, <1>5, <1>6, <1>7, <1>8 DEF Next

\* The pointer and the frames since the rewind go on by a block, or stay, or
\* are both rewound.
LEMMA CountingStep == Typed /\ Counting /\ [Next]_vars => Counting'
<1> SUFFICES ASSUME Typed, Counting, [Next]_vars PROVE Counting'
  OBVIOUS
<1>1. /\ Cycle \in Nat \ {0} /\ lens \subseteq Nat \ {0} /\ fresh \in Int /\ len \in Int
      /\ len > 0 => len \in lens
      /\ shape.plays => shape.size = Cycle
  BY ShapeFacts, NumberFacts
<1>2. Cycle' = Cycle /\ lens' = lens /\ (\A n : Fixed(n)' = Fixed(n))
  BY DEF Next, vars, StartBlock, BlockTooLong, Stage, Reset, AddBlock, GetBlock, Cycle, Fixed
<1>3. \/ fresh' = fresh /\ ptr' = ptr
      \/ fresh' = 0 /\ ptr' = 0
      \/ fresh' = fresh + len /\ ptr' = (ptr + len) % Cycle /\ len > 0
  BY <1>1 DEF Next, vars, StartBlock, BlockTooLong, Stage, Reset, AddBlock, GetBlock, NextPtr, NextPlay
<1>4. CASE fresh' = fresh /\ ptr' = ptr
  BY <1>2, <1>4 DEF Counting
<1>5. CASE fresh' = 0 /\ ptr' = 0
  BY <1>1, <1>2, <1>5, ZeroMod DEF Counting
<1>6. CASE fresh' = fresh + len /\ ptr' = (ptr + len) % Cycle /\ len > 0
  <2>1. (ptr + len) % Cycle = (fresh + len) % Cycle
    BY <1>1, ModAdd DEF Counting
  <2>2. ASSUME NEW n \in lens, Fixed(n) PROVE (fresh + len) % n = 0
    <3>1. len = n /\ n \in Nat \ {0}
      BY <1>1, <1>6, <2>2 DEF Fixed
    <3>2. fresh % n = 0 /\ n % n = 0
      BY <2>2, <3>1 DEF Counting
    <3> QED BY <1>1, <3>1, <3>2, BlocksAdd
  <2> QED BY <1>2, <1>6, <2>1, <2>2 DEF Counting
<1> QED BY <1>3, <1>4, <1>5, <1>6

\* Whether the setup is sound, and the cells and channels of the buffer, do not
\* change.
LEMMA Fixtures ==
  ASSUME [Next]_vars
  PROVE  /\ shape' = shape /\ lens' = lens /\ Cycle' = Cycle /\ Channels' = Channels
         /\ Sound' = Sound
         /\ \A c, x : Place(c, x)' = Place(c, x)
BY DEF Next, vars, StartBlock, BlockTooLong, Stage, Reset, AddBlock, GetBlock, Cycle, Channels,
       Sound, Fixed, Place, Base

\* What is known of the loop after a channel has been added to or got from.
LEMMA LoopStep ==
  ASSUME Typed, Counting, NEW c \in Channels, AddBlock(c) \/ GetBlock(c), ~dead',
         NEW d \in Channels
  PROVE  /\ Written(d) = IF d < c THEN len ELSE 0
         /\ \/ /\ c # shape.channels - 1 /\ len' = len /\ chan' = c + 1 /\ ptr' = ptr
               /\ fresh' = fresh /\ frames' = frames
               /\ Written(d)' = After(c, d)
            \/ /\ c = shape.channels - 1 /\ len' = 0
               /\ ptr' = (ptr + len) % Cycle
               /\ fresh' = fresh + len /\ frames' = frames + len
               /\ Written(d)' = 0 /\ After(c, d) = len
<1>1. /\ shape.plays => shape.size = Cycle
      /\ c \in Int /\ d \in Int /\ d <= shape.channels - 1
  BY ShapeFacts DEF Channels
<1>2. chan = c
  BY DEF AddBlock, GetBlock
<1>3. \/ /\ c # shape.channels - 1 /\ len' = len /\ chan' = c + 1 /\ ptr' = ptr
         /\ fresh' = fresh /\ frames' = frames
      \/ /\ c = shape.channels - 1 /\ len' = 0 /\ chan' = 0
         /\ ptr' = (ptr + len) % Cycle
         /\ fresh' = fresh + len /\ frames' = frames + len
  BY <1>1 DEF AddBlock, GetBlock, NextPtr, NextPlay
<1> QED BY <1>1, <1>2, <1>3 DEF Written, After

\* The ring keeps the latest frames.
LEMMA RecordedStep == Typed /\ Counting /\ Recorded /\ [Next]_vars => Recorded'
<1> SUFFICES ASSUME Typed, Counting, Recorded, [Next]_vars,
                    Sound, ~dead', NEW c \in Channels, NEW k \in 1..Cycle,
                    k <= fresh' + Written(c)'
             PROVE  queue'[Place(c, ptr' + Written(c)' - k)]
                        = Sample(c, frames' + Written(c)' - k)
  BY Fixtures DEF Recorded, Sample
<1>1. /\ ptr \in Int /\ len \in Nat /\ frames \in Nat /\ fresh \in Nat /\ c \in Int
      /\ Cycle \in Nat \ {0} /\ ~shape.plays
  BY ShapeFacts, NumberFacts DEF Sound
<1>2. ~dead => \A j \in 1..Cycle :
          j <= fresh + Written(c) =>
              queue[Place(c, ptr + Written(c) - j)] = Sample(c, frames + Written(c) - j)
  BY DEF Recorded
<1>3. CASE UNCHANGED <<ptr, queue, frames, fresh, chan, len, dead>>
  <2>1. Written(c)' = Written(c)
    BY <1>3 DEF Written
  <2> QED BY <1>2, <1>3, <2>1
<1>4. CASE UNCHANGED vars
  BY <1>3, <1>4 DEF vars
<1>5. CASE Stage \/ BlockTooLong
  BY <1>3, <1>5 DEF Stage, BlockTooLong
<1>6. CASE StartBlock
  <2>1. Written(c) = 0 /\ Written(c)' = 0
    BY <1>1, <1>6 DEF StartBlock, Written, Channels
  <2> QED BY <1>2, <1>6, <2>1 DEF StartBlock
<1>7. CASE Reset
  <2>1. fresh' = 0 /\ Written(c)' = 0
    BY <1>7 DEF Reset, Written
  <2> QED BY <2>1
<1>8. ASSUME NEW e \in Channels, GetBlock(e) PROVE FALSE
  BY <1>1, <1>8 DEF GetBlock
<1>9. ASSUME NEW e \in Channels, AddBlock(e)
      PROVE  queue'[Place(c, ptr' + Written(c)' - k)] = Sample(c, frames' + Written(c)' - k)
  <2> DEFINE w == After(e, c)
  <2>1. len > 0 /\ chan = e /\ ~dead /\ queue' = Copied(e)
    BY <1>9 DEF AddBlock
  <2>2. w \in Int
    BY <1>1 DEF After
  <2>3. k <= fresh + w =>
            queue'[Place(c, ptr + w - k)] = Sample(c, frames + w - k)
    BY <2>1, CopiedRing
  <2>4. CASE e # shape.channels - 1
    <3>1. ptr' = ptr /\ fresh' = fresh /\ frames' = frames /\ Written(c)' = w
      BY <1>9, <2>4, LoopStep
    <3> QED BY <2>3, <3>1
  <2>5. CASE e = shape.channels - 1
    <3>1. /\ ptr' = (ptr + len) % Cycle /\ fresh' = fresh + len /\ frames' = frames + len
          /\ Written(c)' = 0 /\ w = len
      BY <1>9, <2>5, LoopStep
    <3>2. ptr' + Written(c)' - k = ((ptr + len) % Cycle) + (0 - k)
      <4>1. (ptr + len) % Cycle \in Int
        BY <1>1
      <4> QED BY <3>1, <4>1
    <3>3. (((ptr + len) % Cycle) + (0 - k)) % Cycle = ((ptr + len) + (0 - k)) % Cycle
      <4>1. ptr + len \in Int /\ 0 - k \in Int
        BY <1>1
      <4> QED BY <1>1, <4>1, ModAdd
    <3>4. (ptr + len) + (0 - k) = ptr + w - k
      BY <1>1, <3>1
    <3>5. Place(c, ptr' + Written(c)' - k) = Place(c, ptr + w - k)
      BY <3>2, <3>3, <3>4 DEF Place
    <3>6. k <= fresh + w /\ frames' + Written(c)' - k = frames + w - k
      BY <1>1, <3>1
    <3> QED BY <2>3, <3>5, <3>6
  <2> QED BY <2>4, <2>5
<1> QED BY <1>4, <1>5, <1>6, <1>7, <1>8, <1>9 DEF Next

\* The samples to play stay where they are.
LEMMA LoadedStep == Typed /\ Loaded /\ [Next]_vars => Loaded'
<1> SUFFICES ASSUME Typed, Loaded, [Next]_vars, shape.plays
             PROVE  Loaded'
  BY Fixtures DEF Loaded
<1>1. queue' = queue
  BY DEF Next, vars, StartBlock, BlockTooLong, Stage, Reset, AddBlock, GetBlock
<1> QED BY <1>1, Fixtures DEF Loaded, Base, Sample

\* What getBlock() takes from the loop.
LEMMA GotBlock ==
  ASSUME Typed, Counting, Loaded, shape.plays, NEW c \in Channels, GetBlock(c),
         NEW i \in 0..len - 1
  PROVE  out'[c][i] = Sample(c, (fresh + i) % shape.size)
<1> DEFINE s == shape.size
           f == IF i < s - ptr THEN ptr + i ELSE i - (s - ptr)
<1>1. /\ s \in Nat \ {0} /\ s = Cycle /\ len \in 0..s
      /\ ptr \in 0..s - 1 /\ fresh \in Int /\ ptr = fresh % s
  BY ShapeFacts, NumberFacts DEF Counting
<1>2. out'[c][i] = queue[Base(c) + f]
  BY DEF GetBlock, Typed
<1>3. ptr + i \in 0..(2 * s) - 1 /\ f = IF ptr + i < s THEN ptr + i ELSE (ptr + i) - s
  BY <1>1
<1>4. f = (ptr + i) % s
  <2>1. \A x \in 0..(2 * s) - 1 : x % s = IF x < s THEN x ELSE x - s
    BY <1>1, ModSmall
  <2> QED BY <1>3, <2>1
<1>5. (ptr + i) % s = (fresh + i) % s
  BY <1>1, ModAdd
<1>6. f \in 0..s - 1
  BY <1>1, <1>3
<1> HIDE DEF f
<1>7. queue[Base(c) + f] = Sample(c, f)
  BY <1>6 DEF Loaded
<1> QED BY <1>2, <1>4, <1>5, <1>7

\* Each channel in turn delivers the next block of the loop.
LEMMA DeliveredStep == Typed /\ Counting /\ Loaded /\ Delivered /\ [Next]_vars => Delivered'
<1> SUFFICES ASSUME Typed, Counting, Loaded, Delivered, [Next]_vars,
                    shape.plays, NEW c \in Channels, NEW i \in 0..Written(c)' - 1
             PROVE  out'[c][i] = Sample(c, (fresh' + i) % shape.size)
  BY Fixtures DEF Delivered, Sample
<1>1. /\ len \in Nat /\ c \in Int
      /\ \A j \in 0..Written(c) - 1 : out[c][j] = Sample(c, (fresh + j) % shape.size)
  BY NumberFacts DEF Delivered
<1>2. CASE UNCHANGED vars \/ BlockTooLong
  BY <1>1, <1>2 DEF vars, BlockTooLong, Written
<1>3. CASE StartBlock \/ Stage \/ Reset
  <2>1. Written(c)' = 0
    BY <1>1, <1>3 DEF StartBlock, Stage, Reset, Written, Channels
  <2> QED BY <2>1
<1>4. ASSUME NEW e \in Channels, AddBlock(e) PROVE FALSE
  BY <1>4 DEF AddBlock
<1>5. ASSUME NEW e \in Channels, GetBlock(e)
      PROVE  out'[c][i] = Sample(c, (fresh' + i) % shape.size)
  <2>0. e \in Int /\ chan = e /\ len > 0
    BY <1>5, NumberFacts DEF GetBlock
  <2>1. e # shape.channels - 1 /\ chan' = e + 1 /\ len' = len /\ fresh' = fresh
    BY <1>1, <1>5, <2>0 DEF GetBlock, Written, Channels
  <2>2. c <= e /\ i \in 0..len - 1
    BY <1>1, <2>0, <2>1 DEF Written
  <2>3. CASE c = e
    BY <1>5, <2>1, <2>2, <2>3, GotBlock
  <2>4. CASE c < e
    <3>1. Written(c) = len
      BY <2>0, <2>4 DEF Written
    <3>2. out'[c] = out[c]
      BY <1>1, <1>5, <2>0, <2>4 DEF GetBlock, Typed
    <3> QED BY <1>1, <2>1, <2>2, <3>1, <3>2
  <2> QED BY <1>1, <2>0, <2>2, <2>3, <2>4
<1> QED BY <1>2, <1>3, <1>4, <1>5 DEF Next

\* With one block length, each preprocessor keeps the raw block before.
LEMMA RemembersStep == Typed /\ Counting /\ Remembers /\ [Next]_vars => Remembers'
<1> SUFFICES ASSUME Typed, Counting, Remembers, [Next]_vars,
                    Sound, ~dead', shape.filtered, NEW n \in lens, Fixed(n),
                    NEW c \in Channels, frames' + Written(c)' > 0,
                    NEW i \in 0..n - 1
             PROVE  past'[c][i] = Sample(c, frames' + Written(c)' - n + i)
  <2>1. [Next]_vars => lens' = lens
    BY Fixtures
  <2>2. [Next]_vars => \A m : Fixed(m)' = Fixed(m)
    BY <2>1 DEF Fixed
  <2> QED BY <2>1, <2>2, Fixtures DEF Remembers, Sample
<1>1. /\ len \in Nat /\ frames \in Nat /\ c \in Int /\ n \in Nat \ {0}
      /\ len > 0 => len = n
      /\ ~shape.plays
  BY ShapeFacts, NumberFacts DEF Sound, Fixed
<1>2. ~dead /\ frames + Written(c) > 0
          => past[c][i] = Sample(c, frames + Written(c) - n + i)
  BY DEF Remembers
<1>3. CASE UNCHANGED <<past, frames, chan, len, dead>>
  <2>1. Written(c)' = Written(c)
    BY <1>3 DEF Written
  <2> QED BY <1>2, <1>3, <2>1
<1>4. CASE UNCHANGED vars
  BY <1>3, <1>4 DEF vars
<1>5. CASE BlockTooLong \/ Stage \/ Reset
  BY <1>3, <1>5 DEF BlockTooLong, Stage, Reset
<1>6. CASE StartBlock
  <2>1. Written(c) = 0 /\ Written(c)' = 0
    BY <1>1, <1>6 DEF StartBlock, Written, Channels
  <2> QED BY <1>2, <1>6, <2>1 DEF StartBlock
<1>7. ASSUME NEW e \in Channels, GetBlock(e) PROVE FALSE
  BY <1>1, <1>7 DEF GetBlock
<1>8. ASSUME NEW e \in Channels, AddBlock(e)
      PROVE  past'[c][i] = Sample(c, frames' + Written(c)' - n + i)
  <2> DEFINE w == After(e, c)
  <2>1. len = n /\ chan = e /\ ~dead /\ past' = Remembered(e) /\ e \in Int
    BY <1>1, <1>8, NumberFacts DEF AddBlock
  <2>2. /\ frames' + Written(c)' = frames + w
        /\ frames' \in Int /\ Written(c)' \in Int /\ w \in Int /\ Written(c) \in Int
    <3>1. \/ frames' = frames /\ Written(c)' = w
          \/ frames' = frames + len /\ Written(c)' = 0 /\ w = len
      BY <1>8, LoopStep
    <3>2. w \in Int /\ Written(c) \in Int
      BY <1>1 DEF After, Written
    <3> QED BY <1>1, <3>1, <3>2
  <2>3. CASE c = e
    <3>1. i \in 0..len - 1 /\ i \in DOMAIN past[c]
      BY <1>1, <2>1, ShapeFacts DEF Typed
    <3>2. past'[c][i] = Source(c, i)
      BY <1>1, <2>1, <2>3, <3>1 DEF Remembered, Typed
    <3>3. Source(c, i) = Sample(c, frames + i)
      BY <3>1, SourceIsOwn
    <3>4. frames + w - n + i = frames + i
      BY <1>1, <2>1, <2>3 DEF After
    <3>5. frames' + Written(c)' - n + i = frames + w - n + i
      BY <1>1, <2>2
    <3> QED BY <3>2, <3>3, <3>4, <3>5
  <2>4. CASE c # e
    <3>1. w = Written(c)
      BY <1>1, <2>1, <2>4 DEF After, Written
    <3>2. past'[c] = past[c]
      BY <2>1, <2>4 DEF Remembered, Typed
    <3>3. frames' + Written(c)' = frames + Written(c)
      BY <2>2, <3>1
    <3>4. frames' + Written(c)' - n + i = frames + Written(c) - n + i
      BY <1>1, <2>2, <3>3
    <3> QED BY <1>2, <2>1, <3>2, <3>3, <3>4
  <2> QED BY <2>3, <2>4
<1> QED BY <1>4, <1>5, <1>6, <1>7, <1>8 DEF Next

\* Blocks of one length that size and delay are multiples of never pass the end.
LEMMA MultipleStep ==
  Typed /\ Counting /\ MultipleNeverThrows /\ [Next]_vars => MultipleNeverThrows'
<1> SUFFICES ASSUME Typed, Counting, MultipleNeverThrows, [Next]_vars,
                    NEW n \in lens, Fixed(n), shape.size % n = 0, shape.delay % n = 0
             PROVE  ~dead'
  BY Fixtures DEF MultipleNeverThrows, Fixed
<1>1. ~dead
  BY DEF MultipleNeverThrows
<1>2. CASE dead' = dead
  BY <1>1, <1>2
<1>3. ASSUME NEW c \in Channels, AddBlock(c) PROVE ~dead'
  <2>1. /\ shape.size \in Nat \ {0} /\ shape.delay \in Nat /\ Cycle = shape.size + shape.delay
        /\ n \in Nat \ {0} /\ len > 0 /\ len = n /\ len \in 0..shape.size /\ ptr \in Int
    BY <1>3, ShapeFacts, NumberFacts DEF AddBlock, Fixed
  <2>2. \A x, y \in Int : x % n = 0 /\ y % n = 0
            => (x + y) % n = 0 /\ (x - y) % n = 0 /\ n % n = 0
    BY <2>1, BlocksAdd
  <2> DEFINE gap == shape.size - n
             x == ptr + gap
             y == x % shape.size
  <2>3. Cycle % n = 0 /\ gap % n = 0 /\ gap \in Int
    <3>1. n % n = 0
      BY <2>1, <2>2
    <3>2. (shape.size + shape.delay) % n = 0
      <4>1. shape.size \in Int /\ shape.delay \in Int
        BY <2>1
      <4> QED BY <2>2, <4>1
    <3>3. gap % n = 0
      <4>1. shape.size \in Int /\ n \in Int
        BY <2>1
      <4> QED BY <2>2, <3>1, <4>1
    <3> QED BY <2>1, <3>2, <3>3
  <2>4. ptr % n = 0 /\ ~Breaks
    BY <2>1, <2>3, NoBreak
  <2> HIDE DEF gap
  <2>5. x \in Int /\ x % n = 0
    <3>1. ptr \in Int /\ gap \in Int /\ ptr % n = 0 /\ gap % n = 0
      BY <2>1, <2>3, <2>4
    <3> QED BY <2>2, <3>1
  <2> HIDE DEF x
  <2>6. y + n <= shape.size
    BY <2>1, <2>5, WholeBlocks
  <2>7. y \in Int
    BY <2>1, <2>5, Remainder
  <2>8. ~(shape.size - y < n)
    <3> HIDE DEF y
    <3> QED BY <2>1, <2>6, <2>7
  <2>9. ~Unsupported
    BY <2>1, <2>4, <2>8 DEF Unsupported, x, gap
  <2> QED BY <1>1, <1>3, <2>9 DEF AddBlock
<1>4. ~BlockTooLong
  <2>1. /\ shape.size \in Nat \ {0} /\ n \in Nat \ {0}
        /\ lens = {n}
    BY ShapeFacts DEF Fixed
  <2>2. n > shape.size => shape.size % n = shape.size
    BY <2>1, ModSmall
  <2>3. ~(n > shape.size)
    BY <2>1, <2>2
  <2> QED BY <2>1, <2>3 DEF BlockTooLong
<1> QED BY <1>2, <1>3, <1>4 DEF Next, vars, StartBlock, Stage, Reset, GetBlock

\* IInv is an invariant.
THEOREM InvCorrect == Spec => []IInv
<1>1. IInv /\ [Next]_vars => IInv'
  BY TypedStep, CountingStep, RecordedStep, LoadedStep, DeliveredStep, RemembersStep,
     MultipleStep DEF IInv
<1> QED BY <1>1, InvInit, PTL DEF Spec

\* What is in a block is a sample, or garbage: typed in any case.
LEMMA SourceTyped ==
  ASSUME Typed, Counting, NEW c \in Channels, NEW i \in 0..len - 1
  PROVE  Source(c, i) \in Cell
<1> DEFINE u == UntilEnd \div 2
           w == (c + u) + ((i - UntilEnd) * shape.channels)
<1>1. /\ c \in Int /\ i \in Int /\ frames \in Int /\ UntilEnd \in Int
      /\ shape.channels \in Nat \ {0}
  BY ShapeFacts, NumberFacts DEF UntilEnd
<1>2. u \in Int
  BY <1>1
<1>3. w \in Int
  BY <1>1, <1>2
<1> HIDE DEF u, w
<1>4. w % shape.channels \in Int /\ frames + (w \div shape.channels) \in Int
  <2>1. w % shape.channels \in 0..shape.channels - 1 /\ w \div shape.channels \in Int
    BY <1>1, <1>3, Remainder
  <2>2. w % shape.channels \in Int
    BY <1>1, <2>1
  <2> QED BY <1>1, <2>1, <2>2
<1>5. Interleaved(c, i) \in {Garbage, Sample(c, frames + i),
                             Sample(w % shape.channels, frames + (w \div shape.channels))}
  BY DEF Interleaved, u, w
<1> QED BY <1>1, <1>4, <1>5 DEF Source, Cell, Garbage, Sample

\* Every step keeps the types of what is in the ring and in the blocks.
LEMMA TypeStep == IInv /\ TypeOK /\ [Next]_vars => TypeOK'
<1> SUFFICES ASSUME IInv, TypeOK, [Next]_vars PROVE TypeOK'
  OBVIOUS
<1>1. Typed /\ Counting /\ Loaded /\ Typed' /\ Counting'
  BY TypedStep, CountingStep DEF IInv
<1>2. /\ shape' \in Shapes /\ lens' \subseteq Lengths
      /\ ptr' \in 0..Cycle' - 1
      /\ chan' \in Channels' /\ len' \in {0} \cup (lens' \cap 1..shape.size')
  <2>1. Cycle \in Nat \ {0} /\ Cycle' = Cycle
    BY <1>1, ShapeFacts, Fixtures
  <2>2. fresh' \in Int /\ ptr' = fresh' % Cycle
    BY <1>1, <2>1 DEF Typed, Counting
  <2>3. fresh' % Cycle \in 0..Cycle - 1
    BY <2>1, <2>2, Remainder
  <2>4. len' \in {0} \cup (lens' \cap 1..shape.size)
    <3>1. lens' \subseteq Nat \ {0} /\ len' \in {0} \cup lens' /\ len' <= shape'.size
      BY <1>1, ConstantsAssumption DEF Typed
    <3>2. shape' = shape /\ shape.size \in Nat
      BY <1>1, ShapeFacts, Fixtures
    <3> QED BY <3>1, <3>2
  <2>5. shape' = shape
    BY Fixtures
  <2>6. shape' \in Shapes /\ lens' \subseteq Lengths /\ chan' \in Channels'
    BY <1>1 DEF Typed
  <2> QED BY <2>1, <2>2, <2>3, <2>4, <2>5, <2>6
<1>3. /\ len \in Nat /\ frames \in Nat /\ fresh \in Nat /\ fresh <= frames
  BY <1>1, NumberFacts DEF TypeOK
<1>4. frames' \in Nat /\ fresh' \in 0..frames' /\ dead' \in BOOLEAN
  <2>1. \/ frames' = frames /\ fresh' \in {fresh, 0}
        \/ frames' = frames + len /\ fresh' = fresh + len
    BY DEF Next, vars, StartBlock, BlockTooLong, Stage, Reset, AddBlock, GetBlock
  <2>2. dead' \in {dead, TRUE}
    BY DEF Next, vars, StartBlock, BlockTooLong, Stage, Reset, AddBlock, GetBlock
  <2>3. dead \in BOOLEAN
    BY DEF TypeOK
  <2>4. frames' \in Nat /\ fresh' \in 0..frames'
    BY <1>3, <2>1
  <2>5. dead' \in BOOLEAN
    BY <2>2, <2>3
  <2> QED BY <2>4, <2>5
<1>5. \A d \in Channels : \A i \in 0..len - 1 : Source(d, i) \in Cell
  BY <1>1, SourceTyped
<1>6. queue' \in [Addresses -> Cell]
  <2>1. CASE queue' = queue
    BY <2>1 DEF TypeOK
  <2>2. ASSUME NEW c \in Channels, queue' = Copied(c) PROVE queue' \in [Addresses -> Cell]
    <3>1. SUFFICES ASSUME NEW a \in Addresses PROVE Copied(c)[a] \in Cell
      BY <2>2 DEF Copied
    <3>2. CASE \E i \in 0..len - 1 : a = Place(c, ptr + i)
      <4>1. (CHOOSE i \in 0..len - 1 : a = Place(c, ptr + i)) \in 0..len - 1
        BY <3>2
      <4> QED BY <1>5, <3>2, <4>1 DEF Copied
    <3>3. CASE ~ \E i \in 0..len - 1 : a = Place(c, ptr + i)
      <4>1. Copied(c)[a] = queue[a]
        BY <3>3 DEF Copied
      <4> QED BY <4>1 DEF TypeOK
    <3> QED BY <3>2, <3>3
  <2> QED BY <2>1, <2>2 DEF Next, vars, StartBlock, BlockTooLong, Stage, Reset, AddBlock, GetBlock
<1>7. past' \in [Channels -> [0..shape.size - 1 -> Cell]]
  <2>1. CASE past' = past
    BY <2>1 DEF TypeOK
  <2>2. ASSUME NEW c \in Channels, past' = Remembered(c)
        PROVE  past' \in [Channels -> [0..shape.size - 1 -> Cell]]
    <3>1. past \in [Channels -> [0..shape.size - 1 -> Cell]]
      BY DEF TypeOK
    <3> DEFINE f == [i \in 0..shape.size - 1 |-> IF i < len THEN Source(c, i) ELSE past[c][i]]
    <3>2. f \in [0..shape.size - 1 -> Cell]
      <4>1. SUFFICES ASSUME NEW i \in 0..shape.size - 1
                     PROVE  (IF i < len THEN Source(c, i) ELSE past[c][i]) \in Cell
        OBVIOUS
      <4>2. i < len => i \in 0..len - 1
        BY <1>1, <1>3, ShapeFacts
      <4> QED BY <1>5, <3>1, <4>2
    <3>3. past' = [past EXCEPT ![c] = f]
      BY <2>2, <3>1 DEF Remembered
    <3> QED BY <3>1, <3>2, <3>3
  <2> QED BY <2>1, <2>2 DEF Next, vars, StartBlock, BlockTooLong, Stage, Reset, AddBlock, GetBlock
<1>8. \A d \in Channels : \E n \in 0..shape.size : out'[d] \in [0..n - 1 -> Cell]
  <2>1. CASE out' = out
    BY <2>1 DEF TypeOK
  <2>2. ASSUME NEW c \in Channels, GetBlock(c), NEW d \in Channels
        PROVE  \E n \in 0..shape.size : out'[d] \in [0..n - 1 -> Cell]
    <3>1. CASE d # c
      <4>1. out'[d] = out[d]
        BY <1>1, <2>2, <3>1 DEF GetBlock, Typed
      <4> QED BY <4>1 DEF TypeOK
    <3>2. CASE d = c
      <4>1. shape.plays /\ len \in 0..shape.size
        BY <1>1, <2>2, ShapeFacts DEF GetBlock
      <4>2. DOMAIN out'[c] = 0..len - 1
            /\ out'[c] = [i \in 0..len - 1 |-> out'[c][i]]
        BY <1>1, <2>2 DEF GetBlock, Typed
      <4>3. \A i \in 0..len - 1 : out'[c][i] \in Cell
        <5>1. SUFFICES ASSUME NEW i \in 0..len - 1 PROVE out'[c][i] \in Cell
          OBVIOUS
        <5>2. out'[c][i] = Sample(c, (fresh + i) % shape.size)
          BY <1>1, <2>2, <4>1, GotBlock
        <5>3. shape.size \in Nat \ {0} /\ fresh + i \in Int
          BY <1>1, <1>3, ShapeFacts
        <5>4. (fresh + i) % shape.size \in 0..shape.size - 1
          BY <5>3, Remainder
        <5>5. (fresh + i) % shape.size \in Int
          BY <5>3, <5>4
        <5>6. c \in Int
          BY <1>1, NumberFacts
        <5> QED BY <5>2, <5>5, <5>6 DEF Sample, Cell
      <4>4. out'[c] \in [0..len - 1 -> Cell]
        BY <4>2, <4>3
      <4> QED BY <3>2, <4>1, <4>4
    <3> QED BY <3>1, <3>2
  <2> QED BY <2>1, <2>2 DEF Next, vars, StartBlock, BlockTooLong, Stage, Reset, AddBlock
<1>9. shape' = shape /\ lens' = lens /\ Addresses' = Addresses /\ Channels' = Channels
  BY Fixtures DEF Addresses
<1> QED BY <1>2, <1>4, <1>6, <1>7, <1>8, <1>9 DEF TypeOK, Cell

\* The types are kept, for every size, delay and block length.
THEOREM TypeCorrect == Spec => []TypeOK
<1>1. Init => TypeOK
  <2>1. SUFFICES ASSUME Init PROVE TypeOK
    OBVIOUS
  <2>2. Typed /\ Counting
    BY <2>1, InvInit DEF IInv
  <2>3. /\ shape.size \in Nat \ {0} /\ shape.channels \in Nat \ {0} /\ Cycle \in Nat \ {0}
        /\ ptr \in 0..Cycle - 1
    BY <2>2, ShapeFacts, NumberFacts
  <2>4. queue \in [Addresses -> Cell]
    <3>1. \A a \in Addresses : a \div shape.size \in Int /\ a % shape.size \in Int
      <4>1. \A x \in Int : x \div shape.size \in Int /\ x % shape.size \in 0..shape.size - 1
        BY <2>3, Remainder
      <4>2. Addresses \subseteq Int /\ 0..shape.size - 1 \subseteq Int
        BY DEF Addresses
      <4>3. SUFFICES ASSUME NEW a \in Addresses
                     PROVE  a \div shape.size \in Int /\ a % shape.size \in Int
        OBVIOUS
      <4> QED BY <2>3, <4>1, <4>2, <4>3
    <3> QED BY <2>1, <3>1 DEF Init, Cell, Sample, Silence
  <2>5. past \in [Channels -> [0..shape.size - 1 -> Cell]]
    BY <2>1 DEF Init, Cell, Silence
  <2>6. \A c \in Channels : \E n \in 0..shape.size : out[c] \in [0..n - 1 -> Cell]
    <3>1. <<>> \in [0..0 - 1 -> Cell] /\ 0 \in 0..shape.size
      BY <2>3
    <3> QED BY <2>1, <3>1 DEF Init
  <2>7. len \in {0} \cup (lens \cap 1..shape.size)
    BY <2>1 DEF Init
  <2>8. /\ shape \in Shapes /\ lens \subseteq Lengths /\ chan \in Channels
        /\ frames \in Nat /\ fresh \in 0..frames /\ dead \in BOOLEAN
    BY <2>1, <2>2 DEF Typed, Init
  <2> QED BY <2>3, <2>4, <2>5, <2>6, <2>7, <2>8 DEF TypeOK
<1> QED BY <1>1, TypeStep, InvCorrect, PTL DEF Spec

-----------------------------------------------------------------------------
(* The properties *)

\* Between two blocks the ring holds the latest frames of each channel, for any
\* sound setup (addBlock(), signal_buffer.h:104).
THEOREM LatestTheorem == Spec => []RingHoldsLatest
<1>1. IInv => RingHoldsLatest
  <2>1. SUFFICES ASSUME IInv, Sound, len = 0, ~dead, NEW c \in Channels,
                        NEW k \in 1..Cycle, k <= fresh
                 PROVE  queue[Place(c, ptr - k)] = Sample(c, frames - k)
    BY DEF RingHoldsLatest
  <2>2. /\ Written(c) = 0 /\ ptr \in Int /\ frames \in Int /\ fresh \in Int
        /\ Cycle \in Nat
    BY <2>1, NumberFacts, ShapeFacts DEF IInv, Written
  <2>3. queue[Place(c, ptr + Written(c) - k)] = Sample(c, frames + Written(c) - k)
    BY <2>1, <2>2 DEF IInv, Recorded
  <2>4. ptr + Written(c) - k = ptr - k /\ frames + Written(c) - k = frames - k
    BY <2>2
  <2> QED BY <2>3, <2>4
<1> QED BY <1>1, InvCorrect, PTL

\* A stream preprocessor's restriction is met by every buffer whose size and
\* delay are multiples of the driver's block (signal_buffer.h:116).
THEOREM MultipleTheorem == Spec => []MultipleNeverThrows
<1>1. IInv => MultipleNeverThrows
  BY DEF IInv
<1> QED BY <1>1, InvCorrect, PTL

\* A preprocessor is called with the block before (SignalProcessor::Process()).
THEOREM PastTheorem == Spec => PreprocessorSeesPast
<1>1. IInv /\ [Next]_vars =>
        [ \A c \in Channels :
            AddBlock(c) /\ shape.filtered /\ ~dead' /\ Sound /\ Fixed(len) /\ frames > 0
            => \A i \in 0..len - 1 : past[c][i] = Sample(c, frames - len + i) ]_vars
  <2>1. SUFFICES ASSUME IInv, NEW c \in Channels, AddBlock(c), shape.filtered, Sound,
                        Fixed(len), frames > 0, NEW i \in 0..len - 1
                 PROVE  past[c][i] = Sample(c, frames - len + i)
    OBVIOUS
  <2>2. /\ len \in lens /\ ~dead /\ Written(c) = 0 /\ frames \in Int /\ len \in Int
    BY <2>1, NumberFacts, ShapeFacts DEF IInv, Written, AddBlock
  <2>3. frames + Written(c) > 0 /\ frames + Written(c) - len + i = frames - len + i
    BY <2>1, <2>2
  <2> QED BY <2>1, <2>2, <2>3 DEF IInv, Remembers
<1> QED BY <1>1, InvCorrect, PTL DEF Spec, PreprocessorSeesPast

\* Samples are played in a loop, on every channel in step (getBlock()).
THEOREM LoopTheorem == Spec => PlaysInLoop
<1>1. IInv /\ [Next]_vars =>
        [ \A c \in Channels :
            GetBlock(c) /\ len' = 0
            => \A d \in Channels : \A i \in 0..len - 1 :
                   out'[d][i] = Sample(d, (fresh + i) % shape.size) ]_vars
  <2>1. SUFFICES ASSUME IInv, NEW c \in Channels, GetBlock(c), len' = 0,
                        NEW d \in Channels, NEW i \in 0..len - 1
                 PROVE  out'[d][i] = Sample(d, (fresh + i) % shape.size)
    OBVIOUS
  <2>2. /\ shape.plays /\ len > 0 /\ chan = c /\ c \in Int /\ d \in Int
        /\ c = shape.channels - 1
    BY <2>1, NumberFacts DEF IInv, GetBlock
  <2>3. CASE d = c
    BY <2>1, <2>2, <2>3, GotBlock DEF IInv
  <2>4. CASE d # c
    <3>1. d < c
      BY <2>2, <2>4, ShapeFacts DEF Channels, IInv
    <3>2. Written(d) = len /\ out'[d] = out[d]
      BY <2>1, <2>2, <2>4, <3>1 DEF Written, GetBlock, Typed, IInv
    <3> QED BY <2>1, <2>2, <3>2 DEF IInv, Delivered
  <2> QED BY <2>3, <2>4
<1> QED BY <1>1, InvCorrect, PTL DEF Spec, PlaysInLoop

\* With a delay of a window or more, or with none and the pointer at 0, stage()
\* copies a window of consecutive frames of each channel (signal_buffer.h:62).
THEOREM WindowTheorem == Spec => StageIsWindow
<1> DEFINE Lag == IF shape.delay = 0 THEN 0 ELSE shape.delay - shape.size
<1>1. ASSUME IInv, Stage, Sound, fresh >= Cycle,
             shape.delay >= shape.size \/ (shape.delay = 0 /\ ptr = 0),
             NEW c \in Channels, NEW k \in 1..shape.size
      PROVE  stage'[c][shape.size - k] = Sample(c, frames - Lag - k)
  <2> DEFINE s == shape.size
             i == s - k
             j == Lag + k
             r == ReadFrom
  <2>1. /\ s \in Nat \ {0} /\ shape.delay \in Nat /\ Cycle = s + shape.delay
        /\ Cycle \in Nat \ {0} /\ ptr \in 0..Cycle - 1 /\ frames \in Nat /\ fresh \in Nat
        /\ ~dead /\ Written(c) = 0
    BY <1>1, ShapeFacts, NumberFacts DEF IInv, Stage, Written
  <2>2. i \in 0..s - 1 /\ stage'[c][i] = Staged(c)[i]
    BY <1>1, <2>1 DEF Stage
  <2>3. j \in 1..Cycle /\ j <= fresh
    BY <1>1, <2>1
  <2>4. queue[Place(c, ptr - j)] = Sample(c, frames - j)
    <3>1. queue[Place(c, ptr + Written(c) - j)] = Sample(c, frames + Written(c) - j)
      BY <1>1, <2>1, <2>3 DEF IInv, Recorded
    <3>2. ptr + Written(c) - j = ptr - j /\ frames + Written(c) - j = frames - j
      BY <2>1, <2>3
    <3> QED BY <3>1, <3>2
  <2>5. Place(c, ptr - j) \in Addresses
    <3>1. ptr - j \in Int
      BY <2>1, <2>3
    <3> QED BY <1>1, <3>1, RingsApart DEF IInv, Sound
  <2>6. \A x \in 0..(2 * Cycle) - 1 : x % Cycle = IF x < Cycle THEN x ELSE x - Cycle
    BY <2>1, ModSmall
  <2>7. r = (s + ptr) % Cycle /\ r \in 0..Cycle - 1
    <3>1. s + ptr \in Int
      BY <2>1
    <3> QED BY <2>1, <3>1, Remainder DEF ReadFrom
  <2>8. (ptr - j) % Cycle = (r + i) % Cycle
    <3> DEFINE x == (s + ptr) + i
    <3>1. (r + i) % Cycle = x % Cycle
      <4>1. s + ptr \in Int /\ i \in Int
        BY <2>1, <2>2
      <4> HIDE DEF i, r
      <4> QED BY <2>1, <2>7, <4>1, ModAdd
    <3>2. \A y \in Int : (y + Cycle) % Cycle = y % Cycle
      BY <2>1, ModRound
    <3>3. CASE shape.delay >= shape.size
      <4>1. (ptr - j) + Cycle = x /\ ptr - j \in Int
        BY <2>1, <2>3, <3>3
      <4> HIDE DEF x, j
      <4> QED BY <3>1, <3>2, <4>1
    <3>4. CASE shape.delay = 0
      <4>1. ((ptr - j) + Cycle) + Cycle = x /\ ptr - j \in Int /\ (ptr - j) + Cycle \in Int
        BY <2>1, <2>3, <3>4
      <4> HIDE DEF x, j
      <4> QED BY <3>1, <3>2, <4>1
    <3> QED BY <1>1, <3>3, <3>4
  <2>9. ReadEnd = (r + s) % Cycle
    BY DEF ReadEnd
  <2>10. ReadEnd >= r \/ i < Cycle - r => r + i < Cycle
    <3>1. r + s \in 0..(2 * Cycle) - 1
      <4> HIDE DEF r
      <4> QED BY <2>1, <2>7
    <3>2. (r + s) % Cycle = IF r + s < Cycle THEN r + s ELSE (r + s) - Cycle
      <4> HIDE DEF r
      <4> QED BY <2>6, <3>1
    <3>3. s = Cycle \/ s < Cycle
      BY <2>1
    <3>4. s = Cycle => r = 0
      BY <1>1, <2>1, <2>6, <2>7
    <3> HIDE DEF r, i
    <3> QED BY <2>1, <2>2, <2>7, <2>9, <3>2, <3>3, <3>4
  <2>11. (r + i) % Cycle = IF r + i < Cycle THEN r + i ELSE (r + i) - Cycle
    <3>1. r + i \in 0..(2 * Cycle) - 1
      <4> HIDE DEF r, i
      <4> QED BY <2>1, <2>2, <2>7
    <3> HIDE DEF r, i
    <3> QED BY <2>6, <3>1
  <2>12. Staged(c)[i] = At(Place(c, ptr - j))
    <3>1. Staged(c)[i] = IF ReadEnd >= r \/ i < Cycle - r
                         THEN At(Base(c) + r + i)
                         ELSE At(Base(c) + i - (Cycle - r))
      BY <2>2 DEF Staged
    <3>2. Base(c) \in Int
      BY <2>1 DEF Base, Channels
    <3>3. Place(c, ptr - j) = Base(c) + ((r + i) % Cycle)
      BY <2>8 DEF Place
    <3> HIDE DEF r, i, j
    <3>4. CASE ReadEnd >= r \/ i < Cycle - r
      <4>1. Base(c) + r + i = Base(c) + ((r + i) % Cycle)
        BY <2>2, <2>7, <2>10, <2>11, <3>2, <3>4
      <4> QED BY <3>1, <3>3, <3>4, <4>1
    <3>5. CASE ~(ReadEnd >= r \/ i < Cycle - r)
      <4>1. r + i >= Cycle
        BY <2>1, <2>2, <2>7, <3>5
      <4>2. Base(c) + i - (Cycle - r) = Base(c) + ((r + i) % Cycle)
        BY <2>1, <2>2, <2>7, <2>11, <3>2, <4>1
      <4> QED BY <3>1, <3>3, <3>5, <4>2
    <3> QED BY <3>4, <3>5
  <2>13. frames - j = frames - Lag - k
    BY <1>1, <2>1
  <2> QED BY <2>2, <2>4, <2>5, <2>12, <2>13 DEF At
<1>2. IInv /\ [Next]_vars =>
        [ Stage /\ Sound /\ fresh >= Cycle
            /\ (shape.delay >= shape.size \/ (shape.delay = 0 /\ ptr = 0))
          => LET lag == IF shape.delay = 0 THEN 0 ELSE shape.delay - shape.size
             IN  \A c \in Channels : \A k \in 1..shape.size :
                     stage'[c][shape.size - k] = Sample(c, frames - lag - k) ]_vars
  BY <1>1
<1> QED BY <1>2, InvCorrect, PTL DEF Spec, StageIsWindow
=============================================================================
