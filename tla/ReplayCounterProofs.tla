------------------------ MODULE ReplayCounterProofs ------------------------
(***************************************************************************)
(* The replay window accepts no counter twice, for every size of word,     *)
(* ring, u64 and unsigned long; and where an unsigned long can number      *)
(* every word (a 64-bit build) it accepts every counter that is fresh.     *)
(*                                                                         *)
(* The argument is about blocks: block b is the BitsPerLong counters       *)
(* b * BitsPerLong ..., kept in word b % Words.  The ring holds the Words  *)
(* blocks that end with the block of "counter".                            *)
(***************************************************************************)
EXTENDS ReplayCounter, TLAPS

Block(x) == x \div BitsPerLong

\* The blocks the ring holds.
Held(x) == Block(counter) - Words < Block(x) /\ Block(x) <= Block(counter)

IsSet(x) == (x % BitsPerLong) \in backtrack[Block(x) % Words]

\* What was accepted lies at or below the counter, which obeys the limit.
AcceptedBelow ==
  /\ counter <= REJECT_AFTER_MESSAGES
  /\ \A c \in accepted : c + 1 <= counter

\* The ring remembers every accepted counter whose block it holds ...
Remembers == \A c \in accepted : Held(c + 1) => IsSet(c + 1)

\* ... and nothing else.
RemembersOnly ==
  \A x \in Nat : Held(x) /\ IsSet(x) => x - 1 \in accepted

ReplayInv == ReplayTypeOK /\ AcceptedBelow /\ Remembers

WideULong == ULong * BitsPerLong >= U64

-----------------------------------------------------------------------------
(* Arithmetic.                                                              *)

LEMMA DivMod ==
  ASSUME NEW a \in Nat, NEW n \in Nat \ {0}
  PROVE  /\ a = n * (a \div n) + (a % n)
         /\ a % n \in 0 .. n - 1
         /\ a \div n \in Nat
OBVIOUS

LEMMA DivModUnique ==
  ASSUME NEW n \in Nat \ {0}, NEW q \in Int, NEW r \in 0 .. n - 1,
         NEW a \in Int, a = n * q + r
  PROVE  a \div n = q /\ a % n = r
OBVIOUS

LEMMA MulMono ==
  ASSUME NEW n \in Nat, NEW a \in Int, NEW b \in Int, a <= b
  PROVE  n * a <= n * b
OBVIOUS

LEMMA DivMono ==
  ASSUME NEW n \in Nat \ {0}, NEW a \in Nat, NEW b \in Nat, a <= b
  PROVE  a \div n <= b \div n
OBVIOUS

\* Two numbers in the same residue class are equal or at least n apart.
LEMMA ModGap ==
  ASSUME NEW n \in Nat \ {0}, NEW a \in Nat, NEW b \in Nat,
         a < b, a % n = b % n
  PROVE  a + n <= b
<1>1. /\ a = n * (a \div n) + (a % n)
      /\ b = n * (b \div n) + (b % n)
  BY DivMod
<1>2. PICK x \in Nat : x = a \div n
  BY DivMod
<1>3. PICK y \in Nat : y = b \div n
  BY DivMod
<1>4. n * x < n * y
  BY <1>1, <1>2, <1>3
<1>5. x + 1 <= y
  BY <1>4
<1>6. n * (x + 1) <= n * y
  BY <1>5, MulMono
<1>. QED
  BY <1>1, <1>2, <1>3, <1>6

\* Adding a multiple of n changes no residue.
LEMMA ModShift ==
  ASSUME NEW n \in Nat \ {0}, NEW a \in Int, NEW k \in Int,
         NEW c \in Int, c = a + n * k
  PROVE  c % n = a % n
<1>1. PICK x \in Int : x = a \div n
  OBVIOUS
<1>2. PICK r \in 0 .. n - 1 : r = a % n
  OBVIOUS
<1>3. a = n * x + r
  BY <1>1, <1>2
<1>4. PICK y \in Int : y = x + k
  OBVIOUS
<1>5. c = n * y + r
  BY <1>3, <1>4
<1>6. c % n = r
  BY ONLY <1>5, n \in Nat \ {0}, y \in Int, r \in 0 .. n - 1, c \in Int
<1>. QED
  BY <1>2, <1>6

\* Residues modulo a multiple of n can be reduced modulo n.
LEMMA ModMod ==
  ASSUME NEW n \in Nat \ {0}, NEW m \in Nat \ {0}, m % n = 0, NEW a \in Nat
  PROVE  /\ (a % m) % n = a % n
         /\ \A i \in Nat : (i + (a % m)) % n = (i + a) % n
<1>1. PICK d \in Nat : m = n * d
  <2>1. m = n * (m \div n) + (m % n) /\ m \div n \in Nat
    BY DivMod
  <2>. QED
    BY <2>1
<1>2. PICK q \in Nat : q = a \div m
  BY DivMod
<1>3. PICK r \in Nat : r = a % m
  BY DivMod
<1>4. a = m * q + r
  BY <1>2, <1>3, DivMod
<1>5. PICK e \in Nat : e = d * q
  OBVIOUS
<1>6. a = r + n * e
  BY <1>1, <1>4, <1>5
<1>7. a % n = r % n
  BY <1>6, ModShift, a \in Int, r \in Int, e \in Int, Zenon
<1>8. ASSUME NEW i \in Nat PROVE (i + r) % n = (i + a) % n
  <2>1. PICK u \in Nat : u = i + r
    OBVIOUS
  <2>2. PICK v \in Nat : v = i + a
    OBVIOUS
  <2>3. v = u + n * e
    BY <2>1, <2>2, <1>6
  <2>4. v % n = u % n
    BY <2>3, ModShift, u \in Int, v \in Int, e \in Int, Zenon
  <2>. QED
    BY <2>1, <2>2, <2>4
<1>. QED
  BY <1>3, <1>7, <1>8

LEMMA ModBelow ==
  ASSUME NEW m \in Nat \ {0}, NEW d \in Nat
  PROVE  d % m \in 0 .. d
<1>1. PICK q \in Nat : q = d \div m
  BY DivMod
<1>2. d = m * q + (d % m) /\ d % m \in Nat
  BY <1>1, DivMod
<1>3. m * q \in Nat
  BY <1>1
<1>. QED
  BY <1>2, <1>3

\* The truncated distance between two numbers is at most their distance, and
\* is their distance when that is representable.
LEMMA TruncatedDistance ==
  ASSUME NEW m \in Nat \ {0}, NEW a \in Nat, NEW b \in Nat, a <= b
  PROVE  /\ ((b % m) - (a % m)) % m \in 0 .. b - a
         /\ b < m => ((b % m) - (a % m)) % m = b - a
<1>1. PICK p \in Nat : p = a \div m
  BY DivMod
<1>2. PICK q \in Nat : q = b \div m
  BY DivMod
<1>3. PICK r \in Nat : r = a % m
  BY DivMod
<1>4. PICK s \in Nat : s = b % m
  BY DivMod
<1>5. (b - a) % m = (s - r) % m
  <2>1. a = m * p + r /\ b = m * q + s
    BY <1>1, <1>2, <1>3, <1>4, DivMod
  <2>2. PICK u \in Int : u = s - r
    OBVIOUS
  <2>3. PICK v \in Int : v = b - a
    OBVIOUS
  <2>4. PICK k \in Int : k = q - p
    OBVIOUS
  <2>5. v = u + m * k
    BY <2>1, <2>2, <2>3, <2>4
  <2>6. v % m = u % m
    BY <2>5, ModShift, Zenon
  <2>. QED
    BY <2>2, <2>3, <2>6
<1>6. (b - a) % m \in 0 .. b - a
  BY ModBelow, b - a \in Nat
<1>7. b < m => (b - a) % m = b - a
  <2>1. SUFFICES ASSUME b < m PROVE (b - a) % m = b - a
    OBVIOUS
  <2>2. b - a = m * 0 + (b - a) /\ b - a \in 0 .. m - 1
    BY <2>1
  <2>. QED
    BY <2>2, DivModUnique
<1>. QED
  BY <1>3, <1>4, <1>5, <1>6, <1>7

-----------------------------------------------------------------------------
(* The operators of counter_validate.                                       *)

USE ConstantsAssumption DEF COUNTER_BITS_TOTAL

LEMMA Sizes ==
  /\ COUNTER_WINDOW_SIZE = BitsPerLong * (Words - 1)
  /\ COUNTER_WINDOW_SIZE \in Nat
  /\ REJECT_AFTER_MESSAGES \in Nat
  /\ COUNTER_WINDOW_SIZE + REJECT_AFTER_MESSAGES + 2 = U64
<1>1. BitsPerLong * Words - BitsPerLong = BitsPerLong * (Words - 1)
  OBVIOUS
<1>2. BitsPerLong * (Words - 1) \in Nat
  OBVIOUS
<1>. QED
  BY <1>1, <1>2 DEF COUNTER_WINDOW_SIZE, REJECT_AFTER_MESSAGES

\* The u64 sum of the window check does not wrap.
LEMMA WindowCheck ==
  ASSUME NEW their \in Nat, their <= REJECT_AFTER_MESSAGES
  PROVE  BehindWindow(their) <=> COUNTER_WINDOW_SIZE + their < counter
<1>1. COUNTER_WINDOW_SIZE + their \in 0 .. U64 - 1
  BY Sizes
<1>2. COUNTER_WINDOW_SIZE + their = U64 * 0 + (COUNTER_WINDOW_SIZE + their)
  BY <1>1, Sizes
<1>3. (COUNTER_WINDOW_SIZE + their) % U64 = COUNTER_WINDOW_SIZE + their
  BY <1>1, <1>2, DivModUnique, Sizes
<1>. QED
  BY <1>3 DEF BehindWindow

LEMMA BlockType ==
  ASSUME NEW x \in Nat
  PROVE  /\ Block(x) \in Nat
         /\ x % BitsPerLong \in 0 .. BitsPerLong - 1
         /\ Block(x) % Words \in 0 .. Words - 1
         /\ x = BitsPerLong * Block(x) + (x % BitsPerLong)
BY DivMod DEF Block

LEMMA WordOfBlock ==
  ASSUME NEW x \in Nat
  PROVE  Word(x) = Block(x) % Words /\ Bit(x) = x % BitsPerLong
<1>1. PICK b \in Nat : b = Block(x)
  BY BlockType
<1>2. ULong \in Nat \ {0} /\ Words \in Nat \ {0} /\ ULong % Words = 0
  OBVIOUS
<1>3. (b % ULong) % Words = b % Words
  BY <1>2, ModMod, Zenon
<1>. QED
  BY <1>1, <1>3 DEF Word, Index, Bit, Block

\* A counter the window check lets through lies in a block that the ring holds
\* once it has been advanced.
LEMMA InWindowHeld ==
  ASSUME NEW x \in Nat, NEW y \in Nat, y <= COUNTER_WINDOW_SIZE + x
  PROVE  Block(y) - Words < Block(x)
<1>1. PICK b \in Nat : /\ b = Block(x)
                       /\ x <= BitsPerLong * b + (BitsPerLong - 1)
  <2>1. /\ Block(x) \in Nat
        /\ x % BitsPerLong \in 0 .. BitsPerLong - 1
        /\ x = BitsPerLong * Block(x) + (x % BitsPerLong)
    BY BlockType
  <2>. QED
    BY <2>1
<1>2. PICK d \in Nat : /\ d = Block(y)
                       /\ BitsPerLong * d <= y
  <2>1. /\ Block(y) \in Nat
        /\ y % BitsPerLong \in 0 .. BitsPerLong - 1
        /\ y = BitsPerLong * Block(y) + (y % BitsPerLong)
    BY BlockType
  <2>. QED
    BY <2>1
<1>3. y <= BitsPerLong * (Words - 1) + x
  BY Sizes
<1>4. BitsPerLong * d < BitsPerLong * (Words + b)
  BY <1>1, <1>2, <1>3
<1>5. d < Words + b
  BY <1>4
<1>. QED
  BY <1>1, <1>2, <1>5

LEMMA TopBound ==
  ASSUME counter \in Nat, NEW their \in Nat, counter < their
  PROVE  /\ Top(their) \in 0 .. Words
         /\ Top(their) <= Block(their) - Block(counter)
         /\ Block(their) < ULong =>
              Top(their) = Least(Block(their) - Block(counter), Words)
<1>1. PICK a \in Nat : a = Block(counter)
  BY BlockType
<1>2. PICK b \in Nat : b = Block(their)
  BY BlockType
<1>3. a <= b
  BY <1>1, <1>2, DivMono DEF Block
<1>4. /\ ((b % ULong) - (a % ULong)) % ULong \in 0 .. b - a
      /\ b < ULong => ((b % ULong) - (a % ULong)) % ULong = b - a
  BY <1>3, TruncatedDistance
<1>5. PICK d \in 0 .. b - a : d = ((b % ULong) - (a % ULong)) % ULong
  BY <1>4
<1>6. Top(their) = Least(d, Words)
  BY <1>1, <1>2, <1>5 DEF Top, Index, Block
<1>. QED
  BY <1>1, <1>2, <1>4, <1>5, <1>6 DEF Least

LEMMA ClearedBlocks ==
  ASSUME counter \in Nat, NEW their \in Nat, counter < their
  PROVE  Cleared(their) = { (i + Block(counter)) % Words : i \in 1 .. Top(their) }
<1>1. PICK a \in Nat : a = Block(counter)
  BY BlockType
<1>2. ULong \in Nat \ {0} /\ Words \in Nat \ {0} /\ ULong % Words = 0
  OBVIOUS
<1>3. \A i \in Nat : (i + (a % ULong)) % Words = (i + a) % Words
  BY <1>2, ModMod, Zenon
<1>4. Top(their) \in Nat
  BY TopBound
<1>5. \A i \in 1 .. Top(their) : (i + Index(counter)) % Words = (i + a) % Words
  <2>1. Index(counter) = a % ULong
    BY <1>1 DEF Index, Block
  <2>2. \A i \in 1 .. Top(their) : i \in Nat
    BY <1>4
  <2>. QED
    BY <1>3, <2>1, <2>2, Zenon
<1>. QED
  BY <1>1, <1>5 DEF Cleared

\* Advancing the ring clears no block it goes on holding ...
LEMMA KeepsHeld ==
  ASSUME counter \in Nat, NEW their \in Nat, NEW b \in Nat,
         b <= Block(counter), Block(their) - Words < b
  PROVE  b % Words \notin Cleared(their)
<1>1. CASE their <= counter
  BY <1>1 DEF Cleared
<1>2. CASE counter < their
  <2>1. PICK a \in Nat : a = Block(counter)
    BY BlockType
  <2>2. PICK e \in Nat : e = Block(their)
    BY BlockType
  <2>3. SUFFICES ASSUME NEW i \in 1 .. Top(their), (i + a) % Words = b % Words
                 PROVE  FALSE
    BY <1>2, <2>1, ClearedBlocks
  <2>4. i \in Nat /\ 1 <= i /\ i <= e - a
    BY <1>2, <2>1, <2>2, TopBound
  <2>5. PICK c \in Nat : c = i + a
    BY <2>4
  <2>6. b < c /\ b % Words = c % Words
    BY <2>1, <2>3, <2>4, <2>5
  <2>7. b + Words <= c
    BY <2>6, ModGap
  <2>. QED
    BY <2>2, <2>4, <2>5, <2>7
<1>. QED
  BY <1>1, <1>2

\* ... and, when no word number is truncated, clears every block it comes to
\* hold.
LEMMA ClearsNew ==
  ASSUME counter \in Nat, NEW their \in Nat, NEW b \in Nat,
         counter < their, Block(their) < ULong,
         Block(counter) < b, b <= Block(their), Block(their) - Words < b
  PROVE  b % Words \in Cleared(their)
<1>1. PICK a \in Nat : a = Block(counter)
  BY BlockType
<1>2. PICK e \in Nat : e = Block(their)
  BY BlockType
<1>3. Top(their) = Least(e - a, Words)
  BY <1>1, <1>2, TopBound
<1>4. CASE e - a <= Words
  <2>1. b - a \in 1 .. Top(their)
    BY <1>1, <1>2, <1>3, <1>4 DEF Least
  <2>2. b = (b - a) + a
    OBVIOUS
  <2>. QED
    BY <1>1, <2>1, <2>2, ClearedBlocks
<1>5. CASE Words < e - a
  <2>1. Top(their) = Words
    BY <1>3, <1>5 DEF Least
  <2>2. \E i \in 1 .. Words : (i + a) % Words = b % Words
    <3>1. PICK k \in Nat : k = b - a - 1
      BY <1>1
    <3>2. PICK q \in Nat : q = k \div Words
      BY DivMod
    <3>3. PICK r \in 0 .. Words - 1 : r = k % Words
      BY DivMod
    <3>4. k = Words * q + r
      BY <3>2, <3>3, DivMod
    <3>5. PICK c \in Int : c = (r + 1) + a
      OBVIOUS
    <3>6. b = c + Words * q
      BY <3>1, <3>4, <3>5
    <3>7. b % Words = c % Words
      BY <3>6, ModShift, b \in Int, q \in Int, Words \in Nat \ {0}, Zenon
    <3>. QED
      BY <3>5, <3>7, r + 1 \in 1 .. Words
  <2>. QED
    BY <1>1, <2>1, <2>2, ClearedBlocks
<1>. QED
  BY <1>1, <1>2, <1>4, <1>5

-----------------------------------------------------------------------------
(* Invariance.                                                              *)

LEMMA InitInv == ReplayInit => ReplayInv /\ RemembersOnly
<1>1. ASSUME ReplayInit PROVE ReplayTypeOK
  BY <1>1 DEF ReplayInit, ReplayTypeOK
<1>2. ASSUME ReplayInit PROVE AcceptedBelow /\ Remembers
  BY <1>2, Sizes DEF ReplayInit, AcceptedBelow, Remembers
<1>3. ASSUME ReplayInit PROVE RemembersOnly
  BY <1>3, BlockType DEF ReplayInit, RemembersOnly, IsSet
<1>. QED
  BY <1>1, <1>2, <1>3 DEF ReplayInv

\* What a call that passes the early exits does, in terms of blocks.
LEMMA CallFacts ==
  ASSUME ReplayInv, NEW tc \in U64Values, counter_validate(tc)
  PROVE  /\ tc \in Nat /\ tc < REJECT_AFTER_MESSAGES
         /\ counter \in Nat /\ counter' \in Nat
         /\ counter' = IF tc + 1 > counter THEN tc + 1 ELSE counter
         /\ counter' <= COUNTER_WINDOW_SIZE + (tc + 1)
         /\ Block(counter)' - Words < Block(tc + 1)
         /\ Block(tc + 1) <= Block(counter)'
         /\ Block(counter) <= Block(counter)'
         /\ backtrack' = [Advanced(tc + 1) EXCEPT
                            ![Block(tc + 1) % Words] = @ \cup {(tc + 1) % BitsPerLong}]
         /\ Advanced(tc + 1) \in [0 .. Words - 1 -> SUBSET (0 .. BitsPerLong - 1)]
<1>1. tc \in Nat /\ counter \in Nat /\ tc < REJECT_AFTER_MESSAGES
  BY Sizes DEF ReplayInv, ReplayTypeOK, U64Values, counter_validate, PastLimit
<1>2. PICK their \in Nat : their = tc + 1
  BY <1>1
<1>3. counter' = IF their > counter THEN their ELSE counter
  BY <1>2 DEF counter_validate
<1>4. counter <= COUNTER_WINDOW_SIZE + their
  BY <1>1, <1>2, WindowCheck, Sizes DEF counter_validate
<1>5. PICK c \in Nat : c = counter'
  BY <1>1, <1>3
<1>6. c <= COUNTER_WINDOW_SIZE + their /\ their <= c /\ counter <= c
  BY <1>1, <1>3, <1>4, <1>5, Sizes
<1>7. Block(c) - Words < Block(their) /\ Block(their) <= Block(c) /\ Block(counter) <= Block(c)
  BY <1>1, <1>6, InWindowHeld, DivMono DEF Block
<1>8. Block(counter)' = Block(c)
  BY <1>5 DEF Block
<1>9. backtrack' = [Advanced(their) EXCEPT
                      ![Block(their) % Words] = @ \cup {their % BitsPerLong}]
  BY <1>2, WordOfBlock DEF counter_validate
<1>10. Advanced(their) \in [0 .. Words - 1 -> SUBSET (0 .. BitsPerLong - 1)]
  BY DEF ReplayInv, ReplayTypeOK, Advanced
<1>. QED
  BY <1>1, <1>2, <1>3, <1>5, <1>6, <1>7, <1>8, <1>9, <1>10

LEMMA StepTypeOK ==
  ASSUME ReplayInv, NEW tc \in U64Values, counter_validate(tc)
  PROVE  ReplayTypeOK'
<1>1. tc + 1 \in Nat
  BY CallFacts
<1>2. (tc + 1) % BitsPerLong \in 0 .. BitsPerLong - 1
  BY <1>1, BlockType
<1>3. backtrack' \in [0 .. Words - 1 -> SUBSET (0 .. BitsPerLong - 1)]
  BY <1>2, CallFacts
<1>4. accepted' \subseteq U64Values
  BY DEF counter_validate, ReplayInv, ReplayTypeOK
<1>. QED
  BY <1>3, <1>4, CallFacts DEF ReplayTypeOK

LEMMA StepAcceptedBelow ==
  ASSUME ReplayInv, NEW tc \in U64Values, counter_validate(tc)
  PROVE  AcceptedBelow'
<1>1. accepted \subseteq Nat /\ \A c \in accepted : c + 1 <= counter
  BY DEF ReplayInv, ReplayTypeOK, AcceptedBelow, U64Values
<1>2. accepted' \subseteq accepted \cup {tc}
  BY DEF counter_validate
<1>3. /\ tc \in Nat /\ counter \in Nat /\ counter' \in Nat
      /\ tc < REJECT_AFTER_MESSAGES /\ counter <= REJECT_AFTER_MESSAGES
      /\ counter' = IF tc + 1 > counter THEN tc + 1 ELSE counter
  BY CallFacts DEF ReplayInv, AcceptedBelow
<1>4. counter' <= REJECT_AFTER_MESSAGES /\ counter <= counter' /\ tc + 1 <= counter'
  BY <1>3, Sizes
<1>5. \A c \in accepted' : c + 1 <= counter'
  BY <1>1, <1>2, <1>3, <1>4
<1>. QED
  BY <1>4, <1>5 DEF AcceptedBelow

\* The bits that are set after a call.
LEMMA SetAfter ==
  ASSUME ReplayInv, NEW tc \in U64Values, counter_validate(tc), NEW x \in Nat
  PROVE  IsSet(x)' <=>
           \/ /\ Block(x) % Words = Block(tc + 1) % Words
              /\ x % BitsPerLong = (tc + 1) % BitsPerLong
           \/ /\ Block(x) % Words \notin Cleared(tc + 1)
              /\ IsSet(x)
<1>1. Block(x) % Words \in 0 .. Words - 1
  BY BlockType
<1>2. tc + 1 \in Nat
  BY CallFacts
<1>3. Block(tc + 1) % Words \in 0 .. Words - 1
  BY <1>2, BlockType
<1>4. IsSet(x)' <=> (x % BitsPerLong) \in backtrack'[Block(x) % Words]
  BY DEF IsSet, Block
<1>5. Advanced(tc + 1)[Block(x) % Words] =
        IF Block(x) % Words \in Cleared(tc + 1) THEN {} ELSE backtrack[Block(x) % Words]
  BY <1>1 DEF Advanced
<1>6. backtrack'[Block(x) % Words] =
        IF Block(x) % Words = Block(tc + 1) % Words
        THEN Advanced(tc + 1)[Block(x) % Words] \cup {(tc + 1) % BitsPerLong}
        ELSE Advanced(tc + 1)[Block(x) % Words]
  <2>1. backtrack' = [Advanced(tc + 1) EXCEPT
                        ![Block(tc + 1) % Words] = @ \cup {(tc + 1) % BitsPerLong}]
    BY CallFacts
  <2>2. DOMAIN Advanced(tc + 1) = 0 .. Words - 1
    BY DEF Advanced
  <2>. QED
    BY <1>1, <1>3, <2>1, <2>2, Zenon
<1>. QED
  BY <1>4, <1>5, <1>6 DEF IsSet

LEMMA StepRemembers ==
  ASSUME ReplayInv, NEW tc \in U64Values, counter_validate(tc)
  PROVE  Remembers'
<1>1. SUFFICES ASSUME NEW c \in accepted', Held(c + 1)'
               PROVE  IsSet(c + 1)'
  BY DEF Remembers
<1>2. CASE c = tc
  <2>1. c + 1 \in Nat
    BY <1>2, CallFacts
  <2>. QED
    BY <1>2, <2>1, SetAfter
<1>3. CASE c \in accepted
  <2>1. PICK x \in Nat : x = c + 1
    BY <1>3 DEF ReplayInv, ReplayTypeOK, U64Values
  <2>2. x <= counter /\ counter \in Nat
    BY <1>3, <2>1, CallFacts DEF ReplayInv, AcceptedBelow
  <2>3. Block(x) \in Nat /\ Block(counter) \in Nat /\ Block(x) <= Block(counter)
    BY <2>2, BlockType, DivMono DEF Block
  <2>4. Block(counter)' - Words < Block(x)
    BY <1>1, <2>1 DEF Held, Block
  <2>5. tc + 1 \in Nat /\ Block(tc + 1) <= Block(counter)' /\ Block(counter) <= Block(counter)'
    BY CallFacts
  <2>6. Block(tc + 1) \in Nat /\ Block(counter)' \in Nat
    <3>1. counter' \in Nat
      BY CallFacts
    <3>. QED
      BY <2>5, <3>1, DivMod DEF Block
  <2>7. Block(tc + 1) - Words < Block(x) /\ Block(counter) - Words < Block(x)
    BY <2>3, <2>4, <2>5, <2>6
  <2>8. Block(x) % Words \notin Cleared(tc + 1)
    BY <2>2, <2>3, <2>5, <2>7, KeepsHeld
  <2>9. IsSet(x)
    BY <1>3, <2>1, <2>3, <2>7 DEF ReplayInv, Remembers, Held
  <2>. QED
    BY <2>1, <2>8, <2>9, SetAfter
<1>. QED
  BY <1>1, <1>2, <1>3 DEF counter_validate

LEMMA StepRemembersOnly ==
  ASSUME ReplayInv, RemembersOnly, WideULong,
         NEW tc \in U64Values, counter_validate(tc)
  PROVE  RemembersOnly'
<1>1. SUFFICES ASSUME NEW x \in Nat, Held(x)', IsSet(x)'
               PROVE  x - 1 \in accepted'
  BY DEF RemembersOnly
<1>2. PICK their \in Nat : their = tc + 1
  BY CallFacts
<1>3. PICK b \in Nat : b = Block(x)
  BY BlockType
<1>4. PICK d \in Nat : d = Block(their)
  BY BlockType
<1>5. PICK e \in Nat : e = Block(counter)
  BY BlockType, CallFacts
<1>6. PICK f \in Nat : f = Block(counter)'
  <2>1. counter' \in Nat
    BY CallFacts
  <2>. QED
    BY <2>1, DivMod DEF Block
<1>7. f - Words < b /\ b <= f /\ f - Words < d /\ d <= f /\ e <= f
  <2>1. f - Words < b /\ b <= f
    BY <1>1, <1>3, <1>6 DEF Held, Block
  <2>2. f - Words < d /\ d <= f /\ e <= f
    BY <1>2, <1>4, <1>5, <1>6, CallFacts
  <2>. QED
    BY <2>1, <2>2
\* A bit that was already set, in a word that was not cleared.
<1>8. ASSUME b % Words \notin Cleared(their), IsSet(x)
      PROVE  x - 1 \in accepted
  <2>1. CASE b <= e
    <3>1. Held(x)
      BY <1>3, <1>5, <1>7, <2>1 DEF Held
    <3>. QED
      BY <1>8, <3>1 DEF RemembersOnly
  <2>2. CASE e < b
    <3>1. counter \in Nat /\ counter < their /\ f = d
      <4>1. counter' # counter
        BY <1>5, <1>6, <1>7, <2>2 DEF Block
      <4>2. counter \in Nat /\ counter < their /\ counter' = their
        BY <1>2, <4>1, CallFacts
      <4>. QED
        BY <1>4, <1>6, <4>2 DEF Block
    <3>2. d < ULong
      <4>1. their < U64
        BY <1>2, CallFacts, Sizes
      <4>2. BitsPerLong * d <= their
        <5>1. their = BitsPerLong * d + (their % BitsPerLong) /\ their % BitsPerLong \in Nat
          BY <1>4, BlockType
        <5>2. PICK r \in Nat : r = their % BitsPerLong
          BY <5>1
        <5>. QED
          BY <5>1, <5>2
      <4>3. BitsPerLong * d < ULong * BitsPerLong
        BY <4>1, <4>2 DEF WideULong
      <4>. QED
        BY <4>3
    <3>3. b % Words \in Cleared(their)
      BY <1>4, <1>5, <1>7, <2>2, <3>1, <3>2, ClearsNew
    <3>. QED
      BY <1>8, <3>3
  <2>. QED
    BY <2>1, <2>2
\* The bit this call sets.
<1>9. ASSUME b % Words = d % Words, x % BitsPerLong = their % BitsPerLong
      PROVE  x = their
  <2>1. b = d
    <3>1. CASE b < d
      <4>1. b + Words <= d
        BY <1>9, <3>1, ModGap
      <4>. QED
        BY <1>7, <4>1
    <3>2. CASE d < b
      <4>1. d + Words <= b
        BY <1>9, <3>2, ModGap
      <4>. QED
        BY <1>7, <4>1
    <3>. QED
      BY <3>1, <3>2
  <2>2. /\ x = BitsPerLong * Block(x) + (x % BitsPerLong)
        /\ their = BitsPerLong * Block(their) + (their % BitsPerLong)
    BY BlockType
  <2>. QED
    BY <1>3, <1>4, <1>9, <2>1, <2>2
<1>10. CASE b % Words \notin Cleared(their) /\ IsSet(x)
  BY <1>8, <1>10 DEF counter_validate
<1>11. CASE /\ b % Words = d % Words /\ x % BitsPerLong = their % BitsPerLong
            /\ ~(b % Words \notin Cleared(their) /\ IsSet(x))
  <2>1. x = their
    BY <1>9, <1>11
  <2>2. BitClear(their)
    <3>1. Word(their) = Block(their) % Words /\ Bit(their) = their % BitsPerLong
      BY WordOfBlock
    <3>2. Block(their) % Words \in 0 .. Words - 1
      BY BlockType
    <3>. QED
      BY <1>3, <1>11, <2>1, <3>1, <3>2 DEF BitClear, Advanced, IsSet
  <2>3. accepted' = accepted \cup {tc}
    BY <1>2, <2>2 DEF counter_validate
  <2>4. x - 1 = tc
    BY <1>2, <2>1, CallFacts
  <2>. QED
    BY <2>3, <2>4
<1>12. \/ b % Words = d % Words /\ x % BitsPerLong = their % BitsPerLong
       \/ b % Words \notin Cleared(their) /\ IsSet(x)
  BY <1>1, <1>2, <1>3, <1>4, SetAfter
<1>. QED
  BY <1>10, <1>11, <1>12

LEMMA InvStep == ReplayInv /\ [ReplayNext]_replayvars => ReplayInv'
<1>1. SUFFICES ASSUME ReplayInv, [ReplayNext]_replayvars PROVE ReplayInv'
  OBVIOUS
<1>2. ASSUME NEW tc \in U64Values, counter_validate(tc) PROVE ReplayInv'
  BY <1>1, <1>2, StepTypeOK, StepAcceptedBelow, StepRemembers DEF ReplayInv
<1>3. ASSUME UNCHANGED replayvars PROVE ReplayInv'
  BY <1>1, <1>3 DEF ReplayInv, ReplayTypeOK, AcceptedBelow, Remembers, Held, IsSet, Block, replayvars
<1>. QED
  BY <1>1, <1>2, <1>3 DEF ReplayNext

LEMMA OnlyStep == WideULong /\ ReplayInv /\ RemembersOnly /\ [ReplayNext]_replayvars => RemembersOnly'
<1>1. SUFFICES ASSUME WideULong, ReplayInv, RemembersOnly, [ReplayNext]_replayvars PROVE RemembersOnly'
  OBVIOUS
<1>2. ASSUME NEW tc \in U64Values, counter_validate(tc) PROVE RemembersOnly'
  BY <1>1, <1>2, StepRemembersOnly
<1>3. ASSUME UNCHANGED replayvars PROVE RemembersOnly'
  BY <1>1, <1>3 DEF RemembersOnly, Held, IsSet, Block, replayvars
<1>. QED
  BY <1>1, <1>2, <1>3 DEF ReplayNext

\* The verdict on a counter the early exits let through is that of its bit in
\* the advanced ring.
LEMMA InvNoReplay == ReplayInv => NoReplay
<1>1. SUFFICES ASSUME ReplayInv, NEW c \in accepted, Returns(c) PROVE FALSE
  BY DEF NoReplay
<1>2. PICK x \in Nat : x = c + 1
  BY <1>1 DEF ReplayInv, ReplayTypeOK, U64Values
<1>3. x <= counter /\ counter \in Nat /\ counter <= REJECT_AFTER_MESSAGES
  BY <1>1, <1>2 DEF ReplayInv, AcceptedBelow, ReplayTypeOK
<1>4. counter <= COUNTER_WINDOW_SIZE + x
  BY <1>1, <1>2, <1>3, WindowCheck, Sizes DEF Returns
<1>5. /\ Block(x) \in Nat /\ Block(counter) \in Nat
      /\ Block(x) <= Block(counter) /\ Block(counter) - Words < Block(x)
  BY <1>3, <1>4, BlockType, DivMono, InWindowHeld DEF Block
<1>6. IsSet(x)
  BY <1>1, <1>2, <1>5 DEF ReplayInv, Remembers, Held
<1>7. Cleared(x) = {}
  BY <1>3 DEF Cleared
<1>8. Block(x) % Words \in 0 .. Words - 1 /\ Word(x) = Block(x) % Words /\ Bit(x) = x % BitsPerLong
  BY BlockType, WordOfBlock
<1>9. ~BitClear(x)
  BY <1>6, <1>7, <1>8 DEF BitClear, Advanced, IsSet
<1>. QED
  BY <1>1, <1>2, <1>9 DEF Returns

LEMMA InvFreshAccepted == WideULong /\ ReplayInv /\ RemembersOnly => FreshAccepted
<1>1. SUFFICES ASSUME WideULong, ReplayInv, RemembersOnly, NEW c \in U64Values,
                      c < REJECT_AFTER_MESSAGES,
                      c + 1 + COUNTER_WINDOW_SIZE >= counter,
                      c \notin accepted
               PROVE  Returns(c)
  BY DEF FreshAccepted
<1>2. PICK x \in Nat : x = c + 1
  BY DEF U64Values
<1>3. counter \in Nat /\ counter <= REJECT_AFTER_MESSAGES /\ c \in Nat
  BY <1>1 DEF ReplayInv, AcceptedBelow, ReplayTypeOK, U64Values
<1>4. ~PastLimit(c) /\ ~BehindWindow(x)
  BY <1>1, <1>2, <1>3, WindowCheck, Sizes DEF PastLimit
<1>5. PICK b \in Nat : b = Block(x)
  BY BlockType
<1>6. PICK e \in Nat : e = Block(counter)
  BY <1>3, BlockType
<1>7. b % Words \in 0 .. Words - 1 /\ Word(x) = b % Words /\ Bit(x) = x % BitsPerLong
  BY <1>5, BlockType, WordOfBlock
<1>8. CASE b <= e
  <2>1. e - Words < b
    BY <1>1, <1>2, <1>3, <1>5, <1>6, InWindowHeld, Sizes
  <2>2. ~IsSet(x)
    BY <1>1, <1>2, <1>3, <1>5, <1>6, <1>8, <2>1 DEF RemembersOnly, Held
  <2>. QED
    BY <1>2, <1>4, <1>5, <1>7, <2>2 DEF Returns, BitClear, Advanced, IsSet
<1>9. CASE e < b
  <2>1. counter < x
    BY <1>3, <1>5, <1>6, <1>9, DivMono DEF Block
  <2>2. b < ULong
    <3>1. x < U64
      BY <1>1, <1>2, <1>3, Sizes
    <3>2. BitsPerLong * b <= x
      <4>1. x = BitsPerLong * b + (x % BitsPerLong) /\ x % BitsPerLong \in Nat
        BY <1>5, BlockType
      <4>2. PICK r \in Nat : r = x % BitsPerLong
        BY <4>1
      <4>. QED
        BY <4>1, <4>2
    <3>3. BitsPerLong * b < ULong * BitsPerLong
      BY <1>1, <3>1, <3>2 DEF WideULong
    <3>. QED
      BY <3>3
  <2>3. b % Words \in Cleared(x)
    BY <1>3, <1>5, <1>6, <1>9, <2>1, <2>2, ClearsNew
  <2>. QED
    BY <1>2, <1>4, <1>7, <2>3 DEF Returns, BitClear, Advanced
<1>. QED
  BY <1>5, <1>6, <1>8, <1>9

-----------------------------------------------------------------------------
(* The theorems.                                                            *)

\* The state of the window keeps its C types (counter_validate).
THEOREM TypeCorrect == ReplaySpec => []ReplayTypeOK
<1>1. ReplayInv => ReplayTypeOK
  BY DEF ReplayInv
<1>. QED
  BY <1>1, InitInv, InvStep, PTL DEF ReplaySpec

\* counter_validate never returns true twice for one counter, for every word
\* size, ring size and integer width, a 32-bit unsigned long included.
THEOREM WindowRejectsReplays == ReplaySpec => []NoReplay
BY InitInv, InvStep, InvNoReplay, PTL DEF ReplaySpec

\* Where an unsigned long can number every word of the counter space,
\* counter_validate returns true for every counter that is inside the window
\* and was not accepted before.
THEOREM WindowAcceptsFresh == WideULong => (ReplaySpec => []FreshAccepted)
<1>1. ASSUME WideULong PROVE ReplaySpec => []FreshAccepted
  <2>1. ReplayInv /\ RemembersOnly /\ [ReplayNext]_replayvars => (ReplayInv /\ RemembersOnly)'
    BY <1>1, InvStep, OnlyStep
  <2>2. ReplayInv /\ RemembersOnly => FreshAccepted
    BY <1>1, InvFreshAccepted
  <2>. QED
    BY <2>1, <2>2, InitInv, PTL DEF ReplaySpec
<1>. QED
  BY <1>1

\* counter_validate answers exactly "neither seen nor too old", on a machine
\* whose unsigned long can number every word of the counter space.
THEOREM WindowIsExact == WideULong => (ReplaySpec => []WindowExact)
<1>1. ASSUME WideULong PROVE ReplaySpec => []WindowExact
  <2>1. NoReplay /\ FreshAccepted => WindowExact
    BY DEF WindowExact
  <2>2. ReplaySpec => []FreshAccepted
    BY <1>1, WindowAcceptsFresh
  <2>. QED
    BY <2>1, <2>2, WindowRejectsReplays, PTL
<1>. QED
  BY <1>1
=============================================================================
