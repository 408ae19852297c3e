--------------------------- MODULE ReplayCounter ---------------------------
(***************************************************************************)
(* The replay window of a receiving key (receive.c, counter_validate): the *)
(* RFC 6479 bitmap, a ring of Words words of BitsPerLong bits that is      *)
(* advanced a word at a time.  A call holds counter->receive.lock from the *)
(* first line to the last, so that one call is one step.                   *)
(***************************************************************************)
EXTENDS Integers, FiniteSets

CONSTANTS
  BitsPerLong,   \* BITS_PER_LONG
  Words,         \* COUNTER_BITS_TOTAL / BITS_PER_LONG
  U64,           \* the number of values of a u64
  ULong          \* the number of values of an unsigned long

COUNTER_BITS_TOTAL == BitsPerLong * Words

\* One word is redundant: it is the one being filled.
COUNTER_WINDOW_SIZE == COUNTER_BITS_TOTAL - BitsPerLong

REJECT_AFTER_MESSAGES == (U64 - 1) - COUNTER_WINDOW_SIZE - 1

\* Words and ULong are powers of two in the code; that the first divides the
\* second is all that masking with Words - 1 needs.
ASSUME ConstantsAssumption ==
  /\ BitsPerLong \in Nat \ {0}
  /\ Words \in Nat \ {0}
  /\ U64 \in Nat
  /\ ULong \in Nat \ {0}
  /\ ULong % Words = 0
  /\ REJECT_AFTER_MESSAGES \in Nat

VARIABLES
  counter,     \* counter.receive.counter: one more than the greatest accepted
  backtrack,   \* counter.receive.backtrack: the bits set in each word
  accepted     \* history: the counters for which the call has returned true

replayvars == <<counter, backtrack, accepted>>

U64Values == 0 .. U64 - 1

Least(a, b) == IF a <= b THEN a ELSE b

(***************************************************************************)
(* The two early exits, on the incremented counter "their".  The sum is    *)
(* one of u64 values.                                                      *)
(***************************************************************************)
PastLimit(their_counter) ==
  \/ counter >= REJECT_AFTER_MESSAGES + 1
  \/ their_counter >= REJECT_AFTER_MESSAGES

\* Deliberately wrong: the window as large as the bitmap.
BehindWindow_TooWide(their) == (COUNTER_BITS_TOTAL + their) % U64 < counter

BehindWindow(their) == (COUNTER_WINDOW_SIZE + their) % U64 < counter

\* "unsigned long index = x >> ilog2(BITS_PER_LONG)"
Index(x) == (x \div BitsPerLong) % ULong

\* How many words the loop that advances the ring clears.
Top(their) == Least((Index(their) - Index(counter)) % ULong, Words)

\* Deliberately wrong: the loop that clears words ends one word early.
Cleared_OneShort(their) ==
  IF their > counter
  THEN { (i + Index(counter)) % Words : i \in 1 .. Top(their) - 1 }
  ELSE {}

Cleared(their) ==
  IF their > counter
  THEN { (i + Index(counter)) % Words : i \in 1 .. Top(their) }
  ELSE {}

\* The ring after the loop, before the bit of "their" is tested.
Advanced(their) ==
  [w \in 0 .. Words - 1 |-> IF w \in Cleared(their) THEN {} ELSE backtrack[w]]

Word(their) == Index(their) % Words
Bit(their) == their % BitsPerLong

\* test_and_set_bit found the bit clear.
BitClear(their) == Bit(their) \notin Advanced(their)[Word(their)]

\* The value counter_validate returns for their_counter.
Returns(their_counter) ==
  /\ ~PastLimit(their_counter)
  /\ ~BehindWindow(their_counter + 1)
  /\ BitClear(their_counter + 1)

(***************************************************************************)
(* The call.                                                               *)
(***************************************************************************)
counter_validate(their_counter) ==
  LET their == their_counter + 1
  IN  /\ ~PastLimit(their_counter)
      /\ ~BehindWindow(their)
      /\ counter' = IF their > counter THEN their ELSE counter
      /\ backtrack' = [Advanced(their) EXCEPT ![Word(their)] = @ \cup {Bit(their)}]
      /\ accepted' = IF BitClear(their) THEN accepted \cup {their_counter}
                                        ELSE accepted

ReplayInit ==
  /\ counter = 0
  /\ backtrack = [w \in 0 .. Words - 1 |-> {}]
  /\ accepted = {}

ReplayNext == \E their_counter \in U64Values : counter_validate(their_counter)

ReplaySpec == ReplayInit /\ [][ReplayNext]_replayvars

-----------------------------------------------------------------------------
\* The variables hold values of their C types.
ReplayTypeOK ==
  /\ counter \in Nat
  /\ backtrack \in [0 .. Words - 1 -> SUBSET (0 .. BitsPerLong - 1)]
  /\ accepted \subseteq U64Values

\* No counter is accepted twice, however late its copy comes (wg_packet_rx_poll
\* drops the packet when counter_validate returns false).
NoReplay == \A c \in accepted : ~Returns(c)

\* A packet that is neither a copy nor older than the window is accepted: the
\* bitmap never remembers a counter that was not seen, in particular not one
\* of a previous turn of the ring.
FreshAccepted ==
  \A c \in U64Values :
    /\ c < REJECT_AFTER_MESSAGES
    /\ c + 1 + COUNTER_WINDOW_SIZE >= counter
    /\ c \notin accepted
    => Returns(c)

\* The window answers exactly "neither seen nor too old": counter_validate
\* refuses what was accepted and accepts what is fresh.
WindowExact == NoReplay /\ FreshAccepted

=============================================================================
