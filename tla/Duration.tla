------------------------------ MODULE Duration ------------------------------
(* Go's time.Duration as the client computes with it: a signed integer of   *)
(* fixed width that wraps (64 bits in the code; 2 * Width values here).      *)
EXTENDS Integers

CONSTANTS
  Millisecond,   \* one millisecond in the clock's unit (10^6 in Go)
  Width          \* durations run from -Width to Width - 1 (2^63 in Go)

ASSUME DurationAssumption ==
  Millisecond \in Nat \ {0} /\ Width \in Nat \ {0}

Second == 1000 * Millisecond

\* What is left of the integer x in a Duration.
AsDuration(x) == ((x + Width) % (2 * Width)) - Width

\* time.Duration(n) * time.Second and time.Duration(n) * time.Millisecond
Seconds(n)      == AsDuration(n * Second)
Milliseconds(n) == AsDuration(n * Millisecond)

\* Whether x can be held as it is.
Fits(x) == -Width <= x /\ x < Width
=============================================================================
