------------------------------ MODULE RunEvery ------------------------------
(***************************************************************************)
(* A thread of run_every: src/lib/run_every.c.  It calls func with the     *)
(* milliseconds since the previous call began, and then sleeps out the     *)
(* interval.  The milliseconds of the monotonic clock are cast to an int,  *)
(* which wraps around after 24 days; the difference of two of them wraps   *)
(* back (overflow is taken to wrap).  No thread handles a signal, so that  *)
(* nothing cuts a sleep short.  Time passes in fractions of a millisecond, *)
(* which get_curr_time_ms drops: two readings less than a millisecond      *)
(* apart may differ by one.                                                *)
(***************************************************************************)
EXTENDS Integers

CONSTANTS
  Half,       \* an int reaches from -Half to Half - 1
  Fractions,  \* of a millisecond
  Interval,   \* interval_ms
  Durations,  \* fractions that a call of func may take
  Oversleeps, \* fractions that pass besides, in nanosleep and around it
  Longest     \* bound on one of either, in milliseconds

ASSUME RunEveryAssumption ==
  /\ Half \in Nat /\ Fractions \in Nat \ {0} /\ Interval \in Nat \ {0}
  /\ Longest \in Nat
  /\ Durations \subseteq 0..(Longest * Fractions)
  /\ Oversleeps \subseteq 0..(Longest * Fractions)
  /\ Interval + 2 * Longest < Half

VARIABLES
  phase,     \* "start", in "func", in "sleep", or "stopped"
  clock,     \* the milliseconds of the clock, as an int
  frac,      \* the fraction that get_curr_time_ms drops
  last,      \* locals of run_every
  start,
  delta,     \* delta_time, the argument of func
  sleeping,  \* sleep_time, if positive
  run,
  since      \* history: milliseconds since the last beginning of func

reVars == <<phase, clock, frac, last, start, delta, sleeping, run, since>>

MachineInt == -Half..(Half - 1)

(* The sum or the difference of two ints, as an int.                       *)
Wrap(x) == IF x >= Half THEN x - 2 * Half
           ELSE IF x < -Half THEN x + 2 * Half ELSE x

(* The loop may start at any reading of the clock, and some time after the *)
(* reading that last is made from.                                         *)
REInit ==
  /\ phase = "start"
  /\ clock \in MachineInt
  /\ frac \in 0..(Fractions - 1)
  /\ since \in Interval..(Interval + Longest)
  /\ last = Wrap(clock - since)
  /\ start = clock
  /\ delta = 0
  /\ sleeping = 0
  /\ run = TRUE

(* Time passes: some milliseconds and some fractions.                      *)
Elapse(ms, fractions) ==
  LET whole == ms + ((frac + fractions) \div Fractions)
  IN  /\ frac' = (frac + fractions) % Fractions
      /\ clock' = Wrap(clock + whole)
      /\ since' = since + whole

(* while (run): the clock is read, and func is called.                     *)
StartFunc ==
  /\ phase = "start"
  /\ run
  /\ start' = clock
  /\ delta' = Wrap(clock - last)
  /\ since' = 0
  /\ phase' = "func"
  /\ UNCHANGED <<clock, frac, last, sleeping, run>>

(* Faulty variant: the sleep allows for the previous tick instead of this  *)
(* one.                                                                    *)
FuncReturnsBlind(again) ==
  /\ phase = "func"
  /\ \E d \in Durations : Elapse(0, d)
  /\ run' = again
  /\ sleeping' = IF Interval - delta > 0 THEN Interval - delta ELSE 0
  /\ phase' = "sleep"
  /\ UNCHANGED <<last, start, delta>>

(* func returns whether it is to be called again.                          *)
FuncReturns(again) ==
  /\ phase = "func"
  /\ \E d \in Durations : Elapse(0, d)
  /\ run' = again
  /\ LET time == Interval - Wrap(clock' - start)
     IN  sleeping' = IF time > 0 THEN time ELSE 0
  /\ phase' = "sleep"
  /\ UNCHANGED <<last, start, delta>>

(* Faulty variant: the next tick is counted from the end of the sleep.     *)
WakeNow ==
  /\ phase = "sleep"
  /\ \E o \in Oversleeps : Elapse(sleeping, o)
  /\ last' = clock'
  /\ phase' = "start"
  /\ UNCHANGED <<start, delta, sleeping, run>>

(* sleep, which never returns early; then last = start.                    *)
Wake ==
  /\ phase = "sleep"
  /\ \E o \in Oversleeps : Elapse(sleeping, o)
  /\ last' = start
  /\ phase' = "start"
  /\ UNCHANGED <<start, delta, sleeping, run>>

(* The thread ends once func has returned false.                           *)
Stop ==
  /\ phase = "start"
  /\ ~run
  /\ phase' = "stopped"
  /\ UNCHANGED <<clock, frac, last, start, delta, sleeping, run, since>>

RETypeOK ==
  /\ phase \in {"start", "func", "sleep", "stopped"}
  /\ {clock, last, start, delta} \subseteq MachineInt
  /\ frac \in 0..(Fractions - 1)
  /\ sleeping \in 0..Interval
  /\ run \in BOOLEAN
  /\ since \in Nat
=============================================================================
