------------------------------- MODULE Clock --------------------------------
(***************************************************************************)
(* clock.c on x86: a cycle counter read in two words, and the counters     *)
(* that subtract what the timer interrupts cost.  The program reads the    *)
(* number of ticks (times) and the cycle counter (rdtsc) one after the     *)
(* other; an interrupt may come between any two of its steps.              *)
(*                                                                         *)
(* One round is start_counter, f, get_counter, or start_comp_counter, f,   *)
(* get_comp_counter, with the calibration that the first of these does.    *)
(***************************************************************************)
EXTENDS Integers

CONSTANTS WORD,         \* values of an unsigned int: 2^32
          THRESHOLD, RECORDTHRESH, NEVENT,
          \* The machine, in cycles:
          LOOP,         \* one round of the calibration's loop
          COST,         \* a timer interrupt
          Durations,    \* f, undisturbed
          Phases,       \* where the counter may stand when a round begins
          PERIOD,       \* rounds of the calibration's loop between interrupts
          MaxTicks      \* bound: interrupts that nobody has asked times about
                        \* yet; so long a round fits in the two words

ASSUME ClockAssumption ==
    /\ WORD \in Nat \ {0}
    /\ {RECORDTHRESH, LOOP, COST} \subseteq Nat
    /\ {THRESHOLD, NEVENT, PERIOD, MaxTicks} \subseteq Nat \ {0}
    /\ Durations \subseteq Nat
    /\ Phases \subseteq Nat
    /\ \A p \in Phases : p < WORD * WORD
    /\ \A d \in Durations : d + MaxTicks * COST < WORD * WORD

VARIABLES at,           \* the next step of the round, "off" between rounds
          tsc,          \* the processor's counter
          cyc,          \* cyc_hi and cyc_lo, of the last start_counter
          cyc_per_tick,
          ticks,        \* utime since the program last kept it
          oldt, newt, events,   \* of callibrate
          since,        \* rounds of callibrate's loop since an interrupt
          time,         \* what get_counter returned
          own, inside, gaps     \* cycles of f, interrupts between the two
                                \* readings of the counter, and outside of them
                                \* but between the two readings of the ticks

calibration == <<oldt, newt, events, since>>
disturbance == <<own, inside, gaps>>
clock_vars == <<at, tsc, cyc, cyc_per_tick, ticks, calibration, time, disturbance>>

-----------------------------------------------------------------------------
(* The counter.                                                            *)

\* access_counter: the two halves of rdtsc.
Access(n) == [hi |-> (n \div WORD) % WORD, lo |-> n % WORD]

Later(n) == (tsc + n) % (WORD * WORD)

\* A subtraction of the halves, each for itself.
Elapsed_no_borrow(from, to) ==
    ((to.hi - from.hi) % WORD) * WORD + ((to.lo - from.lo) % WORD)

\* The difference of the two readings as signed numbers.
Elapsed_signed(from, to) == (to.hi - from.hi) * WORD + (to.lo - from.lo)

\* The double precision subtraction of get_counter.
Elapsed(from, to) ==
    LET lo == (to.lo - from.lo) % WORD
        borrow == IF lo > to.lo THEN 1 ELSE 0
        hi == (to.hi - from.hi - borrow) % WORD
    IN  hi * WORD + lo

get_counter == Elapsed(cyc, Access(tsc))

start_counter == cyc' = Access(tsc)

-----------------------------------------------------------------------------
(* callibrate: watch the counter in a loop; where it jumps, ask whether    *)
(* there was a tick, and record the least cycles per tick of NEVENT jumps. *)

\* times, and on to start_counter.
callibrate ==
    /\ at = "callibrate"
    /\ at' = "cal_start"
    /\ ticks' = 0 /\ events' = 0 /\ since' = 1
    /\ UNCHANGED <<tsc, cyc, cyc_per_tick, oldt, newt, time, disturbance>>

cal_start ==
    /\ at = "cal_start"
    /\ at' = "cal_old"
    /\ start_counter
    /\ UNCHANGED <<tsc, cyc_per_tick, ticks, calibration, time, disturbance>>

cal_old ==
    /\ at = "cal_old"
    /\ at' = "cal_new"
    /\ oldt' = get_counter
    /\ UNCHANGED <<tsc, cyc, cyc_per_tick, ticks, newt, events, since, time, disturbance>>

\* The next reading of the counter.  The timer is due after PERIOD of them.
cal_new ==
    /\ at = "cal_new"
    /\ since < PERIOD
    /\ tsc' = Later(LOOP)
    /\ newt' = Elapsed(cyc, Access(tsc'))
    /\ since' = since + 1
    /\ at' = IF newt' - oldt >= THRESHOLD THEN "cal_times" ELSE "cal_new"
    /\ UNCHANGED <<cyc, cyc_per_tick, ticks, oldt, events, time, disturbance>>

\* What a jump says of a tick, a fraction rounded down.
Ratio == (newt - oldt) \div ticks

\* Any ratio is recorded if it is the least.
Recorded_any(cpt) == cyc_per_tick = 0 \/ cyc_per_tick > cpt

Recorded(cpt) ==
    (cyc_per_tick = 0 \/ cyc_per_tick > cpt) /\ cpt > RECORDTHRESH

\* A jump that no tick explains, after which the old time stays.
cal_quiet_keeps_old ==
    /\ at = "cal_times" /\ ticks = 0
    /\ at' = "cal_new"
    /\ UNCHANGED <<tsc, cyc, cyc_per_tick, ticks, calibration, time, disturbance>>

cal_quiet ==
    /\ at = "cal_times" /\ ticks = 0
    /\ at' = "cal_new"
    /\ oldt' = newt
    /\ UNCHANGED <<tsc, cyc, cyc_per_tick, ticks, newt, events, since, time, disturbance>>

\* Only what is recorded counts as an event.
cal_event_if_recorded ==
    /\ at = "cal_times" /\ ticks > 0
    /\ cyc_per_tick' = IF Recorded(Ratio) THEN Ratio ELSE cyc_per_tick
    /\ events' = IF Recorded(Ratio) THEN events + 1 ELSE events
    /\ ticks' = 0
    /\ oldt' = newt
    /\ at' = IF events' < NEVENT THEN "cal_new" ELSE "times"
    /\ UNCHANGED <<tsc, cyc, newt, since, time, disturbance>>

\* A jump with a tick.
cal_event ==
    /\ at = "cal_times" /\ ticks > 0
    /\ cyc_per_tick' = IF Recorded(Ratio) THEN Ratio ELSE cyc_per_tick
    /\ events' = events + 1
    /\ ticks' = 0
    /\ oldt' = newt
    /\ at' = IF events' < NEVENT THEN "cal_new" ELSE "times"
    /\ UNCHANGED <<tsc, cyc, newt, since, time, disturbance>>

-----------------------------------------------------------------------------
(* A round.                                                                *)

\* A round with the compensating counters or with the plain ones.
BeginRound(compensating) ==
    /\ at = "off"
    /\ at' = IF ~compensating THEN "counter"
             ELSE IF cyc_per_tick = 0 THEN "callibrate" ELSE "times"
    /\ tsc' \in Phases
    /\ UNCHANGED <<cyc, cyc_per_tick, ticks, calibration, time, disturbance>>

\* start_comp_counter that goes on with the ticks callibrate has left.
start_tick_kept ==
    /\ at = "times"
    /\ at' = "counter"
    /\ UNCHANGED <<tsc, cyc, cyc_per_tick, ticks, calibration, time, disturbance>>

\* start_tick of start_comp_counter.
start_tick ==
    /\ at = "times"
    /\ at' = "counter"
    /\ ticks' = 0
    /\ UNCHANGED <<tsc, cyc, cyc_per_tick, calibration, time, disturbance>>

start_round ==
    /\ at = "counter"
    /\ at' = "run"
    /\ start_counter
    /\ UNCHANGED <<tsc, cyc_per_tick, ticks, calibration, time, disturbance>>

run ==
    /\ at = "run"
    /\ at' = "get"
    /\ \E d \in Durations : tsc' = Later(d) /\ own' = d
    /\ UNCHANGED <<cyc, cyc_per_tick, ticks, calibration, time, inside, gaps>>

get_time ==
    /\ at = "get"
    /\ at' = "got"
    /\ time' = get_counter
    /\ UNCHANGED <<tsc, cyc, cyc_per_tick, ticks, calibration, disturbance>>

\* What get_counter or get_comp_counter returns; the latter asks for the ticks
\* now.
Measured(compensating) ==
    IF compensating THEN time - ticks * cyc_per_tick ELSE time

\* The end of a round.  Nothing but cyc_per_tick is used again.
EndRound ==
    /\ at = "got"
    /\ at' = "off"
    /\ tsc' = 0 /\ cyc' = Access(0)
    /\ ticks' = 0 /\ oldt' = 0 /\ newt' = 0 /\ events' = 0 /\ since' = 0
    /\ time' = 0 /\ own' = 0 /\ inside' = 0 /\ gaps' = 0
    /\ UNCHANGED cyc_per_tick

\* The timer: its handler takes COST cycles.  While callibrate watches, the
\* counter is read at least once between two interrupts.
Interrupt ==
    /\ at \notin {"off", "callibrate"}
    /\ ticks < MaxTicks
    /\ at \in {"cal_start", "cal_old", "cal_new", "cal_times"} => since > 0
    /\ tsc' = Later(COST)
    /\ ticks' = ticks + 1
    /\ since' = 0
    /\ inside' = IF at \in {"run", "get"} THEN inside + 1 ELSE inside
    /\ gaps' = IF at \in {"counter", "got"} THEN gaps + 1 ELSE gaps
    /\ UNCHANGED <<at, cyc, cyc_per_tick, oldt, newt, events, time, own>>

\* The steps the program takes on its own within a round.
Counting ==
    \/ callibrate \/ cal_start \/ cal_old \/ cal_new \/ cal_quiet \/ cal_event
    \/ start_tick \/ start_round \/ run \/ get_time

ClockInit ==
    /\ at = "off"
    /\ tsc = 0 /\ cyc = Access(0) /\ cyc_per_tick = 0 /\ ticks = 0
    /\ oldt = 0 /\ newt = 0 /\ events = 0 /\ since = 0
    /\ time = 0 /\ own = 0 /\ inside = 0 /\ gaps = 0

-----------------------------------------------------------------------------
(* Properties.                                                             *)

ClockTypeOK ==
    /\ at \in {"off", "callibrate", "cal_start", "cal_old", "cal_new", "cal_times",
               "times", "counter", "run", "get", "got"}
    /\ tsc \in 0 .. WORD * WORD - 1
    /\ cyc \in [hi : 0 .. WORD - 1, lo : 0 .. WORD - 1]
    /\ ticks \in 0 .. MaxTicks
    /\ {cyc_per_tick, oldt, newt, events, since, time, own, inside, gaps} \subseteq Nat

\* get_counter returns the cycles of f and of the interrupts that came between
\* the readings, wherever the counter, or its lower word, wraps.
CounterExact == at = "got" => time = own + inside * COST

\* An estimate is of one interrupt: never as little as the jumps of callibrate's
\* own loop, never more than an interrupt and the loop around it, though ticks
\* and cycles are read apart and an interrupt may fall between them.
EstimateSound ==
    \/ cyc_per_tick = 0
    \/ RECORDTHRESH < cyc_per_tick /\ cyc_per_tick < COST + THRESHOLD + LOOP

\* What get_comp_counter returns is off by no more than the error of the
\* estimate for each interrupt it has counted right, and by one estimate for
\* each that came between reading the ticks and reading the counter.
CompensationBounded ==
    at = "got" /\ cyc_per_tick > 0 =>
        LET c == time - ticks * cyc_per_tick
        IN  /\ c <= own + inside * (COST - RECORDTHRESH)
            /\ c >= own - inside * (THRESHOLD + LOOP) - gaps * (COST + THRESHOLD + LOOP)

=============================================================================
