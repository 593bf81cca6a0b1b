--------------------------- MODULE Timing_proofs ----------------------------
(***************************************************************************)
(* The two-word subtraction of get_counter is exact for every word size,   *)
(* and so is every round that is shorter than the counter; the estimate of *)
(* callibrate is of one interrupt, and bounds what compensation is off by. *)
(***************************************************************************)
EXTENDS Timing, TLAPS

-----------------------------------------------------------------------------
(* The counter.                                                            *)

LEMMA Divided ==
    ASSUME NEW w \in Nat \ {0}, NEW n \in Int
    PROVE  /\ n \div w \in Int
           /\ n % w \in 0 .. w - 1
           /\ n = w * (n \div w) + (n % w)
<1>1. n \div w \in Int
  OBVIOUS
<1>2. n % w \in 0 .. w - 1
  OBVIOUS
<1>3. n = w * (n \div w) + (n % w)
  OBVIOUS
<1> QED
  BY <1>1, <1>2, <1>3

LEMMA Remainder ==
    ASSUME NEW w \in Nat \ {0}, NEW q \in Int, NEW r \in 0 .. w - 1,
           NEW n \in Int, n = w * q + r
    PROVE  n % w = r
BY SMTT(30)

\* A number below the square of the word is its two halves.
LEMMA Halves ==
    ASSUME ClockAssumption, NEW n \in 0 .. WORD * WORD - 1
    PROVE  /\ Access(n).hi \in 0 .. WORD - 1
           /\ Access(n).lo \in 0 .. WORD - 1
           /\ n = WORD * Access(n).hi + Access(n).lo
<1> DEFINE a == n \div WORD
           b == n % WORD
<1>1. WORD \in Nat \ {0} /\ n \in Int /\ WORD * WORD \in Int
  BY DEF ClockAssumption
<1>2. a \in Int /\ b \in 0 .. WORD - 1 /\ n = WORD * a + b
  BY <1>1, Divided
<1> HIDE DEF a, b
<1>3. a >= 0
  <2>1. CASE a <= -1
    <3>1. WORD * a <= -WORD
      BY <1>1, <1>2, <2>1
    <3> QED
      BY <1>1, <1>2, <3>1
  <2> QED
    BY <1>2, <2>1
<1>4. a < WORD
  <2>1. CASE a >= WORD
    <3>1. WORD * a >= WORD * WORD
      BY <1>1, <1>2, <2>1
    <3> QED
      BY <1>1, <1>2, <3>1
  <2> QED
    BY <1>1, <1>2, <2>1
<1>5. a % WORD = a
  <2>1. a \in 0 .. WORD - 1 /\ a = WORD * 0 + a
    BY <1>1, <1>2, <1>3, <1>4
  <2> QED
    BY <1>1, <2>1, Remainder
<1>6. Access(n).hi = a /\ Access(n).lo = b
  BY <1>5 DEF Access, a, b
<1> QED
  BY <1>1, <1>2, <1>3, <1>4, <1>6

\* Adding two numbers by halves: the carry of the lower ones, and what is
\* left of the higher ones when the sum is cut to two words.
Carry(w, b, q) == IF b + q >= w THEN 1 ELSE 0

AddsUp(w, a, b, p, q, x, y, k) ==
    /\ w \in Nat \ {0} /\ k \in Int
    /\ a \in 0 .. w - 1 /\ p \in 0 .. w - 1 /\ x \in 0 .. w - 1
    /\ b \in 0 .. w - 1 /\ q \in 0 .. w - 1 /\ y \in 0 .. w - 1
    /\ (w * a + b) + (w * p + q) = (w * w) * k + (w * x + y)

LEMMA Carried ==
    ASSUME NEW w, NEW a, NEW b, NEW p, NEW q, NEW x, NEW y, NEW k,
           AddsUp(w, a, b, p, q, x, y, k)
    PROVE  /\ y = b + q - w * Carry(w, b, q)
           /\ a + p + Carry(w, b, q) = w * k + x
<1> DEFINE c == Carry(w, b, q)
<1> USE DEF AddsUp, Carry
<1> DEFINE u == b + q - w * c
           v == a + p + c
           z == w * k + x
<1>1. c \in {0, 1}
  OBVIOUS
<1>2. u \in 0 .. w - 1 /\ v \in Int /\ z \in Int
  BY <1>1
<1>3. w * v = w * a + w * p + w * c
  BY <1>1
<1>4. w * z = (w * w) * k + w * x
  OBVIOUS
<1>5. w * v + u = w * z + y
  BY <1>1, <1>3, <1>4
<1> DEFINE n == w * v + u
<1>6. n \in Int
  BY <1>2
<1>7. n % w = u /\ n % w = y
  <2>1. n = w * v + u /\ n = w * z + y
    BY <1>5
  <2>2. w \in Nat \ {0} /\ y \in 0 .. w - 1
    OBVIOUS
  <2> HIDE DEF n, u, v, z, c, AddsUp, Carry
  <2> QED
    BY <1>2, <1>6, <2>1, <2>2, Remainder
<1>8. u = y
  BY <1>7
<1>9. v = z
  <2>1. w * v = w * z
    BY <1>1, <1>2, <1>5, <1>8
  <2> HIDE DEF v, z
  <2> QED
    BY <1>2, <2>1
<1> QED
  BY <1>8, <1>9

\* get_counter returns how far the counter has gone, whether or not its lower
\* word, or both, have wrapped.
LEMMA ElapsedIsExact ==
    ASSUME ClockAssumption,
           NEW s \in 0 .. WORD * WORD - 1, NEW d \in 0 .. WORD * WORD - 1
    PROVE  Elapsed(Access(s), Access((s + d) % (WORD * WORD))) = d
<1>1. WORD \in Nat \ {0} /\ WORD * WORD \in Nat \ {0} /\ s + d \in Int
  BY DEF ClockAssumption
<1> DEFINE t == (s + d) % (WORD * WORD)
           k == (s + d) \div (WORD * WORD)
<1>2. /\ k \in Int /\ t \in 0 .. WORD * WORD - 1
      /\ s + d = (WORD * WORD) * k + t
  BY <1>1, Divided
<1> DEFINE a == Access(s).hi  b == Access(s).lo
           p == Access(d).hi  q == Access(d).lo
           x == Access(t).hi  y == Access(t).lo
           c == Carry(WORD, b, q)
<1>3. /\ a \in 0 .. WORD - 1 /\ b \in 0 .. WORD - 1 /\ s = WORD * a + b
      /\ p \in 0 .. WORD - 1 /\ q \in 0 .. WORD - 1 /\ d = WORD * p + q
      /\ x \in 0 .. WORD - 1 /\ y \in 0 .. WORD - 1 /\ t = WORD * x + y
  BY <1>2, Halves
<1>4. Access(s) = [hi |-> a, lo |-> b] /\ Access(t) = [hi |-> x, lo |-> y]
  BY DEF Access
<1>5. c = IF b + q >= WORD THEN 1 ELSE 0
  BY DEF Carry
<1> HIDE DEF t, k, a, b, p, q, x, y, c
<1>6. AddsUp(WORD, a, b, p, q, x, y, k)
  BY <1>1, <1>2, <1>3 DEF AddsUp
<1>7. y = b + q - WORD * c /\ a + p + c = WORD * k + x
  BY <1>6, Carried DEF c
<1>8. (y - b) % WORD = q
  <2>1. y - b = WORD * (-c) + q /\ -c \in Int /\ y - b \in Int
    BY <1>1, <1>3, <1>5, <1>7
  <2>2. WORD \in Nat \ {0} /\ q \in 0 .. WORD - 1
    BY <1>1, <1>3
  <2> HIDE DEF t, k
  <2> QED
    BY <2>1, <2>2, Remainder
<1>9. (IF q > y THEN 1 ELSE 0) = c
  BY <1>1, <1>3, <1>5, <1>7
<1>10. (x - a - c) % WORD = p
  <2>1. x - a - c = WORD * (-k) + p /\ -k \in Int /\ x - a - c \in Int
    BY <1>1, <1>2, <1>3, <1>5, <1>7
  <2> QED
    BY <1>1, <1>3, <2>1, Remainder
<1>11. Elapsed(Access(s), Access(t)) = p * WORD + q
  BY <1>4, <1>8, <1>9, <1>10 DEF Elapsed
<1> QED
  BY <1>1, <1>3, <1>11 DEF t

LEMMA ElapsedType ==
    ASSUME ClockAssumption,
           NEW from \in [hi : Int, lo : Int], NEW to \in [hi : Int, lo : Int]
    PROVE  Elapsed(from, to) \in Nat
<1>1. WORD \in Nat \ {0}
  BY DEF ClockAssumption
<1> DEFINE lo == (to.lo - from.lo) % WORD
           borrow == IF lo > to.lo THEN 1 ELSE 0
           hi == (to.hi - from.hi - borrow) % WORD
<1>2. borrow \in Int /\ to.hi - from.hi - borrow \in Int /\ to.lo - from.lo \in Int
  OBVIOUS
<1> HIDE DEF borrow
<1>3. lo \in 0 .. WORD - 1 /\ hi \in 0 .. WORD - 1
  BY <1>1, <1>2, Divided
<1> HIDE DEF lo, hi
<1>4. hi * WORD + lo \in Nat
  BY <1>1, <1>3
<1> QED
  BY <1>4 DEF Elapsed, hi, lo, borrow

LEMMA AccessType ==
    ASSUME ClockAssumption, NEW n \in Int
    PROVE  Access(n) \in [hi : Int, lo : Int]
<1>1. WORD \in Nat \ {0}
  BY DEF ClockAssumption
<1>2. n \div WORD \in Int /\ n % WORD \in Int
  BY <1>1, Divided
<1>3. (n \div WORD) % WORD \in Int
  BY <1>1, <1>2, Divided
<1> QED
  BY <1>2, <1>3 DEF Access

\* The counter that goes on twice has gone on once.
LEMMA Further ==
    ASSUME NEW m \in Nat \ {0}, NEW n \in Int, NEW d \in Int
    PROVE  ((n % m) + d) % m = (n + d) % m
<1> DEFINE r == n % m
           j == n \div m
           t == (r + d) % m
           k == (r + d) \div m
<1>1. r \in 0 .. m - 1 /\ j \in Int /\ n = m * j + r
  BY Divided
<1>2. t \in 0 .. m - 1 /\ k \in Int /\ r + d = m * k + t
  BY <1>1, Divided
<1> HIDE DEF r, j, t, k
<1>3. j + k \in Int /\ n + d \in Int /\ n + d = m * (j + k) + t
  BY <1>1, <1>2
<1>4. (n + d) % m = t
  <2>1. PICK q \in Int : q = j + k
    BY <1>3
  <2>2. PICK sum \in Int : sum = n + d
    BY <1>3
  <2>3. sum = m * q + t
    BY <1>3, <2>1, <2>2
  <2>4. sum % m = t
    BY <1>2, <2>3, Remainder
  <2> QED
    BY <2>2, <2>4
<1> QED
  BY <1>4 DEF t, r

-----------------------------------------------------------------------------
(* A round.                                                                *)

Counter == 0 .. WORD * WORD - 1

\* Where the counter stands: own and the interrupts inside after the start.
Underway ==
    \E s \in Counter :
        cyc = Access(s) /\ tsc = (s + (own + inside * COST)) % (WORD * WORD)

RoundInv ==
    /\ tsc \in Counter
    /\ cyc \in [hi : Int, lo : Int]
    /\ {oldt, newt, cyc_per_tick} \subseteq Int
    /\ time \in Nat /\ own \in Nat /\ inside \in Nat
    /\ ticks \in 0 .. MaxTicks /\ inside <= ticks
    /\ at \in {"run", "get"} => Underway
    /\ at \in {"get", "got"} => own \in Durations
    /\ at \notin {"get", "got"} => own = 0
    /\ at \notin {"run", "get", "got"} => inside = 0
    /\ CounterExact

LEMMA RoundInit ==
    ASSUME ClockAssumption, TimedInit
    PROVE  RoundInv
<1>1. WORD * WORD \in Nat \ {0} /\ MaxTicks \in Nat
  BY DEF ClockAssumption
<1>2. Access(0) \in [hi : Int, lo : Int]
  BY AccessType
<1> QED
  <2>1. tsc = 0 /\ 0 \in Counter
    BY <1>1 DEF TimedInit, ClockInit, Counter
  <2>2. /\ cyc \in [hi : Int, lo : Int]
        /\ {oldt, newt, cyc_per_tick} \subseteq Int
        /\ time \in Nat /\ own = 0 /\ inside = 0 /\ at = "off"
        /\ ticks \in 0 .. MaxTicks /\ inside <= ticks
    BY <1>1, <1>2 DEF TimedInit, ClockInit
  <2> QED
    BY <2>1, <2>2 DEF RoundInv, CounterExact

\* The counter after n more cycles.
LEMMA LaterType ==
    ASSUME ClockAssumption, tsc \in Int, NEW n \in Nat
    PROVE  Later(n) \in Counter
<1>1. WORD * WORD \in Nat \ {0} /\ tsc + n \in Int
  BY DEF ClockAssumption
<1> QED
  BY <1>1, Divided DEF Later, Counter

LEMMA StillUnderway ==
    ASSUME ClockAssumption, RoundInv, Underway, NEW n \in Nat,
           tsc' = Later(n), cyc' = cyc,
           own' + inside' * COST = (own + inside * COST) + n
    PROVE  Underway'
<1>1. /\ WORD * WORD \in Nat \ {0} /\ COST \in Nat
      /\ own \in Nat /\ inside \in Nat
  BY DEF ClockAssumption, RoundInv
<1>2. PICK s \in Counter :
        cyc = Access(s) /\ tsc = (s + (own + inside * COST)) % (WORD * WORD)
  BY DEF Underway
<1>3. s \in Int /\ s + (own + inside * COST) \in Int
  BY <1>1, <1>2 DEF Counter
<1>4. tsc' = ((s + (own + inside * COST)) + n) % (WORD * WORD)
  <2> DEFINE x == s + (own + inside * COST)
  <2>1. tsc' = (tsc + n) % (WORD * WORD)
    BY DEF Later
  <2>2. tsc = x % (WORD * WORD) /\ x \in Int
    BY <1>2, <1>3
  <2> HIDE DEF x
  <2>3. ((x % (WORD * WORD)) + n) % (WORD * WORD) = (x + n) % (WORD * WORD)
    BY <1>1, <2>2, Further
  <2> QED
    BY <2>1, <2>2, <2>3 DEF x
<1>5. (s + (own + inside * COST)) + n = s + (own' + inside' * COST)
  BY <1>1, <1>3
<1>6. cyc' = Access(s)'
  BY <1>2 DEF Access
<1>7. tsc' = (s + (own' + inside' * COST)) % (WORD * WORD)
  BY <1>4, <1>5
<1> QED
  BY <1>2, <1>6, <1>7 DEF Underway, Counter

\* f and its interrupts take less than the counter can count.
LEMMA RoundFits ==
    ASSUME ClockAssumption, RoundInv, at = "get"
    PROVE  own + inside * COST \in Counter
<1>1. /\ COST \in Nat /\ MaxTicks \in Nat /\ WORD * WORD \in Nat
      /\ inside \in Nat /\ inside <= MaxTicks
      /\ own \in Nat /\ own \in Durations
  BY DEF ClockAssumption, RoundInv
<1>2. own + MaxTicks * COST < WORD * WORD
  BY <1>1 DEF ClockAssumption
<1>3. inside * COST <= MaxTicks * COST /\ inside * COST \in Nat /\ MaxTicks * COST \in Nat
  BY <1>1
<1> QED
  BY <1>1, <1>2, <1>3 DEF Counter

LEMMA CalibrationKeepsRound ==
    ASSUME ClockAssumption, RoundInv,
           callibrate \/ cal_start \/ cal_old \/ cal_new \/ cal_quiet \/ cal_event
    PROVE  RoundInv'
<1>1. /\ at \notin {"run", "get", "got"} /\ at' \notin {"run", "get", "got"}
      /\ UNCHANGED <<time, own, inside, gaps>>
  BY DEF callibrate, cal_start, cal_old, cal_new, cal_quiet, cal_event, disturbance
<1>2. /\ tsc \in Int /\ own = 0 /\ inside = 0 /\ time \in Nat
      /\ 0 \in 0 .. MaxTicks /\ ticks \in 0 .. MaxTicks
      /\ cyc \in [hi : Int, lo : Int] /\ {oldt, newt, cyc_per_tick} \subseteq Int
  BY <1>1 DEF RoundInv, Counter, ClockAssumption
<1>3. tsc' \in Counter
  <2>1. CASE cal_new
    BY <1>2, <2>1, LaterType DEF cal_new, ClockAssumption
  <2>2. CASE ~cal_new
    BY <2>2 DEF RoundInv, callibrate, cal_start, cal_old, cal_quiet, cal_event
  <2> QED
    BY <2>1, <2>2
<1>4. Access(tsc) \in [hi : Int, lo : Int] /\ Access(tsc)' \in [hi : Int, lo : Int]
  <2>1. tsc' \in Int
    BY <1>3 DEF Counter
  <2> QED
    BY <1>2, <2>1, AccessType DEF Access
<1>5. cyc' \in [hi : Int, lo : Int]
  BY <1>2, <1>4 DEF callibrate, cal_start, cal_old, cal_new, cal_quiet, cal_event,
     start_counter, calibration
<1>6. {oldt', newt'} \subseteq Int
  <2>1. get_counter \in Int /\ Elapsed(cyc, Access(tsc)') \in Int
    BY <1>2, <1>4, ElapsedType DEF get_counter
  <2>2. cal_new => newt' = Elapsed(cyc, Access(tsc)')
    BY DEF cal_new, Access
  <2> QED
    BY <1>2, <2>1, <2>2 DEF callibrate, cal_start, cal_old, cal_new, cal_quiet, cal_event,
       calibration
<1>7. cyc_per_tick' \in Int /\ ticks' \in 0 .. MaxTicks
  <2>1. ticks \in Nat /\ newt - oldt \in Int
    BY <1>2
  <2>2. ticks > 0 => Ratio \in Int
    BY <2>1, Divided DEF Ratio
  <2> QED
    BY <1>2, <2>1, <2>2 DEF callibrate, cal_start, cal_old, cal_new, cal_quiet, cal_event
<1> QED
  BY <1>1, <1>2, <1>3, <1>5, <1>6, <1>7 DEF RoundInv, CounterExact

LEMMA RoundNext ==
    ASSUME ClockAssumption, RoundInv, [TimedNext]_timed_vars
    PROVE  RoundInv'
<1>1. /\ WORD * WORD \in Nat \ {0} /\ COST \in Nat /\ MaxTicks \in Nat \ {0}
      /\ tsc \in Counter /\ tsc \in Int
      /\ own \in Nat /\ inside \in Nat
  BY DEF ClockAssumption, RoundInv, Counter
<1>2. CASE begin
  <2>1. /\ at = "off" /\ at' \in {"counter", "callibrate", "times"}
        /\ tsc' \in Phases
        /\ UNCHANGED <<cyc, cyc_per_tick, ticks, calibration, time, disturbance>>
    BY <1>2 DEF begin, BeginRound
  <2>2. tsc' \in Counter
    BY <1>1, <2>1 DEF ClockAssumption, Counter
  <2> QED
    BY <2>1, <2>2 DEF RoundInv, CounterExact, calibration, disturbance
<1>3. CASE callibrate \/ cal_start \/ cal_old \/ cal_new \/ cal_quiet \/ cal_event
  BY <1>3, CalibrationKeepsRound
<1>4. CASE start_tick
  BY <1>1, <1>4 DEF start_tick, RoundInv, Counter, CounterExact, calibration, disturbance
<1>5. CASE start_round
  <2>1. /\ at = "counter" /\ at' = "run" /\ cyc' = Access(tsc)
        /\ UNCHANGED <<tsc, cyc_per_tick, ticks, calibration, time, disturbance>>
        /\ own = 0 /\ inside = 0
    BY <1>5 DEF start_round, start_counter, RoundInv
  <2>2. tsc % (WORD * WORD) = tsc
    <3>1. tsc = (WORD * WORD) * 0 + tsc /\ tsc \in 0 .. WORD * WORD - 1
      BY <1>1 DEF Counter
    <3> QED
      BY <1>1, <3>1, Remainder
  <2>3. tsc' = (tsc + (own' + inside' * COST)) % (WORD * WORD)
    BY <1>1, <2>1, <2>2 DEF disturbance
  <2>4. Underway'
    <3>1. PICK s \in Counter : s = tsc
      BY <1>1
    <3>2. cyc' = Access(s)'
      BY <2>1, <3>1 DEF Access
    <3>3. tsc' = (s + (own' + inside' * COST)) % (WORD * WORD)
      BY <2>3, <3>1
    <3> QED
      BY <3>1, <3>2, <3>3 DEF Underway, Counter
  <2>5. cyc' \in [hi : Int, lo : Int]
    BY <1>1, <2>1, AccessType
  <2> QED
    BY <2>1, <2>4, <2>5 DEF RoundInv, Counter, CounterExact, calibration, disturbance
<1>6. CASE run
  <2>1. PICK d \in Durations : tsc' = Later(d) /\ own' = d
    BY <1>6 DEF run
  <2>2. d \in Nat
    BY DEF ClockAssumption
  <2>3. /\ at = "run" /\ at' = "get" /\ own = 0
        /\ UNCHANGED <<cyc, cyc_per_tick, ticks, calibration, time, inside, gaps>>
        /\ Underway
    BY <1>6 DEF run, RoundInv
  <2>4. own' + inside' * COST = (own + inside * COST) + d
    BY <1>1, <2>1, <2>2, <2>3
  <2>5. Underway'
    BY <2>1, <2>2, <2>3, <2>4, StillUnderway
  <2>6. tsc' \in Counter
    BY <1>1, <2>1, <2>2, LaterType
  <2> QED
    BY <2>1, <2>2, <2>3, <2>5, <2>6 DEF RoundInv, Counter, CounterExact, calibration
<1>7. CASE get_time
  <2>1. /\ at = "get" /\ at' = "got" /\ time' = get_counter
        /\ UNCHANGED <<tsc, cyc, cyc_per_tick, ticks, calibration, disturbance>>
        /\ Underway
    BY <1>7 DEF get_time, RoundInv
  <2>2. PICK s \in Counter :
        cyc = Access(s) /\ tsc = (s + (own + inside * COST)) % (WORD * WORD)
    BY <2>1 DEF Underway
  <2>3. get_counter = own + inside * COST
    BY <2>1, <2>2, RoundFits, ElapsedIsExact DEF get_counter, Counter
  <2> QED
    BY <1>1, <2>1, <2>3 DEF RoundInv, Counter, CounterExact, calibration, disturbance
<1>8. CASE end
  <2>1. Access(0) \in [hi : Int, lo : Int]
    BY AccessType
  <2> QED
    BY <1>1, <1>8, <2>1 DEF end, EndRound, RoundInv, Counter, CounterExact
<1>9. CASE Timer
  <2>1. /\ at' = at /\ tsc' = Later(COST) /\ ticks' = ticks + 1 /\ ticks < MaxTicks
        /\ inside' = IF at \in {"run", "get"} THEN inside + 1 ELSE inside
        /\ UNCHANGED <<cyc, cyc_per_tick, oldt, newt, time, own>>
    BY <1>9 DEF Timer, Interrupt
  <2>2. tsc' \in Counter
    BY <1>1, <2>1, LaterType
  <2>3. at \in {"run", "get"} => Underway'
    <3> SUFFICES ASSUME at \in {"run", "get"}
                 PROVE  Underway'
      OBVIOUS
    <3>1. own' + inside' * COST = (own + inside * COST) + COST
      BY <1>1, <2>1
    <3>2. Underway
      BY DEF RoundInv
    <3> QED
      BY <1>1, <2>1, <3>1, <3>2, StillUnderway
  <2>4. /\ ticks' \in 0 .. MaxTicks /\ inside' \in Nat /\ inside' <= ticks'
        /\ at \notin {"run", "get", "got"} => inside' = 0
        /\ at = "got" => inside' = inside
    BY <1>1, <2>1 DEF RoundInv
  <2> QED
    BY <2>1, <2>2, <2>3, <2>4 DEF RoundInv, Counter, CounterExact
<1>10. CASE Program \/ Client \/ UNCHANGED timed_vars
  <2>1. UNCHANGED clock_vars
    BY <1>10 DEF Program, Client, timed_vars
  <2>2. /\ UNCHANGED <<at, tsc, cyc, cyc_per_tick, ticks, oldt, newt, time, own, inside>>
    BY <2>1 DEF clock_vars, calibration, disturbance
  <2>3. Underway => Underway'
    BY <2>2 DEF Underway, Access, Counter
  <2> QED
    BY <2>2, <2>3 DEF RoundInv, Counter, CounterExact
<1> QED
  BY <1>2, <1>3, <1>4, <1>5, <1>6, <1>7, <1>8, <1>9, <1>10
  DEF TimedNext, Working, count, Counting

\* get_counter measures f and what interrupts it, for every word size, wherever
\* the counter stands at the start, as long as the round is shorter than the
\* two words can count.
THEOREM CounterIsExact ==
    ASSUME ClockAssumption
    PROVE  TimedSpec => []CounterExact
<1>1. TimedInit => RoundInv
  BY RoundInit
<1>2. RoundInv /\ [TimedNext]_timed_vars => RoundInv'
  BY RoundNext
<1>3. RoundInv => CounterExact
  BY DEF RoundInv
<1> QED
  BY <1>1, <1>2, <1>3, PTL DEF TimedSpec

-----------------------------------------------------------------------------
(* fcyc on these counters.                                                 *)

\* What the counters return is what fcyc expects of them.
LEMMA MeasuredIsCounted ==
    ASSUME Cycles = Int, RoundInv, compensate \in BOOLEAN
    PROVE  Measured(compensate) \in Counted
<1>1. time \in Nat /\ ticks \in Int /\ cyc_per_tick \in Int
  BY DEF RoundInv
<1>2. time - ticks * cyc_per_tick \in Int
  BY <1>1
<1> QED
  BY <1>1, <1>2 DEF Measured, Counted

Flags == compensate \in BOOLEAN

LEMMA FlagsNext ==
    ASSUME Flags, [TimedNext]_timed_vars
    PROVE  Flags'
<1>1. CASE set_parameters
  BY <1>1 DEF Flags, set_parameters
<1>2. CASE UNCHANGED compensate
  BY <1>2 DEF Flags
<1> QED
  BY <1>1, <1>2 DEF TimedNext, Working, begin, count, end, Sample, Program, Client, Timer,
     init_sampler, clear_fails, clear, fcyc_return, set_cache_size, Ended,
     parameters, vars, timed_vars

\* Every step of fcyc on the counters of clock.c, interrupts included, is a
\* step of fcyc on counters that return anything, or none of its business:
\* what is proved of Fcyc holds of the two together.
THEOREM MeasuresAsFcyc ==
    ASSUME ClockAssumption, Cycles = Int
    PROVE  TimedSpec => Init /\ [][Next]_vars
<1>1. TimedInit => RoundInv /\ Flags
  BY RoundInit DEF TimedInit, Init, Flags
<1>2. RoundInv /\ Flags /\ [TimedNext]_timed_vars => (RoundInv /\ Flags)'
  BY RoundNext, FlagsNext
<1>3. RoundInv /\ Flags /\ [TimedNext]_timed_vars => [Next]_vars
  <2> SUFFICES ASSUME RoundInv, Flags, [TimedNext]_timed_vars
               PROVE  [Next]_vars
    OBVIOUS
  <2>1. CASE end
    BY <2>1, MeasuredIsCounted DEF end, Flags, sample, Measure, Next
  <2>2. CASE Program \/ Client
    BY <2>2 DEF Program, Client, Measure, Next
  <2>3. CASE UNCHANGED vars
    BY <2>3
  <2> QED
    BY <2>1, <2>2, <2>3 DEF TimedNext, Working, begin, count, Timer, timed_vars
<1>4. TimedInit => Init
  BY DEF TimedInit
<1> QED
  BY <1>1, <1>2, <1>3, <1>4, PTL DEF TimedSpec

-----------------------------------------------------------------------------
(* The calibration.                                                        *)

\* cyc is what the counter once was.
WasRead == \E s \in Counter : cyc = Access(s)

\* n cycles later the difference is at most n greater: less, if it has wrapped.
LEMMA WentOn ==
    ASSUME ClockAssumption, NEW s \in Counter, NEW t \in Counter, NEW n \in Nat
    PROVE  /\ Elapsed(Access(s), Access(t)) \in Nat
           /\ Elapsed(Access(s), Access((t + n) % (WORD * WORD))) \in Nat
           /\ Elapsed(Access(s), Access((t + n) % (WORD * WORD)))
                <= Elapsed(Access(s), Access(t)) + n
<1> DEFINE M == WORD * WORD
<1>1. M \in Nat \ {0} /\ s \in Int /\ t \in 0 .. M - 1
  BY DEF ClockAssumption, Counter
<1> HIDE DEF M
<1>2. ASSUME NEW d \in 0 .. M - 1
      PROVE  Elapsed(Access(s), Access((s + d) % M)) = d
  BY <1>2, ElapsedIsExact DEF M, Counter
<1> DEFINE d == (t - s) % M
           e == (d + n) % M
<1>3. d \in 0 .. M - 1
  BY <1>1, Divided
<1>4. d + n \in Int /\ e \in 0 .. M - 1
  BY <1>1, <1>3, Divided
<1>5. e <= d + n
  <2>1. (d + n) \div M \in Int /\ d + n = M * ((d + n) \div M) + e
    BY <1>1, <1>4, Divided
  <2> DEFINE q == (d + n) \div M
  <2> HIDE DEF q, e, d
  <2>2. q \in Int /\ M * q \in Int /\ d + n = M * q + e
    BY <1>1, <2>1 DEF q
  <2>3. q >= 0
    <3>1. CASE q <= -1
      <4>1. M * q <= -M
        BY <1>1, <2>2, <3>1
      <4> QED
        BY <1>1, <1>3, <1>4, <2>2, <4>1
    <3> QED
      BY <2>2, <3>1
  <2>4. M * q >= 0
    BY <1>1, <2>2, <2>3
  <2> QED
    BY <1>3, <1>4, <2>2, <2>4
<1>6. (s + d) % M = t
  <2>1. t - s \in Int /\ (d + s) % M = ((t - s) + s) % M
    <3>1. PICK x \in Int : x = t - s
      BY <1>1
    <3>2. ((x % M) + s) % M = (x + s) % M
      BY <1>1, Further
    <3>3. d = x % M
      BY <3>1
    <3> HIDE DEF d
    <3> QED
      BY <1>1, <3>1, <3>2, <3>3
  <2>2. s + d = d + s /\ (t - s) + s = t
    BY <1>1, <1>3
  <2>3. t = M * 0 + t
    BY <1>1
  <2>4. t % M = t
    BY <1>1, <2>3, Remainder
  <2> QED
    BY <2>1, <2>2, <2>4
<1>7. (s + e) % M = (t + n) % M
  <2> HIDE DEF d
  <2>1. (e + s) % M = ((d + n) + s) % M
    BY <1>1, <1>4, Further
  <2>2. (t + n) % M = ((s + d) + n) % M
    <3>1. PICK y \in Int : y = s + d
      BY <1>1, <1>3
    <3> HIDE DEF e
    <3>2. ((y % M) + n) % M = (y + n) % M
      <4>1. PICK k \in Int : k = n
        OBVIOUS
      <4>2. ((y % M) + k) % M = (y + k) % M
        BY <1>1, Further
      <4> QED
        BY <4>1, <4>2
    <3> QED
      BY <1>6, <3>1, <3>2 DEF e
  <2>3. s + e = e + s /\ (d + n) + s = (s + d) + n
    BY <1>1, <1>3, <1>4
  <2> QED
    BY <2>1, <2>2, <2>3
<1> HIDE DEF d, e
<1>8. Elapsed(Access(s), Access(t)) = d
  BY <1>2, <1>3, <1>6
<1>9. Elapsed(Access(s), Access((t + n) % M)) = e
  BY <1>2, <1>4, <1>7
<1>10. d \in Nat /\ e \in Nat /\ e <= d + n
  BY <1>1, <1>3, <1>4, <1>5
<1> QED
  BY <1>8, <1>9, <1>10 DEF M

\* The interrupt that the loop of callibrate has not yet seen in the counter.
Unseen == IF since = 0 THEN COST ELSE 0

\* How far the counter may be ahead of oldt, and of newt.
CalibrationInv ==
    /\ WasRead
    /\ {oldt, newt, events, since, cyc_per_tick} \subseteq Nat
    /\ at = "cal_new" => get_counter < oldt + THRESHOLD + Unseen
    /\ at = "cal_times" => /\ newt < oldt + COST + THRESHOLD + LOOP
                           /\ get_counter <= newt + Unseen
    /\ EstimateSound

\* A jump divided by its ticks is no more than the jump.
LEMMA RatioBounded ==
    ASSUME NEW n \in Nat \ {0}, NEW x \in Int, x \div n > 0
    PROVE  x \div n \in Nat /\ x \div n <= x
<1> DEFINE q == x \div n
<1>1. q \in Int /\ x % n \in 0 .. n - 1 /\ x = n * q + (x % n)
  BY Divided
<1>2. PICK r \in Nat : x = n * q + r
  BY <1>1
<1> HIDE DEF q
<1>3. q > 0 => n * q >= q
  BY <1>1
<1> QED
  BY <1>1, <1>2, <1>3 DEF q

\* n cycles after a state, by the counter as it is read in the next one.
LEMMA CounterLater ==
    ASSUME ClockAssumption, WasRead, tsc \in Counter, NEW n \in Nat,
           tsc' = Later(n), cyc' = cyc
    PROVE  /\ get_counter \in Nat /\ get_counter' \in Nat
           /\ get_counter' <= get_counter + n
<1>1. PICK s \in Counter : cyc = Access(s)
  BY DEF WasRead
<1>2. /\ Elapsed(Access(s), Access(tsc)) \in Nat
      /\ Elapsed(Access(s), Access((tsc + n) % (WORD * WORD))) \in Nat
      /\ Elapsed(Access(s), Access((tsc + n) % (WORD * WORD)))
           <= Elapsed(Access(s), Access(tsc)) + n
  BY <1>1, WentOn
<1>3. get_counter = Elapsed(Access(s), Access(tsc))
  BY <1>1 DEF get_counter
<1>4. get_counter' = Elapsed(Access(s), Access((tsc + n) % (WORD * WORD)))
  BY <1>1 DEF get_counter, Later, Elapsed, Access
<1> QED
  BY <1>2, <1>3, <1>4

\* A reading now is a number.
LEMMA CounterNow ==
    ASSUME ClockAssumption, WasRead, tsc \in Counter
    PROVE  get_counter \in Nat
<1>1. PICK s \in Counter : cyc = Access(s)
  BY DEF WasRead
<1>2. Elapsed(Access(s), Access(tsc)) \in Nat
  BY <1>1, WentOn
<1> QED
  BY <1>1, <1>2 DEF get_counter

LEMMA CalibrationInit ==
    ASSUME ClockAssumption, TimedInit
    PROVE  CalibrationInv
<1>1. 0 \in Counter
  BY DEF ClockAssumption, Counter
<1>2. cyc = Access(0) /\ at = "off"
      /\ oldt = 0 /\ newt = 0 /\ events = 0 /\ since = 0 /\ cyc_per_tick = 0
  BY DEF TimedInit, ClockInit
<1> QED
  BY <1>1, <1>2 DEF CalibrationInv, WasRead, EstimateSound

LEMMA CalibrationNext ==
    ASSUME ClockAssumption, RoundInv, CalibrationInv, [TimedNext]_timed_vars
    PROVE  CalibrationInv'
<1>1. /\ COST \in Nat /\ LOOP \in Nat /\ RECORDTHRESH \in Nat
      /\ THRESHOLD \in Nat \ {0} /\ MaxTicks \in Nat
  BY DEF ClockAssumption
<1>2. /\ tsc \in Counter /\ ticks \in Nat
      /\ {oldt, newt, events, since, cyc_per_tick} \subseteq Nat
      /\ WasRead /\ EstimateSound
  BY <1>1 DEF RoundInv, CalibrationInv
<1>3. get_counter \in Nat /\ Unseen \in Nat /\ Unseen <= COST
  BY <1>1, <1>2, CounterNow DEF Unseen
<1>4. cyc' = cyc => WasRead'
  BY <1>2 DEF WasRead, Counter, Access
<1>5. cyc' = Access(tsc) => WasRead'
  BY <1>2 DEF WasRead, Counter, Access
<1>6. cyc_per_tick' = cyc_per_tick => EstimateSound'
  BY <1>2 DEF EstimateSound
<1>7. UNCHANGED <<cyc, tsc>> => get_counter' = get_counter
  BY DEF get_counter, Elapsed, Access
<1>8. CASE UNCHANGED clock_vars
  <2>1. UNCHANGED <<at, tsc, cyc, cyc_per_tick, oldt, newt, events, since>>
    BY <1>8 DEF clock_vars, calibration
  <2>2. Unseen' = Unseen
    BY <2>1 DEF Unseen
  <2> QED
    BY <1>4, <1>6, <1>7, <2>1, <2>2 DEF CalibrationInv
<1>9. CASE callibrate
  <2>1. /\ at' = "cal_start" /\ events' = 0 /\ since' = 1
        /\ UNCHANGED <<cyc, cyc_per_tick, oldt, newt>>
    BY <1>9 DEF callibrate
  <2> QED
    BY <1>2, <1>4, <1>6, <2>1 DEF CalibrationInv
<1>10. CASE cal_start \/ start_round
  <2>1. /\ at' \in {"cal_old", "run"} /\ cyc' = Access(tsc)
        /\ UNCHANGED <<cyc_per_tick, oldt, newt, events, since>>
    BY <1>10 DEF cal_start, start_round, start_counter, calibration
  <2> QED
    BY <1>2, <1>5, <1>6, <2>1 DEF CalibrationInv
<1>11. CASE cal_old
  <2>1. /\ at' = "cal_new" /\ oldt' = get_counter
        /\ UNCHANGED <<tsc, cyc, cyc_per_tick, newt, events, since>>
    BY <1>11 DEF cal_old
  <2>2. Unseen' = Unseen
    BY <2>1 DEF Unseen
  <2>3. get_counter' < oldt' + THRESHOLD + Unseen'
    BY <1>1, <1>3, <1>7, <2>1, <2>2
  <2> QED
    BY <1>2, <1>3, <1>4, <1>6, <2>1, <2>3 DEF CalibrationInv
<1>12. CASE cal_new
  <2>1. /\ at = "cal_new" /\ tsc' = Later(LOOP) /\ since' = since + 1
        /\ newt' = get_counter'
        /\ at' = IF newt' - oldt >= THRESHOLD THEN "cal_times" ELSE "cal_new"
        /\ UNCHANGED <<cyc, cyc_per_tick, oldt, events>>
    BY <1>12 DEF cal_new, get_counter, Elapsed, Access
  <2>2. get_counter' \in Nat /\ get_counter' <= get_counter + LOOP
    BY <1>1, <1>2, <2>1, CounterLater
  <2>3. get_counter < oldt + THRESHOLD + Unseen
    BY <2>1 DEF CalibrationInv
  <2>4. Unseen' = 0
    BY <1>2, <2>1 DEF Unseen
  <2>5. newt' < oldt' + COST + THRESHOLD + LOOP
    BY <1>1, <1>2, <1>3, <2>1, <2>2, <2>3
  <2>6. at' = "cal_new" => get_counter' < oldt' + THRESHOLD + Unseen'
    BY <1>1, <1>2, <2>1, <2>2, <2>4
  <2>7. get_counter' <= newt' + Unseen'
    <3>1. PICK r \in Nat : r = get_counter'
      BY <2>2
    <3>2. r <= r + 0
      OBVIOUS
    <3> QED
      BY <2>1, <2>4, <3>1, <3>2
  <2> QED
    BY <1>2, <1>4, <1>6, <2>1, <2>2, <2>5, <2>6, <2>7 DEF CalibrationInv
<1>13. CASE cal_quiet
  <2>1. /\ at = "cal_times" /\ at' = "cal_new" /\ oldt' = newt
        /\ UNCHANGED <<tsc, cyc, cyc_per_tick, newt, events, since>>
    BY <1>13 DEF cal_quiet
  <2>2. Unseen' = Unseen /\ get_counter <= newt + Unseen
    BY <2>1 DEF Unseen, CalibrationInv
  <2>3. get_counter' < oldt' + THRESHOLD + Unseen'
    BY <1>1, <1>2, <1>3, <1>7, <2>1, <2>2
  <2> QED
    BY <1>2, <1>4, <1>6, <2>1, <2>3 DEF CalibrationInv
<1>14. CASE cal_event
  <2>1. /\ at = "cal_times" /\ at' \in {"cal_new", "times"} /\ oldt' = newt
        /\ events' = events + 1 /\ ticks > 0
        /\ cyc_per_tick' = IF Recorded(Ratio) THEN Ratio ELSE cyc_per_tick
        /\ UNCHANGED <<tsc, cyc, newt, since>>
    BY <1>14 DEF cal_event
  <2>2. Unseen' = Unseen /\ get_counter <= newt + Unseen
        /\ newt < oldt + COST + THRESHOLD + LOOP
    BY <2>1 DEF Unseen, CalibrationInv
  <2>3. get_counter' < oldt' + THRESHOLD + Unseen'
    BY <1>1, <1>2, <1>3, <1>7, <2>1, <2>2
  <2>4. EstimateSound' /\ cyc_per_tick' \in Nat
    <3>1. CASE Recorded(Ratio)
      <4>1. Ratio > RECORDTHRESH /\ cyc_per_tick' = Ratio
        BY <2>1, <3>1 DEF Recorded
      <4>2. ticks \in Nat \ {0} /\ newt - oldt \in Int
        BY <1>2, <2>1
      <4>3. (newt - oldt) \div ticks \in Int
        BY <4>2, Divided
      <4>4. (newt - oldt) \div ticks > 0
        BY <1>1, <4>1, <4>3 DEF Ratio
      <4>5. Ratio \in Nat /\ Ratio <= newt - oldt
        BY <4>2, <4>4, RatioBounded DEF Ratio
      <4>6. Ratio < COST + THRESHOLD + LOOP
        BY <1>1, <1>2, <2>2, <4>5
      <4> QED
        BY <4>1, <4>5, <4>6 DEF EstimateSound
    <3>2. CASE ~Recorded(Ratio)
      BY <1>2, <1>6, <2>1, <3>2
    <3> QED
      BY <3>1, <3>2
  <2> QED
    BY <1>2, <1>4, <2>1, <2>3, <2>4 DEF CalibrationInv
<1>15. CASE begin \/ start_tick \/ run \/ get_time
  <2>1. /\ at' \notin {"cal_new", "cal_times"}
        /\ UNCHANGED <<cyc, cyc_per_tick, oldt, newt, events, since>>
    BY <1>15 DEF begin, BeginRound, start_tick, run, get_time, calibration
  <2> QED
    BY <1>2, <1>4, <1>6, <2>1 DEF CalibrationInv
<1>16. CASE end
  <2>1. /\ at' = "off" /\ cyc' = Access(0) /\ cyc_per_tick' = cyc_per_tick
        /\ oldt' = 0 /\ newt' = 0 /\ events' = 0 /\ since' = 0
    BY <1>16 DEF end, EndRound
  <2>2. WasRead'
    <3>1. 0 \in Counter
      BY DEF ClockAssumption, Counter
    <3> QED
      BY <2>1, <3>1 DEF WasRead, Counter, Access
  <2> QED
    BY <1>2, <1>6, <2>1, <2>2 DEF CalibrationInv
<1>17. CASE Timer
  <2>1. /\ at' = at /\ tsc' = Later(COST) /\ since' = 0
        /\ at \in {"cal_new", "cal_times"} => since > 0
        /\ UNCHANGED <<cyc, cyc_per_tick, oldt, newt, events>>
    BY <1>17 DEF Timer, Interrupt
  <2>2. get_counter' \in Nat /\ get_counter' <= get_counter + COST
    BY <1>1, <1>2, <2>1, CounterLater
  <2>3. at \in {"cal_new", "cal_times"} => Unseen = 0
    BY <1>2, <2>1 DEF Unseen
  <2>4. Unseen' = COST
    BY <2>1 DEF Unseen
  <2>5. at = "cal_new" => get_counter' < oldt + THRESHOLD + COST
    <3>1. at = "cal_new" => get_counter < oldt + THRESHOLD + Unseen
      BY DEF CalibrationInv
    <3> QED
      BY <1>1, <1>2, <1>3, <2>2, <2>3, <3>1
  <2>6. at = "cal_times" => /\ newt < oldt + COST + THRESHOLD + LOOP
                            /\ get_counter' <= newt + COST
    <3>1. at = "cal_times" => /\ newt < oldt + COST + THRESHOLD + LOOP
                              /\ get_counter <= newt + Unseen
      BY DEF CalibrationInv
    <3> QED
      BY <1>1, <1>2, <1>3, <2>2, <2>3, <3>1
  <2> QED
    BY <1>2, <1>4, <1>6, <2>1, <2>4, <2>5, <2>6 DEF CalibrationInv
<1>18. Program \/ Client \/ UNCHANGED timed_vars => UNCHANGED clock_vars
  BY DEF Program, Client, timed_vars
<1> QED
  BY <1>8, <1>9, <1>10, <1>11, <1>12, <1>13, <1>14, <1>15, <1>16, <1>17, <1>18
  DEF TimedNext, Working, count, Counting

\* The estimate is of one interrupt, for every threshold, cost of an interrupt
\* and place where one falls between the readings of callibrate.
THEOREM EstimateIsSound ==
    ASSUME ClockAssumption
    PROVE  TimedSpec => []EstimateSound
<1>1. TimedInit => RoundInv /\ CalibrationInv
  BY RoundInit, CalibrationInit
<1>2. RoundInv /\ CalibrationInv /\ [TimedNext]_timed_vars => (RoundInv /\ CalibrationInv)'
  BY RoundNext, CalibrationNext
<1>3. CalibrationInv => EstimateSound
  BY DEF CalibrationInv
<1> QED
  BY <1>1, <1>2, <1>3, PTL DEF TimedSpec

-----------------------------------------------------------------------------
(* The compensation.                                                       *)

\* From start_tick on ticks counts the interrupts of the round, the measured
\* ones and those in the gaps between the readings.
TicksInv ==
    /\ gaps \in Nat
    /\ at \in {"counter", "run", "get", "got"} => ticks = inside + gaps
    /\ at \notin {"counter", "run", "get", "got"} => gaps = 0
    /\ at = "off" => ticks = 0

LEMMA TicksNext ==
    ASSUME ClockAssumption, RoundInv, TicksInv, [TimedNext]_timed_vars
    PROVE  TicksInv'
<1>1. /\ ticks \in Nat /\ inside \in Nat /\ gaps \in Nat
      /\ at \notin {"run", "get", "got"} => inside = 0
  BY DEF RoundInv, TicksInv, ClockAssumption
<1>2. CASE callibrate \/ cal_start \/ cal_old \/ cal_new \/ cal_quiet \/ cal_event
  <2>1. /\ at \notin {"off", "counter", "run", "get", "got"}
        /\ at' \notin {"off", "counter", "run", "get", "got"}
        /\ gaps' = gaps
    BY <1>2 DEF callibrate, cal_start, cal_old, cal_new, cal_quiet, cal_event, disturbance
  <2> QED
    BY <2>1 DEF TicksInv
<1>3. CASE begin
  <2>1. /\ at = "off" /\ at' \in {"counter", "callibrate", "times"}
        /\ UNCHANGED <<ticks, inside, gaps>>
    BY <1>3 DEF begin, BeginRound, disturbance
  <2> QED
    BY <1>1, <2>1 DEF TicksInv
<1>4. CASE start_tick
  <2>1. at = "times" /\ at' = "counter" /\ ticks' = 0 /\ UNCHANGED <<inside, gaps>>
    BY <1>4 DEF start_tick, disturbance
  <2> QED
    BY <1>1, <2>1 DEF TicksInv
<1>5. CASE start_round \/ run \/ get_time
  <2>1. /\ at \in {"counter", "run", "get"} /\ at' \in {"run", "get", "got"}
        /\ UNCHANGED <<ticks, inside, gaps>>
    BY <1>5 DEF start_round, run, get_time, disturbance
  <2> QED
    BY <2>1 DEF TicksInv
<1>6. CASE end
  <2>1. at' = "off" /\ ticks' = 0 /\ gaps' = 0
    BY <1>6 DEF end, EndRound
  <2> QED
    BY <2>1 DEF TicksInv
<1>7. CASE Timer
  <2>1. /\ at' = at /\ at # "off" /\ ticks' = ticks + 1
        /\ inside' = IF at \in {"run", "get"} THEN inside + 1 ELSE inside
        /\ gaps' = IF at \in {"counter", "got"} THEN gaps + 1 ELSE gaps
    BY <1>7 DEF Timer, Interrupt
  <2> QED
    BY <1>1, <2>1 DEF TicksInv
<1>8. CASE Program \/ Client \/ UNCHANGED timed_vars
  <2>1. UNCHANGED <<at, ticks, inside, gaps>>
    BY <1>8 DEF Program, Client, timed_vars, clock_vars, disturbance
  <2> QED
    BY <2>1 DEF TicksInv
<1> QED
  BY <1>2, <1>3, <1>4, <1>5, <1>6, <1>7, <1>8
  DEF TimedNext, Working, count, Counting

\* i interrupts measured and g in the gaps, at c cycles each, are compensated
\* at p, an estimate between r and b.
LEMMA ErrorOfEstimate ==
    ASSUME NEW i \in Nat, NEW g \in Nat, NEW c \in Nat, NEW p \in Nat,
           NEW r \in Nat, NEW b \in Nat, r < p, p < c + b
    PROVE  /\ i * c - (i + g) * p <= i * (c - r)
           /\ i * c - (i + g) * p >= - (i * b) - g * (c + b)
<1>1. /\ i * p \in Int /\ g * p \in Int /\ i * c \in Int /\ i * r \in Int
      /\ i * b \in Int /\ g * (c + b) \in Int
  OBVIOUS
<1>2. (i + g) * p = i * p + g * p /\ i * (c - r) = i * c - i * r
  OBVIOUS
<1>3. i * r <= i * p
  OBVIOUS
<1>4. 0 <= g * p
  OBVIOUS
<1>5. i * p <= i * (c + b) /\ i * (c + b) = i * c + i * b
  OBVIOUS
<1>6. g * p <= g * (c + b)
  OBVIOUS
<1> QED
  BY <1>1, <1>2, <1>3, <1>4, <1>5, <1>6

\* What get_comp_counter returns is off by the error of the estimate for each
\* interrupt measured, and by an estimate for each between the readings of the
\* ticks and of the cycles, however many there are.
THEOREM CompensationIsBounded ==
    ASSUME ClockAssumption
    PROVE  TimedSpec => []CompensationBounded
<1>1. TimedInit => RoundInv /\ CalibrationInv /\ TicksInv
  <2>1. TimedInit => TicksInv
    BY DEF TimedInit, ClockInit, TicksInv
  <2> QED
    BY <2>1, RoundInit, CalibrationInit
<1>2. RoundInv /\ CalibrationInv /\ TicksInv /\ [TimedNext]_timed_vars
        => (RoundInv /\ CalibrationInv /\ TicksInv)'
  BY RoundNext, CalibrationNext, TicksNext
<1>3. RoundInv /\ CalibrationInv /\ TicksInv => CompensationBounded
  <2> SUFFICES ASSUME RoundInv, CalibrationInv, TicksInv, at = "got", cyc_per_tick > 0
               PROVE  /\ time - ticks * cyc_per_tick
                           <= own + inside * (COST - RECORDTHRESH)
                      /\ time - ticks * cyc_per_tick
                           >= own - inside * (THRESHOLD + LOOP)
                                - gaps * (COST + THRESHOLD + LOOP)
    BY DEF CompensationBounded
  <2>1. /\ inside \in Nat /\ gaps \in Nat /\ own \in Nat /\ cyc_per_tick \in Nat
        /\ COST \in Nat /\ RECORDTHRESH \in Nat /\ THRESHOLD \in Nat /\ LOOP \in Nat
    BY DEF RoundInv, TicksInv, CalibrationInv, ClockAssumption
  <2>2. time = own + inside * COST /\ ticks = inside + gaps
    BY DEF RoundInv, CounterExact, TicksInv
  <2>3. RECORDTHRESH < cyc_per_tick /\ cyc_per_tick < COST + THRESHOLD + LOOP
    BY <2>1 DEF CalibrationInv, EstimateSound
  <2>4. PICK b \in Nat : b = THRESHOLD + LOOP
    BY <2>1
  <2>5. /\ COST + b = COST + THRESHOLD + LOOP
        /\ cyc_per_tick < COST + b
    BY <2>1, <2>3, <2>4
  <2>6. /\ inside * COST - ticks * cyc_per_tick <= inside * (COST - RECORDTHRESH)
        /\ inside * COST - ticks * cyc_per_tick >= - (inside * b) - gaps * (COST + b)
    BY <2>1, <2>2, <2>3, <2>5, ErrorOfEstimate
  <2>7. PICK x \in Int : x = inside * COST - ticks * cyc_per_tick
    BY <2>1, <2>2
  <2>8. time - ticks * cyc_per_tick = own + x
    <3>1. inside * COST \in Int /\ ticks * cyc_per_tick \in Int
      BY <2>1, <2>2
    <3> QED
      BY <2>1, <2>2, <2>7, <3>1
  <2>9. /\ inside * (COST - RECORDTHRESH) \in Int
        /\ inside * b \in Int /\ gaps * (COST + b) \in Int
    BY <2>1
  <2>10. own + x <= own + inside * (COST - RECORDTHRESH)
    BY <2>1, <2>6, <2>7, <2>9
  <2>11. own + x >= own - inside * b - gaps * (COST + b)
    BY <2>1, <2>6, <2>7, <2>9
  <2> QED
    BY <2>4, <2>5, <2>8, <2>10, <2>11
<1> QED
  BY <1>1, <1>2, <1>3, PTL DEF TimedSpec

\* Every variable of clock.c keeps its type: readings and differences are two
\* words, and no number falls below zero.
THEOREM ClockTypeCorrect ==
    ASSUME ClockAssumption
    PROVE  TimedSpec => []ClockTypeOK
<1> DEFINE Locations ==
        {"off", "callibrate", "cal_start", "cal_old", "cal_new", "cal_times",
         "times", "counter", "run", "get", "got"}
           Located == at \in Locations
<1>1. TimedInit => RoundInv /\ CalibrationInv /\ TicksInv /\ Located
  <2>1. TimedInit => TicksInv /\ Located
    BY DEF TimedInit, ClockInit, TicksInv
  <2> QED
    BY <2>1, RoundInit, CalibrationInit
<1>2. Located /\ [TimedNext]_timed_vars => Located'
  BY DEF TimedNext, Working, begin, BeginRound, count, Counting, callibrate,
     cal_start, cal_old, cal_new, cal_quiet, cal_event, start_tick, start_round,
     run, get_time, end, EndRound, Program, Client, Timer, Interrupt, timed_vars,
     clock_vars
<1>3. RoundInv /\ CalibrationInv /\ TicksInv /\ [TimedNext]_timed_vars
        => (RoundInv /\ CalibrationInv /\ TicksInv)'
  BY RoundNext, CalibrationNext, TicksNext
<1>4. RoundInv /\ CalibrationInv /\ TicksInv /\ Located => ClockTypeOK
  <2> SUFFICES ASSUME RoundInv, CalibrationInv, TicksInv, Located
               PROVE  ClockTypeOK
    OBVIOUS
  <2>1. cyc \in [hi : 0 .. WORD - 1, lo : 0 .. WORD - 1]
    <3>1. PICK s \in Counter : cyc = Access(s)
      BY DEF CalibrationInv, WasRead
    <3>2. WORD \in Nat \ {0} /\ s \in Int
      BY DEF ClockAssumption, Counter
    <3>3. s \div WORD \in Int /\ s % WORD \in 0 .. WORD - 1
      BY <3>2, Divided
    <3>4. (s \div WORD) % WORD \in 0 .. WORD - 1
      BY <3>2, <3>3, Divided
    <3> QED
      BY <3>1, <3>3, <3>4 DEF Access
  <2>2. tsc \in 0 .. WORD * WORD - 1 /\ ticks \in 0 .. MaxTicks
    BY DEF RoundInv, Counter
  <2>3. {cyc_per_tick, oldt, newt, events, since, time, own, inside, gaps} \subseteq Nat
    BY DEF RoundInv, CalibrationInv, TicksInv
  <2> QED
    BY <2>1, <2>2, <2>3 DEF ClockTypeOK
<1> QED
  BY <1>1, <1>2, <1>3, <1>4, PTL DEF TimedSpec

=============================================================================
