-------------------------------- MODULE Fcyc --------------------------------
(***************************************************************************)
(* fcyc.c: the K-best scheme.  A function is timed until the kbest         *)
(* smallest samples agree within epsilon, or maxsamples were taken; values *)
(* holds the smallest ones so far, in order.  Between calls the client     *)
(* changes the parameters.                                                 *)
(*                                                                         *)
(* A sample is an integer, whatever the counter of clock.c returns, and    *)
(* epsilon is in percent.                                                  *)
(***************************************************************************)
EXTENDS Integers, Sequences, FiniteSets

CONSTANTS Cycles,       \* what the counters may return
          Ks,           \* arguments of set_fcyc_k
          MaxSamples,   \* of set_fcyc_maxsamples
          Epsilons,     \* of set_fcyc_epsilon
          CacheSizes    \* of set_fcyc_cache_size

ASSUME FcycAssumption ==
    /\ Cycles \subseteq Int
    /\ Ks \subseteq Nat \ {0}
    /\ MaxSamples \subseteq Nat
    /\ Epsilons \subseteq Nat
    /\ CacheSizes \subseteq Nat \ {0}

NULL == 0

VARIABLES loc,          \* "idle", in the "loop" of fcyc, "ready" for a sample,
                        \* "done" with the loop, "exit"
          kbest, maxsamples, epsilon, compensate, clear_cache,
          cache_bytes,
          cache_buf,    \* NULL, or how many bytes were allocated
          values,       \* the kbest smallest samples
          samplecount,
          samples,      \* all samples of the call, as KEEP_SAMPLES keeps them
          result        \* of the last call

parameters == <<kbest, maxsamples, epsilon, compensate, clear_cache>>
cache == <<cache_bytes, cache_buf>>
vars == <<loc, parameters, cache, values, samplecount, samples, result>>

-----------------------------------------------------------------------------
\* The loop of add_sample: the value at pos goes below the values before it
\* that are greater, down to the first that is not.
Sink(v, pos) ==
    LET to == CHOOSE i \in 1 .. pos :
                 /\ \A j \in i .. pos - 1 : v[j] > v[pos]
                 /\ i = 1 \/ v[i - 1] <= v[pos]
    IN  [i \in DOMAIN v |-> IF i = to THEN v[pos]
                            ELSE IF to < i /\ i <= pos THEN v[i - 1]
                            ELSE v[i]]

\* A new sample that takes the last place whatever is there.
WithSample_always(val) ==
    LET pos == IF samplecount < kbest THEN samplecount + 1 ELSE kbest
    IN  Sink([values EXCEPT ![pos] = val], pos)

\* What add_sample makes of values.
WithSample(val) ==
    IF samplecount < kbest
    THEN Sink([values EXCEPT ![samplecount + 1] = val], samplecount + 1)
    ELSE IF val < values[kbest]
    THEN Sink([values EXCEPT ![kbest] = val], kbest)
    ELSE values

\* On the values and the count that add_sample leaves.
has_converged(v, count) ==
    count >= kbest /\ (100 + epsilon) * v[1] >= 100 * v[kbest]

\* The condition of fcyc's loop.
GoesOn(v, count) == ~has_converged(v, count) /\ count < maxsamples

-----------------------------------------------------------------------------
\* get_comp_counter subtracts an estimate and may return less than zero.
Counted == IF compensate THEN Cycles ELSE Cycles \cap Nat

\* A sampler that goes on with the count of the last call.
init_sampler_keeps_count ==
    /\ loc = "idle"
    /\ loc' = "loop"
    /\ values' = [i \in 1 .. kbest |-> 0]
    /\ samples' = << >>
    /\ UNCHANGED <<parameters, cache, samplecount, result>>

init_sampler ==
    /\ loc = "idle"
    /\ loc' = "loop"
    /\ values' = [i \in 1 .. kbest |-> 0]
    /\ samplecount' = 0
    /\ samples' = << >>
    /\ UNCHANGED <<parameters, cache, result>>

\* clear, whose malloc may fail: the program exits.
clear_fails ==
    /\ loc = "loop"
    /\ clear_cache /\ cache_buf = NULL
    /\ loc' = "exit"
    /\ UNCHANGED <<parameters, cache, values, samplecount, samples, result>>

\* The first half of a round: the cache, whose buffer is allocated when it is
\* first needed.
clear ==
    /\ loc = "loop"
    /\ loc' = "ready"
    /\ cache_buf' = IF clear_cache /\ cache_buf = NULL THEN cache_bytes ELSE cache_buf
    /\ UNCHANGED <<parameters, cache_bytes, values, samplecount, samples, result>>

\* A round that starts the sampling anew.
Sample_afresh(cyc) ==
    /\ loc = "ready"
    /\ values' = [i \in 1 .. kbest |-> IF i = 1 THEN cyc ELSE 0]
    /\ samples' = <<cyc>>
    /\ samplecount' = 1
    /\ loc' = IF GoesOn(values', samplecount') THEN "loop" ELSE "done"
    /\ UNCHANGED <<parameters, cache, result>>

\* The second half: the counters around f have returned cyc.
Sample(cyc) ==
    /\ loc = "ready"
    /\ values' = WithSample(cyc)
    /\ samples' = Append(samples, cyc)
    /\ samplecount' = samplecount + 1
    /\ loc' = IF GoesOn(values', samplecount') THEN "loop" ELSE "done"
    /\ UNCHANGED <<parameters, cache, result>>

sample == \E cyc \in Counted : Sample(cyc)

\* The last of the values kept, and not the first.
return_last == values[IF samplecount < kbest THEN samplecount ELSE kbest]
return_best == values[1]

fcyc_return ==
    /\ loc = "done"
    /\ loc' = "idle"
    /\ result' = return_best
    /\ values' = << >>
    /\ UNCHANGED <<parameters, cache, samplecount, samples>>

(* The functions that set parameters.                                      *)

set_parameters ==
    /\ loc = "idle"
    /\ \/ kbest' \in Ks /\ UNCHANGED <<maxsamples, epsilon, compensate, clear_cache>>
       \/ maxsamples' \in MaxSamples /\ UNCHANGED <<kbest, epsilon, compensate, clear_cache>>
       \/ epsilon' \in Epsilons /\ UNCHANGED <<kbest, maxsamples, compensate, clear_cache>>
       \/ compensate' \in BOOLEAN /\ UNCHANGED <<kbest, maxsamples, epsilon, clear_cache>>
       \/ clear_cache' \in BOOLEAN /\ UNCHANGED <<kbest, maxsamples, epsilon, compensate>>
    /\ UNCHANGED <<loc, cache, values, samplecount, samples, result>>

\* A new size for the old buffer.
set_cache_size_keeps(bytes) == cache_bytes' = bytes /\ UNCHANGED cache_buf

\* A buffer of another size is freed, and clear allocates a new one.
set_fcyc_cache_size(bytes) ==
    /\ cache_bytes' = bytes
    /\ cache_buf' = IF bytes # cache_bytes THEN NULL ELSE cache_buf

set_cache_size ==
    /\ loc = "idle"
    /\ \E bytes \in CacheSizes : set_fcyc_cache_size(bytes)
    /\ UNCHANGED <<loc, parameters, values, samplecount, samples, result>>

\* The program has exited.
Ended == loc = "exit" /\ UNCHANGED vars

-----------------------------------------------------------------------------
Init ==
    /\ loc = "idle"
    /\ kbest \in Ks /\ maxsamples \in MaxSamples /\ epsilon \in Epsilons
    /\ compensate = FALSE /\ clear_cache = FALSE
    /\ cache_bytes \in CacheSizes
    /\ cache_buf = NULL
    /\ values = << >> /\ samplecount = 0 /\ samples = << >>
    /\ result = 0

Measure == clear_fails \/ clear \/ sample \/ fcyc_return
Next == init_sampler \/ Measure \/ set_parameters \/ set_cache_size \/ Ended

\* f returns, and fcyc goes on; that it is called again, nothing demands.
Spec == Init /\ [][Next]_vars /\ WF_vars(Measure)

-----------------------------------------------------------------------------
(* Properties.                                                             *)

Lesser(a, b) == IF a < b THEN a ELSE b

TypeOK ==
    /\ loc \in {"idle", "loop", "ready", "done", "exit"}
    /\ kbest \in Ks /\ maxsamples \in MaxSamples /\ epsilon \in Epsilons
    /\ compensate \in BOOLEAN /\ clear_cache \in BOOLEAN
    /\ cache_bytes \in CacheSizes
    /\ samples \in Seq(Cycles)
    /\ samplecount = Len(samples)
    /\ loc \in {"loop", "ready", "done"} => values \in [1 .. kbest -> Int]
    /\ result \in Int

\* How many samples are less than x, and how many are not greater.
Below(x) == Cardinality({k \in 1 .. samplecount : samples[k] < x})
UpTo(x) == Cardinality({k \in 1 .. samplecount : samples[k] <= x})

\* After any number of samples values[i] is the i-th smallest of all of them,
\* duplicates counted, though each sample was compared with those kept only.
KBest ==
    loc \in {"loop", "ready", "done"} =>
        \A i \in 1 .. Lesser(samplecount, kbest) :
            Below(values[i]) < i /\ i <= UpTo(values[i])

\* fcyc returns the least sample of the call, whether or not they converged.
ResultIsLeast ==
    loc = "idle" /\ samplecount > 0 =>
        /\ \E k \in 1 .. samplecount : result = samples[k]
        /\ \A k \in 1 .. samplecount : result <= samples[k]

\* clear reads cache_bytes bytes of the buffer, which is as large, however
\* often the size was changed since it was allocated.
CacheBufFits == cache_buf \in {NULL, cache_bytes}

\* A measurement ends: at maxsamples, if the samples never agree.
MeasurementEnds == loc \in {"loop", "ready"} ~> loc \in {"idle", "exit"}

=============================================================================
