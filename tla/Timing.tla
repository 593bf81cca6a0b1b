------------------------------- MODULE Timing -------------------------------
(***************************************************************************)
(* fcyc on the counters of clock.c: each sample is a round of Clock, with  *)
(* or without compensation, under timer interrupts.                        *)
(***************************************************************************)
EXTENDS Fcyc, Clock

timed_vars == <<vars, clock_vars>>

\* start_counter or start_comp_counter, once the cache is cleared.
begin ==
    /\ loc = "ready"
    /\ BeginRound(compensate)
    /\ UNCHANGED vars

count == Counting /\ UNCHANGED vars

\* get_counter or get_comp_counter returns, and add_sample takes the sample.
end ==
    /\ Sample(Measured(compensate))
    /\ EndRound

\* The steps of fcyc and of its client without the counters.
Program == (clear_fails \/ clear \/ fcyc_return) /\ UNCHANGED clock_vars

Client == (init_sampler \/ set_parameters \/ set_cache_size \/ Ended) /\ UNCHANGED clock_vars

Timer == Interrupt /\ UNCHANGED vars

TimedInit == Init /\ ClockInit
Working == begin \/ count \/ end \/ Program
TimedNext == Working \/ Client \/ Timer

\* The processor goes on with the program, and the timer goes on ticking.
TimedSpec ==
    /\ TimedInit /\ [][TimedNext]_timed_vars
    /\ WF_timed_vars(Working) /\ WF_timed_vars(Timer)

-----------------------------------------------------------------------------
\* fcyc with whatever a counter may return: the rounds of the counters are
\* steps of a sample that fcyc waits for, and each of them ends, the
\* calibration included.
FcycSpec == Spec

=============================================================================
