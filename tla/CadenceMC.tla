------------------------------ MODULE CadenceMC ------------------------------
(***************************************************************************)
(* The scheduler of the cron job over time: Sync calls Cron.Start at some  *)
(* second of a minute, then the job runs again and again. The clock is     *)
(* kept as the second of the minute, so the state space is finite and the *)
(* runs never stop.                                                       *)
(***************************************************************************)
EXTENDS Cadence

\* The values of --redis-interval the run considers.
CONSTANT Intervals

ASSUME CadenceAssumption == Intervals \subseteq Nat \ {0}

VARIABLES n, sec, runs, gap

vars == <<n, sec, runs, gap>>

\* Cron.Start at any second; no run yet.
Init ==
    /\ n \in Intervals
    /\ sec \in 0..59
    /\ runs = 0
    /\ gap = 0

\* The scheduler wakes at the next selected second and starts the job (line 136).
Run ==
    /\ sec' = NextSecond(n, sec)
    /\ gap' = Gap(n, sec)
    /\ runs' = IF runs < 2 THEN runs + 1 ELSE 2
    /\ UNCHANGED n

Next == Run

Spec == Init /\ [][Next]_vars

TypeOK == n \in Intervals /\ sec \in 0..59 /\ runs \in 0..2 /\ gap \in 0..60

(***************************************************************************)
(* The cron job runs every N seconds, as the --redis-interval flag's help  *)
(* text "Redis polling interval in seconds" promises: from its second run  *)
(* on, every gap between two runs of the line-136 job is exactly N. (The  *)
(* first gap, from Cron.Start, may be shorter.)                            *)
(***************************************************************************)
PeriodIsInterval == runs = 2 => gap = n

(***************************************************************************)
(* Whatever the interval, the key is polled at least every --redis-interval *)
(* seconds: no gap between two runs of the line-136 job, the first one from *)
(* Cron.Start included, is longer than N. For an N that does not divide 60  *)
(* the wrap into the next minute shortens a gap; it never lengthens one.   *)
(***************************************************************************)
PollsWithinInterval == gap <= n
============================================================================
