-------------------------------- MODULE Cadence --------------------------------
(***************************************************************************)
(* When the cron job of Sync runs. Line 136 registers the job with the     *)
(* spec "*/N * * * *", N = rs.Interval. The provider imports robfig/cron   *)
(* v1, whose parser reads five fields as second, minute, hour, day of      *)
(* month and month: the spec selects the seconds s in 0..59 with           *)
(* s % N = 0 of every minute. N = 0 is refused by the parser (a step must  *)
(* be positive) and AddFunc's error is discarded, so no job is added.      *)
(* The scheduler runs the job at the first selected second after the       *)
(* current one, counted with wrap-around into the next minute.             *)
(***************************************************************************)
EXTENDS Naturals

(* Mutant: the step counted from second 1 instead of from the range's start 0. *)
SecondsFromOne(N) == IF N = 0 THEN {} ELSE {s \in 1..59 : s % N = 0}

\* The seconds of a minute the spec "*/N" selects; {} when the parser refuses it.
Seconds(N) == IF N = 0 THEN {} ELSE {s \in 0..59 : s % N = 0}

\* The second of the minute at which the job next runs after second t.
NextSecond(N, t) ==
    LET later == {u \in t + 1 .. t + 60 : u % 60 \in Seconds(N)}
    IN  (CHOOSE u \in later : \A v \in later : u <= v) % 60

\* Seconds elapsed from a run at second t to the next run.
Gap(N, t) == LET u == NextSecond(N, t) IN IF u > t THEN u - t ELSE u + 60 - t
================================================================================
