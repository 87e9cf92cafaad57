\* --redis-interval values that do not divide 60 or reach a minute.
CONSTANT Intervals = {7, 45, 90}
SPECIFICATION Spec
INVARIANT PeriodIsInterval
