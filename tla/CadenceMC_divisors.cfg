\* Every --redis-interval below a minute that divides 60.
CONSTANT Intervals = {1, 2, 3, 4, 5, 6, 10, 12, 15, 20, 30}
SPECIFICATION Spec
INVARIANTS PeriodIsInterval PollsWithinInterval
