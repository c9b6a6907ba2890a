SPECIFICATION Spec
CONSTANTS
  Days <- MCDays
  Patches <- MCPatches
  Cases <- MCCases
  Foreign = {"USD"}
  Worth <- MCWorth
  Years = 2
  Paths = 3
  NoRule = NoRule
  Never = Never
INVARIANT CheckpointsAreExact IncomeComesOnce ContributionsAddUp DateIsFirstDayOnTarget
INVARIANT HalfOfPathsByDate BlocksAreRealMonths BacktestKnowsOnlyThePast
PROPERTY PromiseIsKept PartialDateIsFinal
CHECK_DEADLOCK FALSE
