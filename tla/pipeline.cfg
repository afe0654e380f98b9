SPECIFICATION Spec
CONSTANTS
  c1 = c1  c2 = c2  c3 = c3  c4 = c4
  dropped = dropped  below = below  back = back
  Check = {c1, c2, c3, c4}
  Unclaimed = {}
  Result <- MCResult
  MaxAttempts = 2
  Rule = {dropped, below, back}
  RuleType <- MCRuleType
  Target <- MCTarget
  Cooldown <- MCCooldown
  Window = 2
  MaxTime = 2
INVARIANTS TypeOK MeaningfulHistory RowAgreesWithHistory CountsFailures CooldownKept
PROPERTIES AlertsAreChanges
CHECK_DEADLOCK FALSE
