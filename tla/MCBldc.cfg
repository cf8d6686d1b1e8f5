CONSTANTS
  PeriodMax = 12
  PeriodMin = 4
  PeriodStop = 20
  StartDelay = 1
  Duty_Min = 2
  Duty_Target = 4
  StepMax = 2
SPECIFICATION Spec
INVARIANTS StoppedIsOff
PROPERTY NoShootThrough
