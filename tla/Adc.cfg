SPECIFICATION AdcSpec
CONSTANTS
  Inputs = {o1, o2}
  Asked = {3, 4, 5, 9}
  SampleCount = 3
  MaxReports = 2
INVARIANTS ReportsAreReal
