SPECIFICATION Spec
CONSTANTS
  Sources <- MCSources
  Labels <- MCLabels
CHECK_DEADLOCK FALSE
INVARIANTS
  RunsSource
  Diagnoses
