SPECIFICATION Spec
CONSTANTS
  Max = 3
  PageRows = 2
  MaxSeq = 4
  Outcomes = {"PASS", "OVER"}
INVARIANTS LogIsTheSession QuietExportIsTheLog
