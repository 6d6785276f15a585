SPECIFICATION Spec
CONSTANTS
  Suites = {s1, s2, s3}
  Examples = {e1}
  ToSkip = {s3}
  Workers = {w1, w2}
  Pill = Pill
  None = None
INVARIANTS NoTestBehindPill SummaryAddsUp SuccessIsReal ReportAgrees
PROPERTIES RunnerEnds
\* The program may hang when a thread has ended with an exception.
CHECK_DEADLOCK FALSE
