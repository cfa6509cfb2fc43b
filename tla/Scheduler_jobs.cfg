\* Two invocations of the archiver and one of the job-runner, a lock that lives
\* half an hour, batches of one.
CONSTANTS
  Lambdas = {l1, l2}
  Manual = {m}
  RuleSets <- EachRule
  Orgs = {o1, o2}
  WatchPoints = {p}
  AuditLogs = {e}
  ForecastRuns = {f}
  BatchLimit = 1
  PerHour = 2
  MaxArchivings = 2
SPECIFICATION Spec
INVARIANTS NothingLostOrDoubled
PROPERTIES ImplementsHourlyJobs NoDigestSkipped DueDigestsAreSent
