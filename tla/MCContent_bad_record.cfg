SPECIFICATION MCSpec
CONSTANTS
  Protocols = {"airflow"}
  Budgets <- MCBudgets
  Schemas = {1}
  Tables = {2}
  MaxSessions = 4
  Catalogs <- MCCatalogs
  TableGrants <- MCTableGrants
  MaxVersions = 6
  FirstEnvironments <- MCFirstEnvironments
  Artifacts = {1, 2}
  MaxAttempts = 2
  Plugins = {3, 4}
  Dags = {1, 2}
  Bundle = {1, 3}
  FirstJobs <- MCFirstJobs
  Tags = {1, 2}
  FirstTagged <- MCFirstTagged
  MaxJobs = 2
  RunTimeout = 3
  RequestTime = 1
  RetryAfters = {1, 2, 5}
CHECK_DEADLOCK FALSE
INVARIANTS NextRunReadsRecord
