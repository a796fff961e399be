SPECIFICATION FairBrokerSpec
CONSTANTS
  tasks = tasks
  http = http
  api = api
  standalone = standalone
  jobs = jobs
  databases = databases
  rabbitmq = rabbitmq
  user = user
  other = other
  Class <- MCClass
  NameOf <- MCName
  Needs <- MCNeeds
  Base <- MCBase
  Configured <- MCConfigured
  ApiClient = api
  Databases = databases
  StandaloneApiClient = standalone
  MaxTries = 4
  Exec = {"e1", "e2"}
CHECK_DEADLOCK FALSE
INVARIANTS
  UsedAreOpen
PROPERTIES
  StopEnds
