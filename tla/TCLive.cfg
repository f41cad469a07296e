CONSTANTS
  id = id
  test = test
  plan1 = plan1
  note = note
  RunIds = {id}
  JiraIds = {}
  TestKeys = {test}
  PlanKeys = {plan1}
  DefaultPlan = plan1
  DefaultTests = {test}
  Messages = {note}
  Execs = {x1}
  Handlers = {h1, h2}
  Requests <- NoRequests
  XrayAnswers = {"ok", "error"}
  RunId = id
  TestKey = test
  Note = note
  Alarm = note
  Tests <- ShortTests
  Network = {"lost"}
CHECK_DEADLOCK FALSE
SPECIFICATION FairSpecAll
PROPERTY  PanicReachesXray
