CONSTANTS
  id = id
  test = test
  plan1 = plan1
  plan2 = plan2
  m1 = m1
  m2 = m2
  RunIds = {id}
  JiraIds = {id}
  TestKeys = {test}
  PlanKeys = {plan1}
  DefaultPlan = plan1
  DefaultTests = {test}
  Messages = {m1, m2}
  Execs = {x1}
  Handlers = {h1, h2}
  Requests <- LogRequests
  XrayAnswers = {"ok"}
SPECIFICATION Spec
PROPERTY LogEventsKeepStatus
