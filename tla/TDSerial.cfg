CONSTANTS
  id = id
  test = test
  plan1 = plan1
  plan2 = plan2
  m1 = m1
  m2 = m2
  RunIds = {id}
  JiraIds = {id}
  TestKeys = {test}
  PlanKeys = {plan1, plan2}
  DefaultPlan = plan1
  DefaultTests = {test}
  Messages = {m1, m2}
  Execs = {x1, x2}
  Handlers = {h1}
  Requests <- AllRequests
  XrayAnswers = {"ok", "error", "lost"}
SPECIFICATION FairSpec
ACTION_CONSTRAINT AboutRunOrPlans
INVARIANT VerdictReachesXray
PROPERTY LogEventsKeepStatus RunsFollowLifecycle  RequestsAreAnswered
