\* An agent and a forwarder with the same token, two handlers, three failures.
SPECIFICATION FairSpec
CONSTANTS
  agent = agent  clone = clone  forwarder = forwarder  h1 = h1  h2 = h2
  Agents = {agent, forwarder}
  Forwarders = {forwarder}
  Handlers = {h1, h2}
  Nobody = Nobody
  MaxFailures = 3
INVARIANTS TypeOK OnlyRacingEnrolments
PROPERTIES EnrolledForGood SomebodyEnrols
CHECK_DEADLOCK FALSE
