\* Two agents that present the token at the same time; nothing fails.
SPECIFICATION FairSpec
CONSTANTS
  agent = agent  clone = clone  forwarder = forwarder  h1 = h1  h2 = h2
  Agents = {agent, clone}
  Forwarders = {}
  Handlers = {h1, h2}
  Nobody = Nobody
  MaxFailures = 0
INVARIANT SingleUse
