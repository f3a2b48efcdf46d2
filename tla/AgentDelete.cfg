SPECIFICATION AgentSpec
CONSTANTS
  Clients = {sprout, homestead}
  MaxRequests = 2
  MaxPosts = 2
PROPERTIES
  NoCallAfterDelete
