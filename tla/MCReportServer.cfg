SPECIFICATION Spec
CONSTANTS
  c1 = c1
  c2 = c2
  w1 = w1
  w2 = w2
  p1 = p1
  p2 = p2
  s1 = s1
  s2 = s2
  s3 = s3
  Commands <- MCCommands
  Workspaces <- MCWorkspaces
  Servers <- MCServers
  Pids <- MCPids
  MaxPort <- MCMaxPort
  Window <- MCWindow
  MaxCommands <- MCMaxCommands
  MaxSafe <- MCMaxSafe
  Largest <- MCLargest
  Nobody = Nobody
  NoState = NoState
SYMMETRY Symmetry
INVARIANTS TypeOK
PROPERTY OnlyOwnServers
CHECK_DEADLOCK FALSE
