SPECIFICATION Spec
CONSTANTS
  c1 = c1 c2 = c2 e1 = e1 s1 = s1 s2 = s2 s3 = s3
  Callers = {c1, c2}
  Keys = {e1}
  Endpoints = {e1}
  EndpointOf <- OneKey
  Sids = {s1, s2, s3}
  Spawns = {1, 2}
  Extras = {0}
  MaxGlobalProcesses = 1
  MaxSessionsPerEndpoint = 1
  Nil = Nil
SYMMETRY Symmetry
INVARIANT FreshConfig
