\* Replicas start, stop and rotate the certificate while requests run.
CONSTANTS
  None = None  Incomplete = Incomplete
  Replicas = {r1, r2}
  MaxTroubles = 3  MaxMishaps = 1
  agent = agent  sidecar = sidecar  enter = enter  dashes = dashes  sh = sh
  Words = {enter, dashes, sh}
  ContainerNames = {agent, sidecar}
  Pods <- MCPods
  Commands <- MCCommands
  Wrapper <- MCWrapper
  SandboxKind = Sandbox  SandboxGroup = agents  OtherGroup = other
SPECIFICATION FairSpec
INVARIANTS TypeOK TrustAgrees RotationHeals
PROPERTIES EnteredConfined StartUpCompletes
