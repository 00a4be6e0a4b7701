SPECIFICATION BuildSpec
CONSTANTS
  Procs <- MCProcs
  Steps = {8}
  ArgCounts = {3, 5}
  Stores <- MCStores
  Gaps = {0, 2}
  MaxLines = 2
  MaxCode = 6
  Back = 8
  Skips = {1, 6}
  MaxCalls = 2
  Sections = {".data", ".const"}
  Directives <- MCDirectives
  Lengths = {1, 2, 1024}
  Aligns = {4}
  BSS_MIN_BYTES = 4096
  MaxDecls = 4
  Sources = {"macros.inc", "gui.asm"}
  Names = {"x", "y", "z"}
  Literals = {1}
  Readings = 2
  Definable <- MCDefinable
  Versions <- MCVersions
  MaxEdits = 2
  Symbols = {"p", "q", "IDC_OK", "wstart"}
  ResourceIds = {"IDC_OK"}
  Roots = {"wstart"}
  ALLOWLIST = {"wstart"}
  MaxUses = 2
  Operands <- MCOperands
  MaxArgs = 6
  MaxSites = 1
  SIZE = 2
  Icons <- MCIcons
  GateBuilds <- MCGateBuilds
  ImageBuilds <- MCImageBuilds
  Times = {1, 2}
  Guids = {"a", "b"}
  LinkFaults = {"none", "magic", "payload past the end"}
  Paths = {1, 2}
  MaxBuilds = 2
INVARIANTS
  BuildTypeOK FramesHold ClobberIsSeen LostBoundIsNear DataIsNatural MirrorsAgree
  SweepKeepsLive ArgumentsArrive StrictIsClean Reproduces ShadowStackStays
CHECK_DEADLOCK FALSE
