SPECIFICATION Spec
CONSTANTS
  Agent = {a1, a2}
  MaxSession = 3
  MaxRestart = 1
INVARIANT OnlyRestartsMixSessions
INVARIANT CoordinatorKnowsItsAgents
INVARIANT RunsOnlyWhatAllPrepared
INVARIANT AgentKnowsItsBackend
