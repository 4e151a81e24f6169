-------------------------- MODULE HostControlProofs --------------------------
(***************************************************************************)
(* Proofs about HostControl, for any set of agents, any number of sessions *)
(* and any number of restarts.                                             *)
(*                                                                         *)
(* OnlyRestartsMixSessions is not inductive.  What keeps it is that a      *)
(* start or a stop under way pins its agent: the agent is in the state the *)
(* request is for and has the request's session, and only serving the      *)
(* request, losing it or restarting the agent can end that.  For requests  *)
(* to begin that way the coordinator has to be right about its agents when *)
(* it sends them, which in turn rests on what their answers meant when     *)
(* they were given.                                                        *)
(***************************************************************************)
EXTENDS HostControl, TLAPS

Fresh(a) == restarts[a] = 0

\* Agent a has the coordinator's session and nothing is under way to change that.
Settled(a, s) ==
  /\ agents[a].session = session
  /\ agents[a].state = s
  /\ \A r \in requests : r.agent = a => r.kind = "prepare"

RequestsPinAgents ==
  \A r \in requests : (Fresh(r.agent) /\ r.kind # "prepare") =>
    /\ agents[r.agent].session = r.session
    /\ agents[r.agent].state = (IF r.kind = "start" THEN "Configured" ELSE "Running")

StartsWereReady ==
  \A r \in requests : (Fresh(r.agent) /\ r.kind = "start") => r.session \in ready

\* What an answer means for as long as the operation lasts.
AnswersHold ==
  \A a \in Agent : (Fresh(a) /\ result[a] = "ok") =>
    /\ operation = "prepare" => Settled(a, "Configured")
    /\ operation = "start" => Settled(a, "Running")

\* What the coordinator's state means between two operations.
StateHolds ==
  operation = "none" =>
    /\ state = "Ready" => \A a \in Agent : Fresh(a) => Settled(a, "Configured")
    /\ state = "Running" => \A a \in Agent : Fresh(a) => Settled(a, "Running")

SessionIsReady ==
  \/ operation \in {"start", "stop"}
  \/ operation = "none" /\ state \in {"Ready", "Running"}
  => session \in ready

SessionIsMade == operation # "none" => session \in Sessions

IInv ==
  /\ TypeOK
  /\ RequestsPinAgents
  /\ StartsWereReady
  /\ AnswersHold
  /\ StateHolds
  /\ SessionIsReady
  /\ SessionIsMade
  /\ RunsOnlyWhatAllPrepared

-----------------------------------------------------------------------------
(* The invariant is inductive. *)

(* It holds initially: there is no request, no answer and no session. *)
LEMMA InitIInv == Init => IInv
<1> SUFFICES ASSUME Init PROVE IInv
  OBVIOUS
<1>1. TypeOK
  BY HostAssumption DEF Init, TypeOK, NewAgent
<1> QED
  BY <1>1 DEF Init, IInv, RequestsPinAgents, StartsWereReady, AnswersHold,
     StateHolds, SessionIsReady, SessionIsMade, RunsOnlyWhatAllPrepared,
     NewAgent

\* A request that is sent to every agent.
LEMMA CallAllType ==
  ASSUME TypeOK, NEW kind \in Kinds, NEW s \in Sessions, CallAll(kind, s)
  PROVE  /\ operation' \in Kinds
         /\ result' \in [Agent -> {"waiting", "ok", "failed"}]
         /\ requests' \subseteq [kind : Kinds, agent : Agent, session : Sessions]
BY DEF TypeOK, CallAll, Request

(* A prepare disturbs nobody yet: it asserts nothing about the agents. *)
LEMMA PrepareStep == IInv /\ Prepare => IInv'
<1> SUFFICES ASSUME IInv, Prepare PROVE IInv'
  OBVIOUS
<1> USE DEF IInv, Prepare
<1>1. session + 1 \in Sessions
  BY HostAssumption DEF TypeOK, Sessions
<1>2. TypeOK'
  BY <1>1, CallAllType, HostAssumption DEF TypeOK, Kinds, Sessions
<1>3. \A r \in requests' : r \in requests \/ r.kind = "prepare"
  BY DEF CallAll, Request
<1>4. RequestsPinAgents' /\ StartsWereReady'
  BY <1>3 DEF RequestsPinAgents, StartsWereReady, Fresh
<1>5. AnswersHold' /\ StateHolds' /\ SessionIsReady' /\ SessionIsMade'
  BY <1>1 DEF AnswersHold, StateHolds, SessionIsReady, SessionIsMade, CallAll, TypeOK, Kinds
<1>6. RunsOnlyWhatAllPrepared'
  BY DEF RunsOnlyWhatAllPrepared
<1> QED
  BY <1>2, <1>4, <1>5, <1>6

(* A start is sent to agents that are all Configured for its session. *)
LEMMA StartStep == IInv /\ Start => IInv'
<1> SUFFICES ASSUME IInv, Start PROVE IInv'
  OBVIOUS
<1> USE DEF IInv, Start
<1>1. session \in ready /\ session \in Sessions
  BY DEF SessionIsReady, TypeOK
<1>2. TypeOK'
  BY <1>1, CallAllType DEF TypeOK, Kinds
<1>3. \A r \in requests' : r \in requests \/ (r.kind = "start" /\ r.session = session /\ r.agent \in Agent)
  BY DEF CallAll, Request
<1>4. \A a \in Agent : Fresh(a) => agents[a].session = session /\ agents[a].state = "Configured"
  BY DEF StateHolds, Settled
<1>5. RequestsPinAgents' /\ StartsWereReady'
  BY <1>1, <1>3, <1>4 DEF RequestsPinAgents, StartsWereReady, Fresh
<1>6. AnswersHold' /\ StateHolds' /\ SessionIsReady' /\ SessionIsMade'
  BY <1>1 DEF AnswersHold, StateHolds, SessionIsReady, SessionIsMade, CallAll, TypeOK, Kinds
<1>7. RunsOnlyWhatAllPrepared'
  BY DEF RunsOnlyWhatAllPrepared
<1> QED
  BY <1>2, <1>5, <1>6, <1>7

(* A stop is sent to agents that are all Running its session. *)
LEMMA StopStep == IInv /\ Stop => IInv'
<1> SUFFICES ASSUME IInv, Stop PROVE IInv'
  OBVIOUS
<1> USE DEF IInv, Stop
<1>1. session \in ready /\ session \in Sessions
  BY DEF SessionIsReady, TypeOK
<1>2. TypeOK'
  BY <1>1, CallAllType DEF TypeOK, Kinds
<1>3. \A r \in requests' : r \in requests \/ (r.kind = "stop" /\ r.session = session /\ r.agent \in Agent)
  BY DEF CallAll, Request
<1>4. \A a \in Agent : Fresh(a) => agents[a].session = session /\ agents[a].state = "Running"
  BY DEF StateHolds, Settled
<1>5. RequestsPinAgents' /\ StartsWereReady'
  BY <1>1, <1>3, <1>4 DEF RequestsPinAgents, StartsWereReady, Fresh
<1>6. AnswersHold' /\ StateHolds' /\ SessionIsReady' /\ SessionIsMade'
  BY <1>1 DEF AnswersHold, StateHolds, SessionIsReady, SessionIsMade, CallAll, TypeOK, Kinds
<1>7. RunsOnlyWhatAllPrepared'
  BY DEF RunsOnlyWhatAllPrepared
<1> QED
  BY <1>2, <1>5, <1>6, <1>7


\* Steps of the coordinator and of the network that touch no agent.
LEMMA GiveUpStep == \A a \in Agent : IInv /\ GiveUp(a) => IInv'
<1> SUFFICES ASSUME NEW a \in Agent, IInv, GiveUp(a) PROVE IInv'
  OBVIOUS
<1> USE DEF IInv, GiveUp
<1>1. TypeOK'
  BY DEF TypeOK
<1>2. /\ RequestsPinAgents' /\ StartsWereReady' /\ RunsOnlyWhatAllPrepared'
      /\ SessionIsReady' /\ SessionIsMade'
  BY DEF RequestsPinAgents, StartsWereReady, RunsOnlyWhatAllPrepared,
     SessionIsReady, SessionIsMade, Fresh
<1>3. \A b \in Agent : result'[b] = "ok" => result[b] = "ok"
  BY DEF TypeOK
<1>4. AnswersHold' /\ StateHolds'
  BY <1>3 DEF AnswersHold, StateHolds, Settled, Fresh
<1> QED
  BY <1>1, <1>2, <1>4

(* What an operation that succeeded everywhere leads to. *)
LEMMA NextStates ==
  /\ operation = "prepare" => NextState = "Ready"
  /\ operation = "start" => NextState = "Running"
  /\ operation = "stop" => NextState = "Stopped"
BY DEF NextState

(* When every agent has answered "ok", the answers say what the new state needs. *)
LEMMA FinishStep == IInv /\ Finish => IInv'
<1> SUFFICES ASSUME IInv, Finish PROVE IInv'
  OBVIOUS
<1> USE NextStates DEF IInv, Finish
<1>1. operation \in {"prepare", "start", "stop"} /\ session \in Sessions
  BY DEF TypeOK, SessionIsMade, Kinds
<1>2. TypeOK'
  BY <1>1 DEF TypeOK
<1>3. RequestsPinAgents' /\ StartsWereReady' /\ RunsOnlyWhatAllPrepared'
  BY DEF RequestsPinAgents, StartsWereReady, RunsOnlyWhatAllPrepared, Fresh
<1>4. AnswersHold' /\ SessionIsMade'
  BY DEF AnswersHold, SessionIsMade
<1>5. StateHolds'
  <2> SUFFICES ASSUME AllSucceeded, NEW a \in Agent, Fresh(a)
               PROVE  /\ state' = "Ready" => Settled(a, "Configured")'
                      /\ state' = "Running" => Settled(a, "Running")'
    BY DEF StateHolds, Fresh
  <2>1. result[a] = "ok"
    BY DEF AllSucceeded
  <2> QED
    BY <1>1, <2>1 DEF AnswersHold, Settled
<1>6. SessionIsReady'
  BY <1>1 DEF SessionIsReady
<1> QED
  BY <1>2, <1>3, <1>4, <1>5, <1>6

\* The process ends, or begins: no operation is under way, and nothing is known.
LEMMA ProcessStep == IInv /\ (StopTooEarly \/ Exit \/ Rerun) => IInv'
<1> SUFFICES ASSUME IInv, StopTooEarly \/ Exit \/ Rerun PROVE IInv'
  OBVIOUS
<1> USE DEF IInv
<1>1. /\ UNCHANGED <<session, result, requests, agents, restarts, ready>>
      /\ operation' \in {operation, "none"}
      /\ state' \in {"Exited", "Idle"}
  BY DEF StopTooEarly, Exit, Rerun
<1>2. TypeOK'
  BY <1>1 DEF TypeOK
<1>3. RequestsPinAgents' /\ StartsWereReady' /\ RunsOnlyWhatAllPrepared'
  BY <1>1 DEF RequestsPinAgents, StartsWereReady, RunsOnlyWhatAllPrepared, Fresh
<1>4. AnswersHold' /\ StateHolds' /\ SessionIsReady' /\ SessionIsMade'
  BY <1>1 DEF AnswersHold, StateHolds, SessionIsReady, SessionIsMade, Settled, Fresh
<1> QED
  BY <1>2, <1>3, <1>4

(* A lost request pins its agent no longer. *)
LEMMA LoseStep == \A r \in requests : IInv /\ Lose(r) => IInv'
<1> SUFFICES ASSUME NEW r \in requests, IInv, Lose(r) PROVE IInv'
  OBVIOUS
<1> USE DEF IInv, Lose
<1>1. TypeOK'
  BY DEF TypeOK
<1>2. /\ RequestsPinAgents' /\ StartsWereReady' /\ RunsOnlyWhatAllPrepared'
      /\ SessionIsReady' /\ SessionIsMade'
  BY DEF RequestsPinAgents, StartsWereReady, RunsOnlyWhatAllPrepared,
     SessionIsReady, SessionIsMade, Fresh
<1>3. AnswersHold' /\ StateHolds'
  BY DEF AnswersHold, StateHolds, Settled, Fresh
<1> QED
  BY <1>1, <1>2, <1>3

\* A restarted agent is not fresh, and its requests are gone.
LEMMA RestartStep == \A a \in Agent : IInv /\ Restart(a) => IInv'
<1> SUFFICES ASSUME NEW a \in Agent, IInv, Restart(a) PROVE IInv'
  OBVIOUS
<1> USE HostAssumption DEF IInv, Restart
<1>1. TypeOK'
  BY DEF TypeOK, NewAgent
<1>2. \A b \in Agent : Fresh(b)' => b # a /\ Fresh(b) /\ agents'[b] = agents[b]
  BY DEF TypeOK, Fresh
<1>3. \A q \in requests' : q \in requests /\ q.agent \in Agent
  BY DEF TypeOK
<1>4. /\ RequestsPinAgents' /\ StartsWereReady' /\ RunsOnlyWhatAllPrepared'
      /\ SessionIsReady' /\ SessionIsMade'
  BY <1>2, <1>3 DEF RequestsPinAgents, StartsWereReady, RunsOnlyWhatAllPrepared,
     SessionIsReady, SessionIsMade, Fresh
<1>5. AnswersHold' /\ StateHolds'
  BY <1>2, <1>3 DEF AnswersHold, StateHolds, Settled
<1> QED
  BY <1>1, <1>4, <1>5

-----------------------------------------------------------------------------
(* Serving a request. *)

AgentRecords == [state : {"Idle", "Configured", "Running", "Stopped"},
                 backend : {"Closed", "Open", "Configured", "Running"},
                 session : 0 .. MaxSession]

\* The only answer that becomes "ok" is that of the request that is served.
LEMMA AnswerFacts ==
  ASSUME TypeOK, NEW r \in requests, NEW answer \in {"ok", "failed"}, Answer(r, answer)
  PROVE  /\ r.agent \in Agent /\ r.kind \in Kinds /\ r.session \in Sessions
         /\ requests' = requests \ {r}
         /\ result' \in [Agent -> {"waiting", "ok", "failed"}]
         /\ \A a \in Agent : result'[a] = "ok" =>
              \/ result[a] = "ok"
              \/ /\ answer = "ok" /\ a = r.agent
                 /\ operation = r.kind /\ session = r.session
<1>1. r.agent \in Agent /\ r.kind \in Kinds /\ r.session \in Sessions
  BY DEF TypeOK
<1>2. result' = result \/ ( /\ operation = r.kind /\ session = r.session
                           /\ result' = [result EXCEPT ![r.agent] = answer])
  BY DEF Answer
<1> QED
  BY <1>1, <1>2 DEF TypeOK, Answer

(* An agent that refuses stays as it is. *)
LEMMA RefuseStep == \A r \in requests : IInv /\ Refuse(r) => IInv'
<1> SUFFICES ASSUME NEW r \in requests, IInv, Refuse(r) PROVE IInv'
  OBVIOUS
<1> USE DEF IInv
<1>1. /\ requests' = requests \ {r}
      /\ result' \in [Agent -> {"waiting", "ok", "failed"}]
      /\ \A a \in Agent : result'[a] = "ok" => result[a] = "ok"
      /\ UNCHANGED <<state, session, operation, agents, restarts, ready>>
  BY AnswerFacts DEF Refuse, Answer
<1>2. TypeOK'
  BY <1>1 DEF TypeOK
<1>3. /\ RequestsPinAgents' /\ StartsWereReady' /\ RunsOnlyWhatAllPrepared'
      /\ SessionIsReady' /\ SessionIsMade'
  BY <1>1 DEF RequestsPinAgents, StartsWereReady, RunsOnlyWhatAllPrepared,
     SessionIsReady, SessionIsMade, Fresh
<1>4. AnswersHold' /\ StateHolds'
  BY <1>1 DEF AnswersHold, StateHolds, Settled, Fresh
<1> QED
  BY <1>2, <1>3, <1>4

\* What it takes for an agent to change without harm: nothing else pins it, and
\* neither an answer nor the coordinator's state has settled it.
LEMMA ServeStep ==
  ASSUME IInv, NEW r \in requests, NEW answer \in {"ok", "failed"},
         NEW agent \in AgentRecords,
         Answer(r, answer), Becomes(r, agent),
         Fresh(r.agent) =>
           /\ \A q \in requests \ {r} : q.agent = r.agent => q.kind = "prepare"
           /\ ~Settled(r.agent, "Configured") /\ ~Settled(r.agent, "Running")
           /\ agent.state = "Running" => agent.session \in ready
           /\ answer = "ok" =>
                /\ agent.session = r.session
                /\ r.kind = "prepare" => agent.state = "Configured"
                /\ r.kind = "start" => agent.state = "Running"
  PROVE  IInv'
<1> USE DEF IInv
<1>1. /\ r.agent \in Agent
      /\ requests' = requests \ {r}
      /\ result' \in [Agent -> {"waiting", "ok", "failed"}]
      /\ UNCHANGED <<state, session, operation, restarts, ready>>
  BY AnswerFacts DEF Answer
<1>2. /\ \A a \in Agent : a # r.agent => agents'[a] = agents[a]
      /\ agents'[r.agent] = agent
      /\ agents' \in [Agent -> AgentRecords]
  BY <1>1 DEF Becomes, TypeOK, AgentRecords
<1>3. TypeOK'
  BY <1>1, <1>2 DEF TypeOK, AgentRecords
<1>4. \A q \in requests' : q \in requests /\ q # r /\ q.agent \in Agent
  BY <1>1 DEF TypeOK
<1>5. RequestsPinAgents' /\ StartsWereReady'
  BY <1>1, <1>2, <1>4 DEF RequestsPinAgents, StartsWereReady, Fresh
<1>6. RunsOnlyWhatAllPrepared' /\ SessionIsReady' /\ SessionIsMade'
  BY <1>1, <1>2 DEF RunsOnlyWhatAllPrepared, SessionIsReady, SessionIsMade, Fresh
<1>7. \A a \in Agent, s \in {"Configured", "Running"} :
        (a # r.agent /\ Settled(a, s)) => Settled(a, s)'
  BY <1>1, <1>2 DEF Settled
<1>8. StateHolds'
  BY <1>1, <1>7 DEF StateHolds, Fresh
<1>9. AnswersHold'
  <2> SUFFICES ASSUME NEW a \in Agent, Fresh(a), result'[a] = "ok"
               PROVE  /\ operation = "prepare" => Settled(a, "Configured")'
                      /\ operation = "start" => Settled(a, "Running")'
    BY <1>1 DEF AnswersHold, Fresh
  <2>1. CASE result[a] = "ok"
    BY <2>1, <1>7 DEF AnswersHold
  <2>2. CASE result[a] # "ok"
    <3>1. answer = "ok" /\ a = r.agent /\ operation = r.kind /\ session = r.session
      BY <2>2, AnswerFacts
    <3> QED
      BY <3>1, <1>1, <1>2 DEF Settled
  <2> QED
    BY <2>1, <2>2
<1> QED
  BY <1>3, <1>5, <1>6, <1>8, <1>9

\* An agent that may be prepared is neither pinned nor settled.
LEMMA PreparableIsFree ==
  ASSUME IInv, NEW r \in requests, MayPrepare(agents[r.agent]), Fresh(r.agent)
  PROVE  /\ \A q \in requests : q.agent = r.agent => q.kind = "prepare"
         /\ ~Settled(r.agent, "Configured") /\ ~Settled(r.agent, "Running")
BY DEF IInv, RequestsPinAgents, MayPrepare, Settled, Fresh

\* A start or a stop that is served is alone, and its agent not settled.
LEMMA ServedIsAlone ==
  ASSUME IInv, NEW r \in requests, r.kind # "prepare", Fresh(r.agent)
  PROVE  /\ \A q \in requests \ {r} : q.agent = r.agent => q.kind = "prepare"
         /\ ~Settled(r.agent, "Configured") /\ ~Settled(r.agent, "Running")
         /\ agents[r.agent].session = r.session
         /\ r.kind = "start" => r.session \in ready
<1>1. \A q \in requests \ {r} : q.agent = r.agent => q.kind = "prepare"
  <2> SUFFICES ASSUME NEW q \in requests \ {r}, q.agent = r.agent, q.kind # "prepare"
               PROVE  FALSE
    OBVIOUS
  <2>1. q.kind = r.kind /\ q.session = r.session
    BY DEF IInv, TypeOK, RequestsPinAgents, Kinds, Fresh
  <2> QED
    BY <2>1 DEF IInv, TypeOK
<1> QED
  BY <1>1 DEF IInv, RequestsPinAgents, StartsWereReady, Settled, Fresh

(* An agent that can be prepared is pinned by no request. *)
LEMMA PrepareAgentStep == \A r \in requests : IInv /\ PrepareAgent(r) => IInv'
<1> SUFFICES ASSUME NEW r \in requests, IInv, PrepareAgent(r) PROVE IInv'
  OBVIOUS
<1> DEFINE agent == [state |-> "Configured", backend |-> "Configured", session |-> r.session]
<1>1. agent \in AgentRecords
  BY HostAssumption DEF IInv, TypeOK, AgentRecords, Sessions
<1>2. /\ Answer(r, "ok") /\ Becomes(r, agent) /\ MayPrepare(agents[r.agent])
      /\ r.kind = "prepare"
  BY DEF PrepareAgent
<1>3. /\ agent.state = "Configured" /\ agent.session = r.session
  OBVIOUS
<1> HIDE DEF agent
<1> QED
  BY <1>1, <1>2, <1>3, PreparableIsFree, ServeStep

(* Nor is one that fails to be prepared. *)
LEMMA FailToPrepareStep == \A r \in requests : IInv /\ FailToPrepare(r) => IInv'
<1> SUFFICES ASSUME NEW r \in requests, IInv, FailToPrepare(r) PROVE IInv'
  OBVIOUS
<1>1. agents[r.agent] \in AgentRecords
  BY DEF IInv, TypeOK, AgentRecords
<1>2. PICK opened \in {"Closed", "Open", "Configured", "Running"} :
        Becomes(r, [agents[r.agent] EXCEPT !.state = "Idle", !.backend = opened])
  BY <1>1 DEF FailToPrepare, AgentRecords
<1> DEFINE agent == [agents[r.agent] EXCEPT !.state = "Idle", !.backend = opened]
<1>3. agent \in AgentRecords /\ agent.state = "Idle"
  BY <1>1 DEF AgentRecords
<1>4. Answer(r, "failed") /\ Becomes(r, agent) /\ MayPrepare(agents[r.agent])
  BY <1>2 DEF FailToPrepare
<1> HIDE DEF agent
<1> QED
  BY <1>3, <1>4, PreparableIsFree, ServeStep

(* A start is the only one under way for its agent, and of its session. *)
LEMMA StartAgentStep == \A r \in requests : IInv /\ StartAgent(r) => IInv'
<1> SUFFICES ASSUME NEW r \in requests, IInv, StartAgent(r) PROVE IInv'
  OBVIOUS
<1> DEFINE agent == [agents[r.agent] EXCEPT !.state = "Running", !.backend = "Running"]
<1>1. /\ agent \in AgentRecords /\ agent.state = "Running"
      /\ agent.session = agents[r.agent].session
  BY DEF IInv, TypeOK, AgentRecords
<1>2. Answer(r, "ok") /\ Becomes(r, agent) /\ r.kind = "start"
  BY DEF StartAgent
<1> HIDE DEF agent
<1> QED
  BY <1>1, <1>2, ServedIsAlone, ServeStep

(* So is a stop. *)
LEMMA StopAgentStep == \A r \in requests : IInv /\ StopAgent(r) => IInv'
<1> SUFFICES ASSUME NEW r \in requests, IInv, StopAgent(r) PROVE IInv'
  OBVIOUS
<1> DEFINE agent == [agents[r.agent] EXCEPT !.state = "Stopped", !.backend = "Closed"]
<1>1. /\ agent \in AgentRecords /\ agent.state = "Stopped"
      /\ agent.session = agents[r.agent].session
  BY DEF IInv, TypeOK, AgentRecords
<1>2. Answer(r, "ok") /\ Becomes(r, agent) /\ r.kind = "stop"
  BY DEF StopAgent
<1> HIDE DEF agent
<1> QED
  BY <1>1, <1>2, ServedIsAlone, ServeStep

(* An agent that fails to start or stop serves neither until it is prepared again. *)
LEMMA FailToStartOrStopStep == \A r \in requests : IInv /\ FailToStartOrStop(r) => IInv'
<1> SUFFICES ASSUME NEW r \in requests, IInv, FailToStartOrStop(r) PROVE IInv'
  OBVIOUS
<1> DEFINE agent == AfterFailure(agents[r.agent])
<1>1. agent \in AgentRecords /\ agent.state = "Idle"
  BY DEF IInv, TypeOK, AgentRecords, AfterFailure
<1>2. Answer(r, "failed") /\ Becomes(r, agent) /\ r.kind # "prepare"
  BY DEF FailToStartOrStop
<1> HIDE DEF agent
<1> QED
  BY <1>1, <1>2, ServedIsAlone, ServeStep

-----------------------------------------------------------------------------
(* The theorems. *)

\* The invariant holds in every state: all handlers, timeouts, failures, exits
\* and restarts preserve it.
THEOREM Invariance == Spec => []IInv
<1>1. IInv /\ [Next]_vars => IInv'
  <2> SUFFICES ASSUME IInv, [Next]_vars PROVE IInv'
    OBVIOUS
  <2>1. CASE UNCHANGED vars
    BY <2>1 DEF vars, IInv, TypeOK, RequestsPinAgents, StartsWereReady, AnswersHold,
       StateHolds, SessionIsReady, SessionIsMade, RunsOnlyWhatAllPrepared, Settled, Fresh
  <2>2. CASE Next
    BY <2>2, PrepareStep, StartStep, StopStep, GiveUpStep, FinishStep, ProcessStep,
       LoseStep, RefuseStep, PrepareAgentStep, FailToPrepareStep, StartAgentStep,
       StopAgentStep, FailToStartOrStopStep, RestartStep DEF Next
  <2> QED
    BY <2>1, <2>2
<1> QED
  BY InitIInv, <1>1, PTL DEF Spec

\* Every variable keeps its type, whatever is served, late, lost or restarted.
THEOREM TypeCorrect == Spec => []TypeOK
<1>1. IInv => TypeOK
  BY DEF IInv
<1> QED
  BY <1>1, Invariance, PTL

\* Agents ignore the session of a request (agent.cpp:40-82), and yet none but a
\* restarted one serves a start or a stop meant for another session.
THEOREM SessionsStayApart == Spec => []OnlyRestartsMixSessions
<1>1. IInv => OnlyRestartsMixSessions
  BY DEF IInv, RequestsPinAgents, OnlyRestartsMixSessions, IsOfItsSession, Fresh
<1> QED
  BY <1>1, Invariance, PTL

\* A coordinator in Ready or Running is right about all agents that have not been
\* restarted, whatever earlier attempts left behind.
THEOREM CoordinatorIsRight == Spec => []CoordinatorKnowsItsAgents
<1>1. IInv => CoordinatorKnowsItsAgents
  BY DEF IInv, StateHolds, CoordinatorKnowsItsAgents, Settled, Fresh
<1> QED
  BY <1>1, Invariance, PTL

\* Prepare and start are two phases: an agent runs only what all were prepared for.
THEOREM TwoPhases == Spec => []RunsOnlyWhatAllPrepared
<1>1. IInv => RunsOnlyWhatAllPrepared
  BY DEF IInv
<1> QED
  BY <1>1, Invariance, PTL
(* Whatever call of its backend fails, an agent that is not Idle is right about
   the state of its backend (agent.cpp).  Restarts, refusals and lost requests
   change nothing about that. *)
THEOREM AgentsKnowTheirBackends == Spec => []AgentKnowsItsBackend
<1>1. Init => AgentKnowsItsBackend
  BY DEF Init, AgentKnowsItsBackend, NewAgent
<1>2. TypeOK /\ AgentKnowsItsBackend /\ [Next]_vars => AgentKnowsItsBackend'
  <2> SUFFICES ASSUME TypeOK, AgentKnowsItsBackend, [Next]_vars
               PROVE  AgentKnowsItsBackend'
    OBVIOUS
  <2>1. \A r \in requests : r.agent \in Agent
    BY DEF TypeOK
  <2>2. agents \in [Agent -> AgentRecords]
    BY DEF TypeOK, AgentRecords
  <2>3. ASSUME UNCHANGED agents
        PROVE  AgentKnowsItsBackend'
    BY <2>3 DEF AgentKnowsItsBackend
  <2>4. ASSUME NEW r \in requests, PrepareAgent(r)
        PROVE  AgentKnowsItsBackend'
    BY <2>1, <2>2, <2>4 DEF AgentKnowsItsBackend, PrepareAgent, Becomes
  <2>5. ASSUME NEW r \in requests, FailToPrepare(r)
        PROVE  AgentKnowsItsBackend'
    <3>1. PICK opened \in {"Closed", "Open", "Configured", "Running"} :
            Becomes(r, [agents[r.agent] EXCEPT !.state = "Idle", !.backend = opened])
      BY <2>1, <2>2, <2>5 DEF FailToPrepare, AgentRecords
    <3> QED
      BY <2>1, <2>2, <3>1 DEF AgentKnowsItsBackend, Becomes, AgentRecords
  <2>6. ASSUME NEW r \in requests, StartAgent(r)
        PROVE  AgentKnowsItsBackend'
    BY <2>1, <2>2, <2>6 DEF AgentKnowsItsBackend, StartAgent, Becomes, AgentRecords
  <2>7. ASSUME NEW r \in requests, StopAgent(r)
        PROVE  AgentKnowsItsBackend'
    BY <2>1, <2>2, <2>7 DEF AgentKnowsItsBackend, StopAgent, Becomes, AgentRecords
  <2>8. ASSUME NEW r \in requests, FailToStartOrStop(r)
        PROVE  AgentKnowsItsBackend'
    BY <2>1, <2>2, <2>8
    DEF AgentKnowsItsBackend, FailToStartOrStop, AfterFailure, Becomes, AgentRecords
  <2>9. ASSUME NEW a \in Agent, Restart(a)
        PROVE  AgentKnowsItsBackend'
    BY <2>2, <2>9 DEF AgentKnowsItsBackend, Restart, NewAgent
  <2> QED
    BY <2>3, <2>4, <2>5, <2>6, <2>7, <2>8, <2>9
    DEF Next, vars, Prepare, Start, Stop, GiveUp, Finish, StopTooEarly, Exit, Rerun,
        Lose, Refuse
<1> QED
  BY <1>1, <1>2, TypeCorrect, PTL DEF Spec

=============================================================================
