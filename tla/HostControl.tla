----------------------------- MODULE HostControl -----------------------------
(***************************************************************************)
(* The host control plane of the hardware prototype: the coordinator       *)
(* (coordinator.cpp, driven by the command loop of ssr_coordinator_main)   *)
(* takes all agents (agent.cpp behind agent_grpc_service.cpp) through      *)
(* prepare, start and stop; an agent drives its dataplane backend.         *)
(*                                                                         *)
(* An operation calls all agents in parallel and waits for every call.  A  *)
(* call that exceeds its deadline fails for the coordinator, whether or    *)
(* not the agent has served the request, or will.  Agents are given the    *)
(* session of a request and compare it with nothing.                       *)
(*                                                                         *)
(* Abstractions: a session id is a number, every prepare makes a new one   *)
(* (create_session_id() draws 128 random bits); `session` in an agent is   *)
(* the session whose run configuration its backend holds; requests are     *)
(* well-formed, as the coordinator builds them, and the reply of a served  *)
(* request passes validate_reply(), being filled in under the same lock;   *)
(* status queries change nothing.  The backend is the mock one, the only   *)
(* one there is, and any call of it may fail.                              *)
(***************************************************************************)
EXTENDS Naturals, FiniteSets

CONSTANTS
  Agent,        \* the endpoints
  MaxSession,   \* bound: how many sessions are prepared
  MaxRestart    \* bound: how often an agent process is restarted

ASSUME HostAssumption == MaxSession \in Nat /\ MaxRestart \in Nat

VARIABLES
  state,      \* the coordinator's state_, or "Exited" between two processes
  session,    \* session_id_, the last one made
  operation,  \* the operation under way, "none" between two commands
  result,     \* what has become of its call to each agent
  requests,   \* calls the agents have yet to serve
  agents,     \* each agent and its backend
  restarts,   \* how often each agent was restarted
  ready       \* history: the sessions every agent was prepared for

vars == <<state, session, operation, result, requests, agents, restarts, ready>>

Kinds == {"prepare", "start", "stop"}

Sessions == 1 .. MaxSession

NewAgent == [state |-> "Idle", backend |-> "Closed", session |-> 0]

Init ==
  /\ state = "Idle"
  /\ session = 0
  /\ operation = "none"
  /\ result = [a \in Agent |-> "failed"]
  /\ requests = {}
  /\ agents = [a \in Agent |-> NewAgent]
  /\ restarts = [a \in Agent |-> 0]
  /\ ready = {}

-----------------------------------------------------------------------------
(* The coordinator. *)

Request(kind, a, s) == [kind |-> kind, agent |-> a, session |-> s]

\* run_parallel(): call every agent.
CallAll(kind, s) ==
  /\ operation' = kind
  /\ result' = [a \in Agent |-> "waiting"]
  /\ requests' = requests \cup {Request(kind, a, s) : a \in Agent}

Prepare ==
  /\ operation = "none"
  /\ state = "Idle"
  /\ session < MaxSession
  /\ session' = session + 1
  /\ CallAll("prepare", session + 1)
  /\ UNCHANGED <<state, agents, restarts, ready>>

Start ==
  /\ operation = "none"
  /\ state = "Ready"
  /\ CallAll("start", session)
  /\ UNCHANGED <<state, session, agents, restarts, ready>>

Stop ==
  /\ operation = "none"
  /\ state = "Running"
  /\ CallAll("stop", session)
  /\ UNCHANGED <<state, session, agents, restarts, ready>>

\* rpc_timeout_ is over, or the connection broke.
GiveUp(a) ==
  /\ operation # "none"
  /\ result[a] = "waiting"
  /\ result' = [result EXCEPT ![a] = "failed"]
  /\ UNCHANGED <<state, session, operation, requests, agents, restarts, ready>>

\* MUTANT: one agent that succeeded is enough.
AnySucceeded == \E a \in Agent : result[a] = "ok"

AllSucceeded == \A a \in Agent : result[a] = "ok"

NextState == CASE operation = "prepare" -> "Ready"
               [] operation = "start" -> "Running"
               [] operation = "stop" -> "Stopped"

\* All calls are over: go on to the next state, or back to Idle.
Finish ==
  /\ operation # "none"
  /\ \A a \in Agent : result[a] # "waiting"
  /\ state' = IF AllSucceeded THEN NextState ELSE "Idle"
  /\ ready' = IF AllSucceeded /\ operation = "prepare"
              THEN ready \cup {session} ELSE ready
  /\ operation' = "none"
  /\ UNCHANGED <<session, result, requests, agents, restarts>>

\* "stop" is offered in state Ready, but agents_stop() throws there and main()
\* ends the process.
StopTooEarly ==
  /\ operation = "none"
  /\ state = "Ready"
  /\ state' = "Exited"
  /\ UNCHANGED <<session, operation, result, requests, agents, restarts, ready>>

\* "quit", or the process is killed: its requests go on without it.
Exit ==
  /\ state # "Exited"
  /\ state' = "Exited"
  /\ operation' = "none"
  /\ UNCHANGED <<session, result, requests, agents, restarts, ready>>

Rerun ==
  /\ state = "Exited"
  /\ state' = "Idle"
  /\ UNCHANGED <<session, operation, result, requests, agents, restarts, ready>>

-----------------------------------------------------------------------------
(* An agent serves a request. *)

\* The call is answered; the answer may not make it in time.
Answer(r, answer) ==
  /\ requests' = requests \ {r}
  /\ result' \in
       {result} \cup
       (IF operation = r.kind /\ session = r.session /\ result[r.agent] = "waiting"
        THEN {[result EXCEPT ![r.agent] = answer]} ELSE {})
  /\ UNCHANGED <<state, session, operation, restarts, ready>>

\* The request of a broken connection is never served.
Lose(r) ==
  /\ requests' = requests \ {r}
  /\ UNCHANGED <<state, session, operation, result, agents, restarts, ready>>

Becomes(r, agent) == agents' = [agents EXCEPT ![r.agent] = agent]

MayPrepare(agent) == agent.state \in {"Idle", "Stopped"}

Serves(agent, kind) ==
  CASE kind = "prepare" -> MayPrepare(agent)
    [] kind = "start" -> agent.state = "Configured"
    [] kind = "stop" -> agent.state = "Running"

Refuse(r) ==
  /\ ~Serves(agents[r.agent], r.kind)
  /\ Answer(r, "failed")
  /\ UNCHANGED agents

\* A closed backend is opened first; only an open one can be configured.
PrepareAgent(r) ==
  /\ r.kind = "prepare"
  /\ MayPrepare(agents[r.agent])
  /\ agents[r.agent].backend \in {"Closed", "Open"}
  /\ Becomes(r, [state |-> "Configured", backend |-> "Configured", session |-> r.session])
  /\ Answer(r, "ok")

\* open() or configure() throws; an opened backend stays open.
FailToPrepare(r) ==
  /\ r.kind = "prepare"
  /\ MayPrepare(agents[r.agent])
  /\ \E opened \in IF agents[r.agent].backend = "Closed"
                   THEN {"Closed", "Open"} ELSE {agents[r.agent].backend} :
       Becomes(r, [agents[r.agent] EXCEPT !.state = "Idle", !.backend = opened])
  /\ Answer(r, "failed")

StartAgent(r) ==
  /\ r.kind = "start"
  /\ agents[r.agent].state = "Configured"
  /\ agents[r.agent].backend = "Configured"
  /\ Becomes(r, [agents[r.agent] EXCEPT !.state = "Running", !.backend = "Running"])
  /\ Answer(r, "ok")

\* The mock closes a backend it stops; its configuration stays.
StopAgent(r) ==
  /\ r.kind = "stop"
  /\ agents[r.agent].state = "Running"
  /\ agents[r.agent].backend = "Running"
  /\ Becomes(r, [agents[r.agent] EXCEPT !.state = "Stopped", !.backend = "Closed"])
  /\ Answer(r, "ok")

\* MUTANT: an agent that failed to stop takes itself for stopped.
StoppedAfterFailure(agent) == [agent EXCEPT !.state = "Stopped"]

AfterFailure(agent) == [agent EXCEPT !.state = "Idle"]

\* start() or stop() of the backend throws, and leaves the backend as it was.
FailToStartOrStop(r) ==
  /\ r.kind \in {"start", "stop"}
  /\ Serves(agents[r.agent], r.kind)
  /\ Becomes(r, AfterFailure(agents[r.agent]))
  /\ Answer(r, "failed")

\* The agent's process is started again; requests on its connections are lost.
Restart(a) ==
  /\ restarts[a] < MaxRestart
  /\ restarts' = [restarts EXCEPT ![a] = @ + 1]
  /\ agents' = [agents EXCEPT ![a] = NewAgent]
  /\ requests' = {r \in requests : r.agent # a}
  /\ UNCHANGED <<state, session, operation, result, ready>>

Next ==
  \/ Prepare
  \/ Start
  \/ Stop
  \/ \E a \in Agent : GiveUp(a)
  \/ Finish
  \/ StopTooEarly
  \/ Exit
  \/ Rerun
  \/ \E r \in requests : Lose(r)
  \/ \E r \in requests : Refuse(r)
  \/ \E r \in requests : PrepareAgent(r)
  \/ \E r \in requests : FailToPrepare(r)
  \/ \E r \in requests : StartAgent(r)
  \/ \E r \in requests : StopAgent(r)
  \/ \E r \in requests : FailToStartOrStop(r)
  \/ \E a \in Agent : Restart(a)

Spec == Init /\ [][Next]_vars

-----------------------------------------------------------------------------
(* Properties. *)

\* Every variable keeps its type: state_ of coordinator and agents has no other
\* values, and only sessions that were made are asked for.
TypeOK ==
  /\ state \in {"Idle", "Ready", "Running", "Stopped", "Exited"}
  /\ session \in 0 .. MaxSession
  /\ operation \in Kinds \cup {"none"}
  /\ result \in [Agent -> {"waiting", "ok", "failed"}]
  /\ requests \subseteq [kind : Kinds, agent : Agent, session : Sessions]
  /\ agents \in [Agent -> [state : {"Idle", "Configured", "Running", "Stopped"},
                           backend : {"Closed", "Open", "Configured", "Running"},
                           session : 0 .. MaxSession]]
  /\ restarts \in [Agent -> 0 .. MaxRestart]
  /\ ready \subseteq Sessions

\* An agent that would serve this start or stop has the session it is meant for.
IsOfItsSession(r) ==
  (r.kind # "prepare" /\ Serves(agents[r.agent], r.kind))
    => agents[r.agent].session = r.session

\* Agents do not look at the session of a request.  Even so, and however late a
\* request is served, after whatever failures and coordinators, no agent but a
\* restarted one starts or stops a session on behalf of another.
OnlyRestartsMixSessions ==
  \A r \in requests : restarts[r.agent] = 0 => IsOfItsSession(r)

\* Between two commands a coordinator that is Ready or Running is right about
\* every agent, but for restarted ones: late requests of earlier attempts have
\* not changed any of them.
CoordinatorKnowsItsAgents ==
  (operation = "none" /\ state \in {"Ready", "Running"}) =>
    \A a \in Agent : restarts[a] = 0 =>
      /\ agents[a].session = session
      /\ agents[a].state = (IF state = "Ready" THEN "Configured" ELSE "Running")

\* Prepare and start are two phases: no agent runs a session that some other agent
\* could not be prepared for.
RunsOnlyWhatAllPrepared ==
  \A a \in Agent :
    (agents[a].state = "Running" /\ restarts[a] = 0) => agents[a].session \in ready

\* Whatever fails, an agent that is not Idle is right about its backend.
AgentKnowsItsBackend ==
  \A a \in Agent :
    /\ agents[a].state = "Configured" => agents[a].backend = "Configured"
    /\ agents[a].state = "Running" => agents[a].backend = "Running"
    /\ agents[a].state = "Stopped" => agents[a].backend = "Closed"
=============================================================================
