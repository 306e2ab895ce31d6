------------------------------- MODULE Enrolment -------------------------------
(***************************************************************************)
(* Enrolment of agents (src/internal/api/agents.go): a one-time token is   *)
(* turned into an agent row and an API key, which is answered once.  The   *)
(* client is ensureAgent of the signing worker (cmd/signing-worker), which *)
(* keeps the key in two files and is restarted by Docker when it exits.    *)
(* Heartbeats, the reaper and the change of a role by name follow.         *)
(*                                                                         *)
(* A token issued before token_key existed is found by a scan that locks   *)
(* every unused row of its kind.  A key stands for the agent it belongs    *)
(* to; it and the token are unguessable.                                   *)
(***************************************************************************)
EXTENDS Naturals

CONSTANTS Tokens,
          Legacy,     \* tokens without token_key, issued by an old release
          NoToken,
          Workers,    \* containers that enrol
          Gone,       \* nobody waits for the answer of a request
          Signing,    \* those that enrol under the name signing-worker
          AgentIds,   \* numbers of agent rows
          NoAgent,
          Torn,       \* a key file that was truncated and not written
          Handlers,   \* enrolment requests the server may run at the same time
          Free,       \* nobody has locked the token row
          Roles,      \* roles a token may be issued with
          MaxFaults   \* bound: crashes, failures, lost answers, expiries

DefaultRole == "device_agent"
WorkerRole == "signing_worker"

ASSUME EnrolAssumptions ==
    /\ Legacy \subseteq Tokens /\ NoToken \notin Tokens
    /\ Signing \subseteq Workers /\ Gone \notin Workers
    /\ AgentIds \subseteq Nat /\ NoAgent \notin AgentIds
    /\ Torn \notin AgentIds \union {NoAgent}
    /\ Free \notin Handlers
    /\ DefaultRole \in Roles /\ WorkerRole \in Roles
    /\ MaxFaults \in Nat

VARIABLES tokens,   \* [Tokens -> row of agent_enrolment_tokens]
          agents,   \* [AgentIds -> row of agents]
          locked,   \* [Tokens -> handler that holds the row FOR UPDATE]
          handlers, \* [Handlers -> request in handleEnrolAgent]
          config,   \* [Workers -> SIDEY_ENROLMENT_TOKEN]
          files,    \* [Workers -> the files api_key and agent_id]
          procs,    \* [Workers -> the worker's process]
          faults

vars == <<tokens, agents, locked, handlers, config, files, procs, faults>>

Token == [issued: BOOLEAN, role: Roles, expired: BOOLEAN,
          usedBy: AgentIds \union {NoAgent}]

\* token: what the agent was enrolled with;  beat: the last heartbeat is recent.
Agent == [token: Tokens \union {NoToken}, role: Roles, online: BOOLEAN, beat: BOOLEAN]

NoRow == [token |-> NoToken, role |-> DefaultRole, online |-> FALSE, beat |-> FALSE]

\* client: the worker that waits for the answer.
Handler == [step: {"idle", "waiting", "found", "consumed"},
            token: Tokens \union {NoToken}, client: Workers \union {Gone}]

NoRequest == [step |-> "idle", token |-> NoToken, client |-> Gone]

\* The content of agent_id is only logged.
Files == [key: AgentIds \union {NoAgent, Torn}, id: BOOLEAN]

Proc == [step: {"down", "posting", "replied", "keyed", "running"},
         key: AgentIds \union {NoAgent, Torn}]

Down == [step |-> "down", key |-> NoAgent]

\* Tokens, agents, handlers and worker processes keep their types; every agent
\* row has a role of the schema.
TypeOK ==
    /\ tokens \in [Tokens -> Token]
    /\ agents \in [AgentIds -> Agent]
    /\ locked \in [Tokens -> Handlers \union {Free}]
    /\ handlers \in [Handlers -> Handler]
    /\ config \in [Workers -> Tokens \union {NoToken}]
    /\ files \in [Workers -> Files]
    /\ procs \in [Workers -> Proc]
    /\ faults \in Nat

Init ==
    /\ tokens = [t \in Tokens |-> [issued |-> t \in Legacy, role |-> DefaultRole,
                                   expired |-> FALSE, usedBy |-> NoAgent]]
    /\ agents = [a \in AgentIds |-> NoRow]
    /\ locked = [t \in Tokens |-> Free]
    /\ handlers = [h \in Handlers |-> NoRequest]
    /\ config = [w \in Workers |-> NoToken]
    /\ files = [w \in Workers |-> [key |-> NoAgent, id |-> FALSE]]
    /\ procs = [w \in Workers |-> Down]
    /\ faults = 0

Fault == faults < MaxFaults /\ faults' = faults + 1

Unused(t) == tokens[t].usedBy = NoAgent

Usable(t) == t \in Tokens /\ tokens[t].issued /\ Unused(t) /\ ~tokens[t].expired

-------------------------------------------------------------------------------
(***************************************************************************)
(* The operator.                                                           *)
(***************************************************************************)

handleCreateEnrolmentToken(t, role) ==
    /\ ~tokens[t].issued
    /\ tokens' = [tokens EXCEPT ![t].issued = TRUE, ![t].role = role]
    /\ UNCHANGED <<agents, locked, handlers, config, files, procs, faults>>

\* A worker that is down gets a token that works; two workers may get the same.
Configure(w, t) ==
    /\ procs[w].step = "down"
    /\ ~Usable(config[w]) /\ Usable(t)
    /\ config' = [config EXCEPT ![w] = t]
    /\ UNCHANGED <<tokens, agents, locked, handlers, files, procs, faults>>

\* expires_at passes.
Expires(t) ==
    /\ tokens[t].issued /\ ~tokens[t].expired
    /\ Fault
    /\ tokens' = [tokens EXCEPT ![t].expired = TRUE]
    /\ UNCHANGED <<agents, locked, handlers, config, files, procs>>

-------------------------------------------------------------------------------
(***************************************************************************)
(* ensureAgent.                                                            *)
(***************************************************************************)

\* Mutant: the key file alone counts as enrolled.
Enrolled_KeyFileOnly(w) == files[w].key # NoAgent

Enrolled(w) == files[w].key # NoAgent /\ files[w].id

StartEnrolled(w) ==
    /\ procs[w].step = "down" /\ Enrolled(w)
    /\ procs' = [procs EXCEPT ![w] = [step |-> "running", key |-> files[w].key]]
    /\ UNCHANGED <<tokens, agents, locked, handlers, config, files, faults>>

\* Without a token the process exits at once.
Post(w, h) ==
    /\ procs[w].step = "down" /\ ~Enrolled(w) /\ config[w] # NoToken
    /\ handlers[h].step = "idle"
    /\ procs' = [procs EXCEPT ![w].step = "posting"]
    /\ handlers' = [handlers EXCEPT ![h] = [step |-> "waiting",
                                            token |-> config[w], client |-> w]]
    /\ UNCHANGED <<tokens, agents, locked, config, files, faults>>

WriteKey(w) ==
    /\ procs[w].step = "replied"
    /\ files' = [files EXCEPT ![w].key = procs[w].key]
    /\ procs' = [procs EXCEPT ![w].step = "keyed"]
    /\ UNCHANGED <<tokens, agents, locked, handlers, config, faults>>

WriteId(w) ==
    /\ procs[w].step = "keyed"
    /\ files' = [files EXCEPT ![w].id = TRUE]
    /\ procs' = [procs EXCEPT ![w].step = "running"]
    /\ UNCHANGED <<tokens, agents, locked, handlers, config, faults>>

\* The process is killed.  Its request, if any, goes on; a file being written
\* is left truncated.
Crash(w) ==
    /\ procs[w].step # "down" /\ Fault
    /\ procs' = [procs EXCEPT ![w] = Down]
    /\ handlers' = [h \in Handlers |->
                      IF handlers[h].client = w THEN [handlers[h] EXCEPT !.client = Gone]
                                                ELSE handlers[h]]
    /\ \/ UNCHANGED files
       \/ procs[w].step = "replied" /\ files' = [files EXCEPT ![w].key = Torn]
       \/ procs[w].step = "keyed" /\ files' = [files EXCEPT ![w].id = TRUE]
    /\ UNCHANGED <<tokens, agents, locked, config>>

-------------------------------------------------------------------------------
(***************************************************************************)
(* handleEnrolAgent.  A refusal has no api_key, and the worker exits.      *)
(***************************************************************************)
LockSet(t) == IF t \in Legacy THEN {s \in Legacy : Unused(s)} ELSE {t}

Release(h) == [t \in Tokens |-> IF locked[t] = h THEN Free ELSE locked[t]]

\* The end of a request that answers the process of its client with p.
Answer(h, p) ==
    /\ handlers' = [handlers EXCEPT ![h] = NoRequest]
    /\ procs' = [w \in Workers |-> IF w = handlers[h].client THEN p ELSE procs[w]]

\* SELECT ... FOR UPDATE waits for the rows and sees what their holders
\* committed.
Found(h) ==
    LET t == handlers[h].token IN
    /\ handlers[h].step = "waiting"
    /\ \A s \in LockSet(t) : locked[s] = Free
    /\ Usable(t)
    /\ locked' = [s \in Tokens |-> IF s \in LockSet(t) THEN h ELSE locked[s]]
    /\ handlers' = [handlers EXCEPT ![h].step = "found"]
    /\ UNCHANGED <<tokens, agents, config, files, procs, faults>>

Refused(h) ==
    LET t == handlers[h].token IN
    /\ handlers[h].step = "waiting"
    /\ \A s \in LockSet(t) : locked[s] = Free
    /\ ~Usable(t)
    /\ Answer(h, Down)
    /\ UNCHANGED <<tokens, agents, locked, config, files, faults>>

\* The agent is inserted, and the token consumed unless it is used.  The lock
\* makes it unused, and the answer 409 one that is never given.
Consume(h) ==
    /\ handlers[h].step = "found" /\ Unused(handlers[h].token)
    /\ handlers' = [handlers EXCEPT ![h].step = "consumed"]
    /\ UNCHANGED <<tokens, agents, locked, config, files, procs, faults>>

\* Mutant: the agent of a legacy token gets no role.
RoleOf_Blank(t) == IF t \in Legacy THEN "" ELSE tokens[t].role

\* The role of the new agent is the token's; a legacy token has none.
RoleOf(t) == IF t \in Legacy THEN DefaultRole ELSE tokens[t].role

\* Mutant: the token is marked by a second transaction, which never comes.
Enrol_Unmarked(t, a) ==
    /\ agents' = [agents EXCEPT ![a] = [token |-> t, role |-> RoleOf(t),
                                        online |-> TRUE, beat |-> TRUE]]
    /\ UNCHANGED tokens

\* What COMMIT makes visible.
Enrol(t, a) ==
    /\ agents' = [agents EXCEPT ![a] = [token |-> t, role |-> RoleOf(t),
                                        online |-> TRUE, beat |-> TRUE]]
    /\ tokens' = [tokens EXCEPT ![t].usedBy = a]

Fresh(a) ==
    /\ agents[a].token = NoToken
    /\ \A b \in AgentIds : agents[b].token = NoToken => a <= b

Commit(h, a) ==
    /\ handlers[h].step = "consumed" /\ Fresh(a)
    /\ Enrol(handlers[h].token, a)
    /\ locked' = Release(h)
    /\ Answer(h, [step |-> "replied", key |-> a])
    /\ UNCHANGED <<config, files, faults>>

\* The transaction commits and the answer does not arrive.
CommitUnheard(h, a) ==
    /\ handlers[h].step = "consumed" /\ Fresh(a)
    /\ Fault
    /\ Enrol(handlers[h].token, a)
    /\ locked' = Release(h)
    /\ Answer(h, Down)
    /\ UNCHANGED <<config, files>>

\* A statement fails or the connection of the client is gone: rollback.
Rollback(h) ==
    /\ handlers[h].step \in {"found", "consumed"}
    /\ Fault
    /\ locked' = Release(h)
    /\ Answer(h, Down)
    /\ UNCHANGED <<tokens, agents, config, files>>

\* The control plane dies, and with it every transaction and connection.
RestartServer ==
    /\ Fault
    /\ handlers' = [h \in Handlers |-> NoRequest]
    /\ locked' = [t \in Tokens |-> Free]
    /\ procs' = [w \in Workers |-> IF procs[w].step = "posting" THEN Down ELSE procs[w]]
    /\ UNCHANGED <<tokens, agents, config, files>>

-------------------------------------------------------------------------------
(***************************************************************************)
(* An enrolled agent.                                                      *)
(***************************************************************************)
Known(key) == key \in AgentIds /\ agents[key].token # NoToken

\* agent(): a request under an unknown key is refused.
Authorised(w) == procs[w].step = "running" /\ Known(procs[w].key)

\* Mutant: a heartbeat only moves the time stamp.
handleHeartbeat_TimeOnly(w) ==
    /\ Authorised(w)
    /\ agents' = [agents EXCEPT ![procs[w].key].beat = TRUE]
    /\ UNCHANGED <<tokens, locked, handlers, config, files, procs, faults>>

handleHeartbeat(w) ==
    /\ Authorised(w)
    /\ agents' = [agents EXCEPT ![procs[w].key].online = TRUE, ![procs[w].key].beat = TRUE]
    /\ UNCHANGED <<tokens, locked, handlers, config, files, procs, faults>>

\* The role of an agent, raised if it enrolled as signing-worker.
agentRole(w, role) == IF w \in Signing THEN WorkerRole ELSE role

\* Asking for work, whether there is some or not.
ClaimJobs(w) ==
    /\ Authorised(w)
    /\ agents' = [agents EXCEPT ![procs[w].key].role = agentRole(w, @)]
    /\ UNCHANGED <<tokens, locked, handlers, config, files, procs, faults>>

\* Two minutes without a heartbeat.
Stale(a) ==
    /\ agents[a].beat
    /\ agents' = [agents EXCEPT ![a].beat = FALSE]
    /\ UNCHANGED <<tokens, locked, handlers, config, files, procs, faults>>

\* Mutant: the reaper looks at agents whose last heartbeat is recent.
Overdue_Recent(agent) == agent.online /\ agent.beat

Overdue(agent) == agent.online /\ ~agent.beat

\* The last statement of Reap.
ReapAgents ==
    /\ \E a \in AgentIds : Overdue(agents[a])
    /\ agents' = [a \in AgentIds |->
                    IF Overdue(agents[a]) THEN [agents[a] EXCEPT !.online = FALSE]
                                          ELSE agents[a]]
    /\ UNCHANGED <<tokens, locked, handlers, config, files, procs, faults>>

-------------------------------------------------------------------------------
HandlerStep(h) ==
    \/ Found(h) \/ Refused(h) \/ Consume(h)
    \/ \E a \in AgentIds : Commit(h, a)

WorkerStep(w) ==
    \/ StartEnrolled(w)
    \/ \E h \in Handlers : Post(w, h)
    \/ WriteKey(w) \/ WriteId(w)

Next ==
    \/ \E t \in Tokens :
         \/ \E role \in Roles : handleCreateEnrolmentToken(t, role)
         \/ Expires(t)
    \/ \E w \in Workers :
         \/ \E t \in Tokens : Configure(w, t)
         \/ WorkerStep(w) \/ Crash(w)
         \/ handleHeartbeat(w) \/ ClaimJobs(w)
    \/ \E h \in Handlers :
         \/ HandlerStep(h) \/ Rollback(h)
         \/ \E a \in AgentIds : CommitUnheard(h, a)
    \/ \E a \in AgentIds : Stale(a)
    \/ ReapAgents
    \/ RestartServer

Spec == Init /\ [][Next]_vars

Issue == \E t \in Tokens, role \in Roles : handleCreateEnrolmentToken(t, role)

Replace(w) == \E t \in Tokens : Configure(w, t)

\* Docker restarts an exited worker; handlers end; the loops of the worker and of
\* the reaper go on; the operator issues tokens and replaces the ones that do not
\* work.
FairSpec ==
    /\ Spec
    /\ WF_vars(Issue)
    /\ \A w \in Workers :
         /\ SF_vars(Replace(w)) /\ SF_vars(WorkerStep(w))
         /\ WF_vars(handleHeartbeat(w))
    /\ \A h \in Handlers : WF_vars(HandlerStep(h))
    /\ \A a \in AgentIds : WF_vars(Stale(a))
    /\ WF_vars(ReapAgents)

-------------------------------------------------------------------------------
(***************************************************************************)
(* Properties.                                                             *)
(***************************************************************************)

\* A token enrols one agent: two concurrent requests with the same token cannot
\* both succeed (handleEnrolAgent), whatever is retried, rolled back or restarted.
OneAgentPerToken ==
    \A a, b \in AgentIds :
        (Known(a) /\ agents[a].token = agents[b].token) => a = b

\* A worker that runs has the key of an agent the server knows: no crash between
\* the answer and the second file leaves a state that ensureAgent takes for an
\* enrolment (a worker with a dead key would poll for ever and never enrol again).
RunningKeysWork ==
    \A w \in Workers : procs[w].step = "running" => Known(procs[w].key)

\* However enrolment was disturbed, an operator who replaces dead tokens ends up
\* with workers that are authorised and shown online, again after every silence
\* (ensureAgent, handleEnrolAgent, handleHeartbeat, Reap).
WorkersServe ==
    \A w \in Workers : []<>(Authorised(w) /\ agents[procs[w].key].online)

\* Comment of the roles (agents.go): a role "is bound to the admin-issued enrolment
\* token, never taken from capability data supplied by the enrolling client".
\* agentRole raises an agent that enrolled under the name signing-worker, whatever
\* its token says: TLC refutes RoleIsIssued under role_by_name.cfg.
RoleIsIssued ==
    \A a \in AgentIds : Known(a) => agents[a].role = RoleOf(agents[a].token)

Holds(w, a) == procs[w].key = a \/ files[w].key = a

\* An agent whose key was lost with an answer or a crash is shown offline in the
\* end, and stays so.
LostAgentsGoOffline ==
    \A a \in AgentIds :
        <>[](\A w \in Workers : ~Holds(w, a)) => <>[]~agents[a].online
===============================================================================
