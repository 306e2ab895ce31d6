---------------------------- MODULE EnrolmentProofs ----------------------------
(***************************************************************************)
(* Enrolment for any number of tokens, workers and concurrent requests.    *)
(***************************************************************************)
EXTENDS Enrolment, TLAPS

\* A request that has found its token holds the row, and the row is unused.
HoldersAreAlone ==
    \A h \in Handlers :
        /\ handlers[h].step # "idle" => handlers[h].token \in Tokens
        /\ handlers[h].step \in {"found", "consumed"} =>
             locked[handlers[h].token] = h /\ Unused(handlers[h].token)

\* The row of a token names the agent enrolled with it.
TokensNameAgents ==
    \A a \in AgentIds : Known(a) => tokens[agents[a].token].usedBy = a

\* A client waits for one request.
ClientsWait ==
    /\ \A h \in Handlers : handlers[h].client \in Workers =>
                             procs[handlers[h].client].step = "posting"
    /\ \A g, h \in Handlers : (handlers[g].client \in Workers
                               /\ handlers[g].client = handlers[h].client) => g = h

\* The two files and the process agree about an enrolment.
FilesAgree ==
    \A w \in Workers :
        /\ procs[w].step \in {"replied", "keyed", "running"} => Known(procs[w].key)
        /\ procs[w].step = "keyed" => files[w].key = procs[w].key
        /\ procs[w].step \in {"posting", "replied", "keyed"} => ~files[w].id
        /\ files[w].id => Known(files[w].key)

IInv == TypeOK /\ HoldersAreAlone /\ TokensNameAgents /\ ClientsWait /\ FilesAgree

LEMMA InitInv == Init => IInv
  <1> SUFFICES ASSUME Init PROVE IInv
    OBVIOUS
  <1> USE EnrolAssumptions
  <1>1. TypeOK
    BY DEF Init, TypeOK, Token, Agent, Handler, Files, Proc, Down, NoRow, NoRequest
  <1>2. HoldersAreAlone /\ TokensNameAgents /\ ClientsWait /\ FilesAgree
    BY DEF Init, HoldersAreAlone, TokensNameAgents, ClientsWait, FilesAgree, Known,
           NoRow, NoRequest, Down
  <1> QED
    BY <1>1, <1>2 DEF IInv

-------------------------------------------------------------------------------
(***************************************************************************)
(* The operator and the worker.                                            *)
(***************************************************************************)

\* The operator changes neither agents nor what uses a token.
LEMMA OperatorInv ==
    ASSUME IInv, tokens' \in [Tokens -> Token],
           \A t \in Tokens : tokens'[t].usedBy = tokens[t].usedBy,
           config' \in [Workers -> Tokens \union {NoToken}], faults' \in Nat,
           UNCHANGED <<agents, locked, handlers, files, procs>>
    PROVE  IInv'
  <1>1. TypeOK'
    BY DEF IInv, TypeOK
  <1>2. HoldersAreAlone' /\ ClientsWait' /\ FilesAgree'
    BY DEF IInv, HoldersAreAlone, ClientsWait, FilesAgree, Known, Unused
  <1>3. TokensNameAgents'
    BY DEF IInv, TokensNameAgents, Known, TypeOK, Agent
  <1> QED
    BY <1>1, <1>2, <1>3 DEF IInv

LEMMA IssueInv ==
    ASSUME IInv, NEW t \in Tokens, NEW role \in Roles,
           handleCreateEnrolmentToken(t, role) \/ Expires(t)
    PROVE  IInv'
  <1>1. /\ tokens' \in [Tokens -> Token]
        /\ \A s \in Tokens : tokens'[s].usedBy = tokens[s].usedBy
    <2>1. CASE handleCreateEnrolmentToken(t, role)
      <3> DEFINE row == [tokens[t] EXCEPT !.issued = TRUE, !.role = role]
      <3>1. row \in Token /\ row.usedBy = tokens[t].usedBy
        BY DEF IInv, TypeOK, Token
      <3>2. tokens' = [tokens EXCEPT ![t] = row]
        BY <2>1 DEF handleCreateEnrolmentToken, IInv, TypeOK
      <3> QED
        BY <3>1, <3>2 DEF IInv, TypeOK
    <2>2. CASE Expires(t)
      <3> DEFINE row == [tokens[t] EXCEPT !.expired = TRUE]
      <3>1. row \in Token /\ row.usedBy = tokens[t].usedBy
        BY DEF IInv, TypeOK, Token
      <3>2. tokens' = [tokens EXCEPT ![t] = row]
        BY <2>2 DEF Expires, IInv, TypeOK
      <3> QED
        BY <3>1, <3>2 DEF IInv, TypeOK
    <2> QED
      BY <2>1, <2>2
  <1>2. /\ config' = config /\ faults' \in Nat
        /\ UNCHANGED <<agents, locked, handlers, files, procs>>
    BY DEF IInv, TypeOK, handleCreateEnrolmentToken, Expires, Fault
  <1>3. config \in [Workers -> Tokens \union {NoToken}]
    BY DEF IInv, TypeOK
  <1> QED
    BY <1>1, <1>2, <1>3, OperatorInv

LEMMA ConfigureInv ==
    ASSUME IInv, NEW w \in Workers, NEW t \in Tokens, Configure(w, t)
    PROVE  IInv'
  <1>1. /\ config' \in [Workers -> Tokens \union {NoToken}]
        /\ tokens' \in [Tokens -> Token] /\ faults' \in Nat
        /\ UNCHANGED <<tokens, agents, locked, handlers, files, procs>>
    BY DEF IInv, TypeOK, Configure
  <1> QED
    BY <1>1, OperatorInv

LEMMA StartInv ==
    ASSUME IInv, NEW w \in Workers, StartEnrolled(w)
    PROVE  IInv'
  <1> USE EnrolAssumptions
  <1>1. TypeOK'
    BY DEF IInv, TypeOK, StartEnrolled, Proc, Files
  <1>2. HoldersAreAlone' /\ TokensNameAgents'
    BY DEF IInv, HoldersAreAlone, TokensNameAgents, Known, Unused, StartEnrolled
  <1>3. ClientsWait'
    BY DEF IInv, TypeOK, ClientsWait, StartEnrolled
  <1>4. FilesAgree'
    BY DEF IInv, TypeOK, FilesAgree, Known, StartEnrolled, Enrolled
  <1> QED
    BY <1>1, <1>2, <1>3, <1>4 DEF IInv

LEMMA PostInv ==
    ASSUME IInv, NEW w \in Workers, NEW h \in Handlers, Post(w, h)
    PROVE  IInv'
  <1> USE EnrolAssumptions
  <1>1. TypeOK'
    BY DEF IInv, TypeOK, Post, Proc, Handler
  <1>2. HoldersAreAlone'
    BY DEF IInv, TypeOK, HoldersAreAlone, Unused, Post
  <1>3. TokensNameAgents'
    BY DEF IInv, TokensNameAgents, Known, Post
  <1>4. ClientsWait'
    BY DEF IInv, TypeOK, ClientsWait, Post, Proc
  <1>5. ~files[w].id
    BY DEF IInv, TypeOK, FilesAgree, Known, Post, Enrolled, Files
  <1>6. FilesAgree'
    BY <1>5 DEF IInv, TypeOK, FilesAgree, Known, Post, Proc
  <1> QED
    BY <1>1, <1>2, <1>3, <1>4, <1>6 DEF IInv

LEMMA WriteInv ==
    ASSUME IInv, NEW w \in Workers, WriteKey(w) \/ WriteId(w)
    PROVE  IInv'
  <1> USE EnrolAssumptions
  <1>1. TypeOK'
    <2>1. procs[w] \in Proc /\ files[w] \in Files
      BY DEF IInv, TypeOK
    <2>2. CASE WriteKey(w)
      <3>1. /\ [files[w] EXCEPT !.key = procs[w].key] \in Files
            /\ [procs[w] EXCEPT !.step = "keyed"] \in Proc
        BY <2>1 DEF Files, Proc
      <3> QED
        BY <2>2, <3>1 DEF IInv, TypeOK, WriteKey
    <2>3. CASE WriteId(w)
      <3>1. /\ [files[w] EXCEPT !.id = TRUE] \in Files
            /\ [procs[w] EXCEPT !.step = "running"] \in Proc
        BY <2>1 DEF Files, Proc
      <3> QED
        BY <2>3, <3>1 DEF IInv, TypeOK, WriteId
    <2> QED
      BY <2>2, <2>3
  <1>2. HoldersAreAlone' /\ TokensNameAgents'
    BY DEF IInv, HoldersAreAlone, TokensNameAgents, Known, Unused, WriteKey, WriteId
  <1>3. ClientsWait'
    BY DEF IInv, TypeOK, ClientsWait, WriteKey, WriteId
  <1>4. FilesAgree'
    BY DEF IInv, TypeOK, FilesAgree, Known, WriteKey, WriteId, Proc, Files
  <1> QED
    BY <1>1, <1>2, <1>3, <1>4 DEF IInv

LEMMA CrashInv ==
    ASSUME IInv, NEW w \in Workers, Crash(w)
    PROVE  IInv'
  <1> USE EnrolAssumptions
  <1>1. TypeOK'
    <2>1. /\ Down \in Proc
          /\ [files[w] EXCEPT !.key = Torn] \in Files
          /\ [files[w] EXCEPT !.id = TRUE] \in Files
          /\ \A h \in Handlers : [handlers[h] EXCEPT !.client = Gone] \in Handler
      <3>1. files[w] \in Files /\ \A h \in Handlers : handlers[h] \in Handler
        BY DEF IInv, TypeOK
      <3>2. Down \in Proc
        BY DEF Down, Proc
      <3>3. [files[w] EXCEPT !.key = Torn] \in Files /\ [files[w] EXCEPT !.id = TRUE] \in Files
        BY <3>1 DEF Files
      <3>4. \A h \in Handlers : [handlers[h] EXCEPT !.client = Gone] \in Handler
        BY <3>1 DEF Handler
      <3> QED
        BY <3>2, <3>3, <3>4
    <2>2. files' \in [Workers -> Files]
      BY <2>1 DEF IInv, TypeOK, Crash
    <2>3. handlers' \in [Handlers -> Handler] /\ procs' \in [Workers -> Proc]
      BY <2>1 DEF IInv, TypeOK, Crash
    <2> QED
      BY <2>2, <2>3 DEF IInv, TypeOK, Crash, Fault
  <1>2. HoldersAreAlone'
    BY DEF IInv, TypeOK, HoldersAreAlone, Unused, Crash, Handler
  <1>3. TokensNameAgents'
    BY DEF IInv, TokensNameAgents, Known, Crash
  <1>4. ClientsWait'
    BY DEF IInv, TypeOK, ClientsWait, Crash, Handler, Down
  <1>5. FilesAgree'
    BY DEF IInv, TypeOK, FilesAgree, Known, Crash, Down, Proc, Files
  <1> QED
    BY <1>1, <1>2, <1>3, <1>4, <1>5 DEF IInv

-------------------------------------------------------------------------------
(***************************************************************************)
(* The request.                                                            *)
(***************************************************************************)
LEMMA FoundInv ==
    ASSUME IInv, NEW h \in Handlers, Found(h) \/ Consume(h)
    PROVE  IInv'
  <1> USE EnrolAssumptions
  <1>1. TypeOK'
    BY DEF IInv, TypeOK, Found, Consume, Handler
  <1>2. HoldersAreAlone'
    <2>1. CASE Found(h)
      BY <2>1 DEF IInv, TypeOK, HoldersAreAlone, Unused, Usable, LockSet, Found, Handler
    <2>2. CASE Consume(h)
      BY <2>2 DEF IInv, TypeOK, HoldersAreAlone, Unused, Consume, Handler
    <2> QED
      BY <2>1, <2>2
  <1>3. TokensNameAgents' /\ FilesAgree'
    BY DEF IInv, TokensNameAgents, FilesAgree, Known, Found, Consume
  <1>4. ClientsWait'
    BY DEF IInv, TypeOK, ClientsWait, Found, Consume, Handler
  <1> QED
    BY <1>1, <1>2, <1>3, <1>4 DEF IInv

\* A request that ends without a trace but the answer Down.
LEMMA EndInv ==
    ASSUME IInv, NEW h \in Handlers, Answer(h, Down),
           UNCHANGED <<tokens, agents, files, config>>, faults' \in Nat,
           locked' = locked \/ locked' = Release(h)
    PROVE  IInv'
  <1> USE EnrolAssumptions
  <1>1. TypeOK'
    BY DEF IInv, TypeOK, Answer, Release, NoRequest, Down, Handler, Proc
  <1>2. HoldersAreAlone'
    BY DEF IInv, TypeOK, HoldersAreAlone, Unused, Answer, Release, NoRequest, Handler
  <1>3. TokensNameAgents'
    BY DEF IInv, TokensNameAgents, Known
  <1>4. ClientsWait'
    BY DEF IInv, TypeOK, ClientsWait, Answer, NoRequest, Handler
  <1>5. FilesAgree'
    BY DEF IInv, TypeOK, FilesAgree, Known, Answer, Down
  <1> QED
    BY <1>1, <1>2, <1>3, <1>4, <1>5 DEF IInv

\* The two ways to commit.
LEMMA CommitInv ==
    ASSUME IInv, NEW h \in Handlers, NEW a \in AgentIds,
           Commit(h, a) \/ CommitUnheard(h, a)
    PROVE  IInv'
  <1> USE EnrolAssumptions
  <1> DEFINE t == handlers[h].token
  <1>1. /\ t \in Tokens /\ locked[t] = h /\ Unused(t)
        /\ agents[a].token = NoToken
    BY DEF IInv, HoldersAreAlone, Commit, CommitUnheard, Fresh
  <1>2. PICK p \in Proc : /\ Answer(h, p)
                          /\ p.step \in {"down", "replied"}
                          /\ p.step = "replied" => p.key = a
    BY DEF Commit, CommitUnheard, Down, Proc
  <1>3. Enrol(t, a) /\ locked' = Release(h) /\ UNCHANGED <<config, files>>
        /\ faults' \in Nat
    BY DEF IInv, TypeOK, Commit, CommitUnheard, Fault
  <1>4. /\ agents' \in [AgentIds -> Agent] /\ tokens' \in [Tokens -> Token]
        /\ agents'[a].token = t /\ tokens'[t].usedBy = a
        /\ \A b \in AgentIds \ {a} : agents'[b] = agents[b]
        /\ \A s \in Tokens \ {t} : tokens'[s] = tokens[s]
    BY <1>1, <1>3 DEF IInv, TypeOK, Enrol, RoleOf, Token, Agent
  <1>5. TypeOK'
    BY <1>2, <1>3, <1>4 DEF IInv, TypeOK, Answer, Release, NoRequest, Handler
  <1>6. HoldersAreAlone'
    BY <1>1, <1>2, <1>3, <1>4 DEF IInv, TypeOK, HoldersAreAlone, Unused, Answer, Release,
       NoRequest, Handler
  <1>7. TokensNameAgents'
    <2> SUFFICES ASSUME NEW b \in AgentIds, Known(b)'
                 PROVE  tokens'[agents'[b].token].usedBy = b
      BY DEF TokensNameAgents
    <2>1. CASE b = a
      BY <2>1, <1>4
    <2>2. CASE b # a
      <3>1. Known(b) /\ agents'[b].token = agents[b].token
        BY <2>2, <1>4 DEF Known
      <3>2. tokens[agents[b].token].usedBy = b /\ agents[b].token \in Tokens
        BY <3>1 DEF IInv, TokensNameAgents, Known, TypeOK, Agent
      <3>3. agents[b].token # t
        BY <3>2, <1>1 DEF Unused
      <3> QED
        BY <3>1, <3>2, <3>3, <1>4
    <2> QED
      BY <2>1, <2>2
  <1> DEFINE KnownNext(key) == key \in AgentIds /\ agents'[key].token # NoToken
  <1>8. KnownNext(a) /\ \A key : Known(key) => KnownNext(key)
    BY <1>1, <1>4 DEF Known
  <1>9. ClientsWait'
    BY <1>2 DEF IInv, TypeOK, ClientsWait, Answer, NoRequest, Handler
  <1>10. \A w \in Workers :
           /\ procs'[w].step \in {"replied", "keyed", "running"} => KnownNext(procs'[w].key)
           /\ procs'[w].step = "keyed" => files'[w].key = procs'[w].key
           /\ procs'[w].step \in {"posting", "replied", "keyed"} => ~files'[w].id
           /\ files'[w].id => KnownNext(files'[w].key)
    <2> HIDE DEF KnownNext
    <2> TAKE w \in Workers
    <2>1. files' = files
      BY <1>3
    <2>2. CASE w = handlers[h].client
      <3>1. procs[w].step = "posting" /\ procs'[w] = p
        BY <2>2, <1>2 DEF IInv, ClientsWait, Answer
      <3> QED
        BY <3>1, <2>1, <1>2, <1>8 DEF IInv, FilesAgree
    <2>3. CASE w # handlers[h].client
      <3>1. procs'[w] = procs[w]
        BY <2>3, <1>2 DEF Answer
      <3> QED
        BY <3>1, <2>1, <1>8 DEF IInv, FilesAgree
    <2> QED
      BY <2>2, <2>3
  <1>11. FilesAgree'
    BY <1>10 DEF FilesAgree, Known
  <1> QED
    BY <1>5, <1>6, <1>7, <1>9, <1>11 DEF IInv

LEMMA RestartInv == IInv /\ RestartServer => IInv'
  <1> SUFFICES ASSUME IInv, RestartServer PROVE IInv'
    OBVIOUS
  <1> USE EnrolAssumptions
  <1>1. TypeOK'
    BY DEF IInv, TypeOK, RestartServer, Fault, NoRequest, Down, Handler, Proc
  <1>2. HoldersAreAlone' /\ TokensNameAgents' /\ ClientsWait'
    BY DEF IInv, HoldersAreAlone, TokensNameAgents, ClientsWait, Known, RestartServer,
           NoRequest
  <1>3. FilesAgree'
    BY DEF IInv, TypeOK, FilesAgree, Known, RestartServer, Down
  <1> QED
    BY <1>1, <1>2, <1>3 DEF IInv

-------------------------------------------------------------------------------
(***************************************************************************)
(* The enrolled agent.                                                     *)
(***************************************************************************)

\* A step that changes nothing of the agents but role and connection.
LEMMA AgentsInv ==
    ASSUME IInv, agents' \in [AgentIds -> Agent],
           \A a \in AgentIds : agents'[a].token = agents[a].token,
           UNCHANGED <<tokens, locked, handlers, config, files, procs, faults>>
    PROVE  IInv'
  <1>1. \A key : Known(key)' <=> Known(key)
    BY DEF Known
  <1>2. TypeOK' /\ HoldersAreAlone' /\ ClientsWait'
    BY DEF IInv, TypeOK, HoldersAreAlone, ClientsWait, Unused
  <1>3. TokensNameAgents' /\ FilesAgree'
    BY <1>1 DEF IInv, TokensNameAgents, FilesAgree
  <1> QED
    BY <1>2, <1>3 DEF IInv

LEMMA WorkerCallInv ==
    ASSUME IInv, NEW w \in Workers, handleHeartbeat(w) \/ ClaimJobs(w)
    PROVE  IInv'
  <1> USE EnrolAssumptions
  <1> DEFINE a == procs[w].key
  <1>1. a \in AgentIds /\ agents[a] \in Agent
    BY DEF IInv, TypeOK, handleHeartbeat, ClaimJobs, Authorised, Known
  <1>2. PICK row \in Agent : row.token = agents[a].token /\ agents' = [agents EXCEPT ![a] = row]
    <2>1. CASE handleHeartbeat(w)
      <3>1. agents' = [agents EXCEPT ![a] = [agents[a] EXCEPT !.online = TRUE, !.beat = TRUE]]
        BY <2>1, <1>1 DEF IInv, TypeOK, handleHeartbeat
      <3> QED
        BY <3>1, <1>1 DEF Agent
    <2>2. CASE ClaimJobs(w)
      <3>1. agents' = [agents EXCEPT ![a] =
                         [agents[a] EXCEPT !.role = agentRole(w, agents[a].role)]]
        BY <2>2, <1>1 DEF IInv, TypeOK, ClaimJobs
      <3> QED
        BY <3>1, <1>1 DEF Agent, agentRole
    <2> QED
      BY <2>1, <2>2
  <1>3. UNCHANGED <<tokens, locked, handlers, config, files, procs, faults>>
    BY DEF handleHeartbeat, ClaimJobs
  <1>4. /\ agents' \in [AgentIds -> Agent]
        /\ \A b \in AgentIds : agents'[b].token = agents[b].token
    BY <1>1, <1>2 DEF IInv, TypeOK
  <1> QED
    BY <1>3, <1>4, AgentsInv

LEMMA TimeInv ==
    ASSUME IInv, NEW a \in AgentIds, Stale(a)
    PROVE  IInv'
  <1>1. /\ agents' \in [AgentIds -> Agent]
        /\ \A b \in AgentIds : agents'[b].token = agents[b].token
    BY DEF IInv, TypeOK, Agent, Stale
  <1>2. UNCHANGED <<tokens, locked, handlers, config, files, procs, faults>>
    BY DEF Stale
  <1> QED
    BY <1>1, <1>2, AgentsInv

LEMMA ReapInv == IInv /\ ReapAgents => IInv'
  <1> SUFFICES ASSUME IInv, ReapAgents PROVE IInv'
    OBVIOUS
  <1>1. /\ agents' \in [AgentIds -> Agent]
        /\ \A b \in AgentIds : agents'[b].token = agents[b].token
    BY DEF IInv, TypeOK, Agent, ReapAgents
  <1>2. UNCHANGED <<tokens, locked, handlers, config, files, procs, faults>>
    BY DEF ReapAgents
  <1> QED
    BY <1>1, <1>2, AgentsInv

-------------------------------------------------------------------------------
LEMMA NextInv == IInv /\ [Next]_vars => IInv'
  <1> SUFFICES ASSUME IInv, [Next]_vars PROVE IInv'
    OBVIOUS
  <1>1. ASSUME NEW t \in Tokens, NEW role \in Roles, handleCreateEnrolmentToken(t, role)
        PROVE  IInv'
    BY <1>1, IssueInv
  <1>2. ASSUME NEW t \in Tokens, Expires(t) PROVE IInv'
    BY <1>2, IssueInv, EnrolAssumptions
  <1>3. ASSUME NEW w \in Workers, NEW t \in Tokens, Configure(w, t) PROVE IInv'
    BY <1>3, ConfigureInv
  <1>4. ASSUME NEW w \in Workers, WorkerStep(w) PROVE IInv'
    <2>1. CASE StartEnrolled(w)
      BY <2>1, StartInv
    <2>2. ASSUME NEW h \in Handlers, Post(w, h) PROVE IInv'
      BY <2>2, PostInv
    <2>3. CASE WriteKey(w) \/ WriteId(w)
      BY <2>3, WriteInv
    <2> QED
      BY <1>4, <2>1, <2>2, <2>3 DEF WorkerStep
  <1>5. ASSUME NEW w \in Workers, Crash(w) PROVE IInv'
    BY <1>5, CrashInv
  <1>6. ASSUME NEW w \in Workers, handleHeartbeat(w) \/ ClaimJobs(w) PROVE IInv'
    BY <1>6, WorkerCallInv
  <1>7. ASSUME NEW h \in Handlers, HandlerStep(h) PROVE IInv'
    <2>1. CASE Found(h) \/ Consume(h)
      BY <2>1, FoundInv
    <2>2. CASE Refused(h)
      <3>1. /\ Answer(h, Down) /\ UNCHANGED <<tokens, agents, files, config>>
            /\ faults' \in Nat /\ locked' = locked
        BY <2>2 DEF Refused, IInv, TypeOK
      <3> QED
        BY <3>1, EndInv
    <2>3. ASSUME NEW a \in AgentIds, Commit(h, a) PROVE IInv'
      BY <2>3, CommitInv
    <2> QED
      BY <1>7, <2>1, <2>2, <2>3 DEF HandlerStep
  <1>8. ASSUME NEW h \in Handlers, Rollback(h) PROVE IInv'
    <2>1. /\ Answer(h, Down) /\ UNCHANGED <<tokens, agents, files, config>>
          /\ faults' \in Nat /\ locked' = Release(h)
      BY <1>8 DEF Rollback, Fault, IInv, TypeOK
    <2> QED
      BY <2>1, EndInv
  <1>9. ASSUME NEW h \in Handlers, NEW a \in AgentIds, CommitUnheard(h, a) PROVE IInv'
    BY <1>9, CommitInv
  <1>10. ASSUME NEW a \in AgentIds, Stale(a) PROVE IInv'
    BY <1>10, TimeInv
  <1>11. CASE ReapAgents
    BY <1>11, ReapInv
  <1>12. CASE RestartServer
    BY <1>12, RestartInv
  <1>13. CASE UNCHANGED vars
    BY <1>13 DEF vars, IInv, TypeOK, HoldersAreAlone, TokensNameAgents, ClientsWait,
       FilesAgree, Known, Unused
  <1> QED
    BY <1>1, <1>2, <1>3, <1>4, <1>5, <1>6, <1>7, <1>8, <1>9, <1>10, <1>11, <1>12, <1>13
    DEF Next

\* The state of enrolment keeps its types, for any sets of tokens, workers,
\* agents and requests.
THEOREM EnrolmentTypes == Spec => []TypeOK
  <1>1. IInv => TypeOK
    BY DEF IInv
  <1> QED
    BY InitInv, NextInv, <1>1, PTL DEF Spec

\* A token enrols at most one agent (handleEnrolAgent: the lock, the check of
\* used_at and the consumption in one transaction), however many requests,
\* retries, rollbacks and restarts there are.
THEOREM TokensEnrolOnce == Spec => []OneAgentPerToken
  <1>1. IInv => OneAgentPerToken
    BY DEF IInv, TypeOK, Agent, TokensNameAgents, OneAgentPerToken, Known
  <1> QED
    BY InitInv, NextInv, <1>1, PTL DEF Spec

\* A running worker has the key of an enrolled agent (ensureAgent), wherever
\* its earlier incarnations were killed.
THEOREM RunningWorkersAreKnown == Spec => []RunningKeysWork
  <1>1. IInv => RunningKeysWork
    BY DEF IInv, FilesAgree, RunningKeysWork
  <1> QED
    BY InitInv, NextInv, <1>1, PTL DEF Spec
===============================================================================
