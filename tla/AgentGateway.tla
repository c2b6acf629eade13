---------------------------- MODULE AgentGateway ----------------------------
(***************************************************************************)
(* The agent gateway of the API for the agents of one environment: signed  *)
(* messages and their replay protection, transport sessions, and the jobs  *)
(* that are offered, leased and kept by heartbeats.  A handler is one HTTP *)
(* request or one WebSocket; its transactions are separate steps, between  *)
(* which other handlers run, time passes, agents are revoked or replaced   *)
(* and sockets close.  A transaction locks the rows it decides on or reads *)
(* them in the one statement that decides, and so is one step; the time it *)
(* uses was read before it began.                                          *)
(*                                                                         *)
(* A message is known by its sequence number, which a session takes as its *)
(* id: message ids and challenges are random.  A message whose signature,  *)
(* key, age or scope is wrong is refused before anything is written, and   *)
(* so is no step.  Control messages are numbered by one update of the      *)
(* agent's row, and no code reads the number back.                         *)
(***************************************************************************)
EXTENDS Naturals, Sequences

CONSTANTS
  Agents,       \* agent ids, each registered at most once
  Jobs,         \* job ids
  Handlers,     \* requests and sockets in progress
  Null,         \* no handler, no session, no lease
  Requests,     \* the kinds of messages that agents send
  LeaseTime,    \* JOB_LEASE_MS
  JobTime,      \* how long a job may be leased at all
  MaxSequence,  \* bound: messages of one agent
  MaxTime       \* bound: the clock

ASSUME AgentGatewayAssumption ==
  /\ Null \notin Agents
  /\ Requests \subseteq {"poll", "lease", "heartbeat", "hello"}
  /\ LeaseTime \in Nat \ {0}
  /\ JobTime \in Nat \ {0}
  /\ MaxSequence \in Nat
  /\ MaxTime \in Nat

VARIABLES
  now,           \* the clock of the control plane
  status,        \* agents.status; "absent" before its registration
  lastSequence,  \* agents.last_sequence
  receipts,      \* agent_message_receipts of an agent, in order of acceptance
  sessions,      \* agent_transport_sessions: the active one, or Null
  jobs,          \* agent_jobs
  handlers,      \* handler -> what it is doing, or Null
  told,          \* history: the latest end of a lease an agent was answered
  revokedAt,     \* history: when an agent was revoked
  ended,         \* history: the sessions of an agent that are over
  overlapped     \* history: whether a heartbeat of the agent overlapped with
                 \* another of its requests

vars == <<now, status, lastSequence, receipts, sessions, jobs, handlers, told,
          revokedAt, ended, overlapped>>

\* pairing is as offline here, and outdated as online.
Active    == {"online", "offline"}
Kinds     == {"poll", "repoll", "lease", "heartbeat", "hello"}
Transport == {"polling", "websocket"}
Sessions  == [transport : Transport, id : 1..MaxSequence]

\* The columns of agent_jobs that decide who may have a job.
JobRows == [state : {"absent", "open", "completed"}, expires : Nat,
            leasedBy : Agents \cup {Null}, leasedUntil : Nat]

\* A handler: its message, the step it is at, the time it read, the end of the
\* lease it answers and the two flags of a socket.
Pcs == {"accepted", "claimed", "offer", "ready", "waiting", "answer", "idle"}

HandlerStates ==
  [agent : Agents, seq : 1..MaxSequence, kind : Kinds, job : Jobs, pc : Pcs,
   at : Nat, until : Nat, closed : BOOLEAN, releasing : BOOLEAN]

ASSUME NullAssumption == Null \notin Sessions /\ Null \notin HandlerStates

IsSocket(x) == x.kind = "hello"

\* The session that a handler claims.
Own(x) == [transport |-> IF IsSocket(x) THEN "websocket" ELSE "polling",
           id |-> x.seq]

At(h, pc) == handlers[h] # Null /\ handlers[h].pc = pc

Go(h, pc) == handlers' = [handlers EXCEPT ![h].pc = pc]

\* A request is answered with an error; a socket is closed, which releases
\* its session.
End(h) ==
  LET x == handlers[h] IN
  handlers' = [handlers EXCEPT ![h] =
    IF IsSocket(x)
      THEN [x EXCEPT !.pc = "idle", !.closed = TRUE,
                     !.releasing = x.releasing \/ ~x.closed]
      ELSE Null]

UnchangedAgents   == UNCHANGED <<status, lastSequence, receipts, revokedAt>>
UnchangedSessions == UNCHANGED <<sessions, ended>>
UnchangedJobs     == UNCHANGED <<jobs, told>>

-----------------------------------------------------------------------------
(* Messages and transports.                                                *)

\* A wrong version, which asks the replay cache only; likewise every operator
\* named Bad... is a slip that some property must notice.
BadIsNew(a, seq) == \A i \in DOMAIN receipts[a] : receipts[a][i] # seq

IsNew(a, seq) ==
  /\ seq > lastSequence[a]
  /\ \A i \in DOMAIN receipts[a] : receipts[a][i] # seq

InProgress(a) == {h \in Handlers : handlers[h] # Null /\ handlers[h].agent = a}

\* authenticate and claimAgentMessage; the first look at the agent's row can
\* only refuse what the locked one refuses too.
Accept(h, a, seq, kind, j) ==
  /\ handlers[h] = Null
  /\ status[a] \in Active
  /\ IsNew(a, seq)
  /\ lastSequence' = [lastSequence EXCEPT ![a] = seq]
  /\ receipts' = [receipts EXCEPT ![a] = Append(@, seq)]
  /\ handlers' = [handlers EXCEPT ![h] =
       [agent |-> a, seq |-> seq, kind |-> kind, job |-> j, pc |-> "accepted",
        at |-> 0, until |-> 0, closed |-> FALSE, releasing |-> FALSE]]
  /\ overlapped' = [overlapped EXCEPT ![a] =
       \/ @
       \/ \E g \in InProgress(a) : "heartbeat" \in {kind, handlers[g].kind}]
  /\ UNCHANGED <<now, status, revokedAt>>
  /\ UnchangedSessions /\ UnchangedJobs

\* insert ... on conflict do update, unless the agent is revoked.
Claim(x) ==
  IF status[x.agent] = "revoked"
    THEN UNCHANGED <<sessions, ended>>
    ELSE /\ sessions' = [sessions EXCEPT ![x.agent] = Own(x)]
         /\ ended' = [ended EXCEPT ![x.agent] =
              @ \cup ({sessions[x.agent]} \ {Null, Own(x)})]

ClaimTransport(h) ==
  /\ At(h, "accepted")
  /\ Claim(handlers[h])
  /\ Go(h, "claimed")
  /\ UNCHANGED <<now, overlapped>> /\ UnchangedAgents /\ UnchangedJobs

IsTransportActive(x) == sessions[x.agent] = Own(x)

\* A request goes on to its operation and reads the clock for it; a socket
\* goes on to offer a job.
CheckTransport(h) ==
  /\ At(h, "claimed")
  /\ IF ~IsTransportActive(handlers[h])
       THEN End(h)
       ELSE handlers' = [handlers EXCEPT ![h].at = now, ![h].pc =
              IF IsSocket(handlers[h]) THEN "offer" ELSE "ready"]
  /\ UNCHANGED <<now, overlapped>>
  /\ UnchangedAgents /\ UnchangedSessions /\ UnchangedJobs

\* Claims the transport again after the wait.
BadPollAgain(h) ==
  /\ At(h, "waiting")
  /\ Claim(handlers[h])
  /\ handlers' = [handlers EXCEPT ![h].at = now, ![h].pc = "ready",
                                  ![h].kind = "repoll"]
  /\ UNCHANGED <<now, overlapped>> /\ UnchangedAgents /\ UnchangedJobs

\* The wait of a long poll is over.
PollAgain(h) ==
  /\ At(h, "waiting")
  /\ IF IsTransportActive(handlers[h])
       THEN handlers' = [handlers EXCEPT ![h].at = now, ![h].pc = "ready",
                                         ![h].kind = "repoll"]
       ELSE End(h)
  /\ UNCHANGED <<now, overlapped>>
  /\ UnchangedAgents /\ UnchangedSessions /\ UnchangedJobs

-----------------------------------------------------------------------------
(* Jobs.                                                                   *)

Enqueue(j) ==
  /\ jobs[j].state = "absent"
  /\ jobs' = [jobs EXCEPT ![j].state = "open", ![j].expires = now + JobTime]
  /\ UNCHANGED <<now, handlers, told, overlapped>>
  /\ UnchangedAgents /\ UnchangedSessions

\* canLease
Open(j, at) == jobs[j].state = "open" /\ jobs[j].expires > at

\* Forgets that the job may be leased.
BadLeased(j, at) == FALSE

Leased(j, at) == jobs[j].leasedUntil > at

\* poll, which takes the oldest of the available jobs: any, since the age of a
\* job is left out.  Without one a request may wait once, and a socket scans
\* again later.
Poll(h) ==
  LET x == handlers[h] IN
  /\ At(h, "ready") /\ x.kind \in {"poll", "repoll", "hello"}
  /\ \/ \E j \in Jobs :
          /\ status[x.agent] = "online"
          /\ Open(j, x.at) /\ ~Leased(j, x.at)
          /\ IF x.closed THEN Go(h, "idle")
             ELSE handlers' = [handlers EXCEPT ![h].job = j, ![h].pc = "answer"]
     \/ /\ \A j \in Jobs : \/ status[x.agent] # "online"
                           \/ ~Open(j, x.at) \/ Leased(j, x.at)
        /\ CASE x.kind = "hello" -> Go(h, "idle")
             [] x.kind = "repoll" -> End(h)
             [] OTHER -> Go(h, "waiting") \/ End(h)
  /\ UNCHANGED <<now, overlapped>>
  /\ UnchangedAgents /\ UnchangedSessions /\ UnchangedJobs

\* h answers that its agent holds the job until a time.
Answers(h, until) ==
  handlers' = [handlers EXCEPT ![h].pc = "answer", ![h].until = until]

\* lease: the holder of a lease is answered what it has.
Lease(h) ==
  LET x == handlers[h]
      j == x.job
  IN
  /\ At(h, "ready") /\ x.kind = "lease"
  /\ \/ /\ \/ status[x.agent] # "online"
           \/ ~Open(j, x.at)
           \/ Leased(j, x.at) /\ jobs[j].leasedBy # x.agent
        /\ End(h) /\ UNCHANGED jobs
     \/ /\ status[x.agent] = "online" /\ Open(j, x.at)
        /\ Leased(j, x.at) /\ jobs[j].leasedBy = x.agent
        /\ Answers(h, jobs[j].leasedUntil) /\ UNCHANGED jobs
     \/ /\ status[x.agent] = "online" /\ Open(j, x.at) /\ ~Leased(j, x.at)
        /\ Answers(h, x.at + LeaseTime)
        /\ jobs' = [jobs EXCEPT ![j].leasedBy = x.agent,
                                ![j].leasedUntil = x.at + LeaseTime]
  /\ UNCHANGED <<now, told, overlapped>>
  /\ UnchangedAgents /\ UnchangedSessions

\* Does not look at the agent again.
BadKeeps(x) ==
  /\ jobs[x.job].leasedBy = x.agent
  /\ Leased(x.job, x.at) /\ Open(x.job, x.at)

\* Whether a heartbeat finds a lease to extend.
Keeps(x) ==
  /\ jobs[x.job].leasedBy = x.agent
  /\ Leased(x.job, x.at) /\ Open(x.job, x.at)
  /\ status[x.agent] = "online"

\* heartbeat: the new end counts from the time read before.
Heartbeat(h) ==
  LET x == handlers[h] IN
  /\ At(h, "ready") /\ x.kind = "heartbeat"
  /\ IF Keeps(x)
       THEN /\ jobs' = [jobs EXCEPT ![x.job].leasedUntil = x.at + LeaseTime]
            /\ Answers(h, x.at + LeaseTime)
       ELSE End(h) /\ UNCHANGED jobs
  /\ UNCHANGED <<now, told, overlapped>>
  /\ UnchangedAgents /\ UnchangedSessions

\* signedResponse: numbering the answer fails for an agent that is not online
\* any more.
Answer(h) ==
  LET x == handlers[h] IN
  /\ At(h, "answer")
  /\ IF status[x.agent] = "online"
       THEN /\ told' = [told EXCEPT ![x.agent][x.job] =
                          IF x.until > @ THEN x.until ELSE @]
            /\ IF IsSocket(x) THEN Go(h, "idle")
               ELSE handlers' = [handlers EXCEPT ![h] = Null]
       ELSE End(h) /\ UNCHANGED told
  /\ UNCHANGED <<now, jobs, overlapped>>
  /\ UnchangedAgents /\ UnchangedSessions

-----------------------------------------------------------------------------
(* Sockets.                                                                *)

\* The scan timer: sendAvailableJob reads the clock and asks for its session.
Scan(h) ==
  /\ At(h, "idle") /\ ~handlers[h].closed
  /\ handlers' = [handlers EXCEPT ![h].at = now, ![h].pc = "offer"]
  /\ UNCHANGED <<now, overlapped>>
  /\ UnchangedAgents /\ UnchangedSessions /\ UnchangedJobs

\* A session that was handed off closes its socket.
Offer(h) ==
  /\ At(h, "offer")
  /\ IF IsTransportActive(handlers[h]) THEN Go(h, "ready") ELSE End(h)
  /\ UNCHANGED <<now, overlapped>>
  /\ UnchangedAgents /\ UnchangedSessions /\ UnchangedJobs

\* The socket closes.  If the hello was not authenticated yet, nothing will
\* release the session that it goes on to claim.
Close(h) ==
  /\ handlers[h] # Null /\ IsSocket(handlers[h]) /\ ~handlers[h].closed
  /\ \E authenticated \in {TRUE, handlers[h].pc # "accepted"} :
       handlers' = [handlers EXCEPT ![h].closed = TRUE,
                                    ![h].releasing = authenticated]
  /\ UNCHANGED <<now, overlapped>>
  /\ UnchangedAgents /\ UnchangedSessions /\ UnchangedJobs

\* Deletes the row of the agent, whosever session it is.
BadReleased(x) == sessions[x.agent] # Null

Released(x) == sessions[x.agent] = Own(x)

ReleaseTransport(h) ==
  LET x == handlers[h] IN
  /\ x # Null /\ x.releasing
  /\ IF Released(x)
       THEN /\ sessions' = [sessions EXCEPT ![x.agent] = Null]
            /\ ended' = [ended EXCEPT ![x.agent] = @ \cup {sessions[x.agent]}]
       ELSE UnchangedSessions
  /\ handlers' = [handlers EXCEPT ![h].releasing = FALSE]
  /\ UNCHANGED <<now, overlapped>> /\ UnchangedAgents /\ UnchangedJobs

\* Nothing of a closed socket is left; or the process of the API dies.
Leave(h) ==
  /\ handlers[h] # Null
  /\ handlers' = [handlers EXCEPT ![h] = Null]
  /\ UNCHANGED <<now, overlapped>>
  /\ UnchangedAgents /\ UnchangedSessions /\ UnchangedJobs

-----------------------------------------------------------------------------
(* Agents and time.                                                        *)

\* consumeAndPair: a new agent takes the place of the active one.  A drain is
\* refused while work is open (module AgentPairing); a forced replacement
\* completes every job of the environment.
Pair(a, mode) ==
  LET active == {b \in Agents : status[b] \in Active} IN
  /\ status[a] = "absent"
  /\ mode = "none" => active = {}
  /\ status' = [b \in Agents |-> IF b = a THEN "offline"
                                 ELSE IF b \in active THEN "revoked"
                                 ELSE status[b]]
  /\ revokedAt' = [b \in Agents |-> IF b \in active THEN now ELSE revokedAt[b]]
  /\ jobs' = [j \in Jobs |->
       IF mode = "force" /\ active # {} /\ jobs[j].state = "open"
         THEN [jobs[j] EXCEPT !.state = "completed", !.leasedBy = Null,
                              !.leasedUntil = 0]
         ELSE jobs[j]]
  /\ UNCHANGED <<now, lastSequence, receipts, handlers, told, overlapped>>
  /\ UnchangedSessions

\* revokeAgent: leases and sessions are left as they are.
Revoke(a) ==
  /\ status[a] \in Active
  /\ status' = [status EXCEPT ![a] = "revoked"]
  /\ revokedAt' = [revokedAt EXCEPT ![a] = now]
  /\ UNCHANGED <<now, lastSequence, receipts, handlers, overlapped>>
  /\ UnchangedSessions /\ UnchangedJobs

\* An agent is marked online or offline by a part that is not in the code yet.
SetPresence(a) ==
  /\ status[a] \in Active
  /\ status' = [status EXCEPT ![a] = IF @ = "online" THEN "offline"
                                                     ELSE "online"]
  /\ UNCHANGED <<now, lastSequence, receipts, revokedAt, handlers, overlapped>>
  /\ UnchangedSessions /\ UnchangedJobs

Tick ==
  /\ now < MaxTime
  /\ now' = now + 1
  /\ UNCHANGED <<handlers, overlapped>>
  /\ UnchangedAgents /\ UnchangedSessions /\ UnchangedJobs

-----------------------------------------------------------------------------
Init ==
  /\ now = 0
  /\ status = [a \in Agents |-> "absent"]
  /\ lastSequence = [a \in Agents |-> 0]
  /\ receipts = [a \in Agents |-> << >>]
  /\ sessions = [a \in Agents |-> Null]
  /\ jobs = [j \in Jobs |-> [state |-> "absent", expires |-> 0,
                             leasedBy |-> Null, leasedUntil |-> 0]]
  /\ handlers = [h \in Handlers |-> Null]
  /\ told = [a \in Agents |-> [j \in Jobs |-> 0]]
  /\ revokedAt = [a \in Agents |-> MaxTime]
  /\ ended = [a \in Agents |-> {}]
  /\ overlapped = [a \in Agents |-> FALSE]

Request(h) ==
  \/ ClaimTransport(h) \/ CheckTransport(h) \/ PollAgain(h) \/ Poll(h)
  \/ Lease(h) \/ Heartbeat(h) \/ Answer(h)

Socket(h) == Scan(h) \/ Offer(h) \/ Close(h) \/ ReleaseTransport(h) \/ Leave(h)

Next ==
  \/ Tick
  \/ \E j \in Jobs : Enqueue(j)
  \/ \E a \in Agents : Revoke(a) \/ SetPresence(a)
  \/ \E a \in Agents, mode \in {"none", "drain", "force"} : Pair(a, mode)
  \/ \E h \in Handlers, a \in Agents, seq \in 1..MaxSequence,
        kind \in Requests, j \in Jobs : Accept(h, a, seq, kind, j)
  \/ \E h \in Handlers : Request(h) \/ Socket(h)

Spec == Init /\ [][Next]_vars

-----------------------------------------------------------------------------
(* The type invariant: the clock, the tables and the handlers.             *)
TypeOK ==
  /\ now \in Nat
  /\ status \in [Agents -> Active \cup {"absent", "revoked"}]
  /\ lastSequence \in [Agents -> Nat]
  /\ receipts \in [Agents -> Seq(Nat)]
  /\ sessions \in [Agents -> Sessions \cup {Null}]
  /\ jobs \in [Jobs -> JobRows]
  /\ handlers \in [Handlers -> HandlerStates \cup {Null}]
  /\ told \in [Agents -> [Jobs -> Nat]]
  /\ revokedAt \in [Agents -> Nat]
  /\ ended \in [Agents -> SUBSET Sessions]
  /\ overlapped \in [Agents -> BOOLEAN]

(* "Unsigned 64-bit monotonic sequence for that direction, unseen message  *)
(* ID": however messages are duplicated, delayed and handled at once, each *)
(* is acted upon at most once and none after a newer one.                  *)
MessagesActInOrder ==
  \A a \in Agents : \A i, k \in DOMAIN receipts[a] :
    i < k => receipts[a][i] < receipts[a][k]

(* What the control plane told an agent about its lease stays true until   *)
(* the lease is over: the job is leased to it at least that long and so to *)
(* nobody else, whatever other agents ask for, and although an agent that  *)
(* is revoked or drained is replaced.  The exceptions are jobs completed   *)
(* by a forced replacement, and agents with overlapping heartbeats: a late *)
(* one moves the end of a lease back.                                      *)
PromiseIsKept ==
  \A a \in Agents, j \in Jobs :
    \/ told[a][j] <= now
    \/ overlapped[a]
    \/ jobs[j].state = "completed"
    \/ jobs[j].leasedBy = a /\ jobs[j].leasedUntil >= told[a][j]

(* "Lease extends only while agent remains valid": within one lease time   *)
(* of its revocation an agent holds no lease any more, and was told of     *)
(* none that lasts longer, although a heartbeat may be under way.          *)
RevocationEndsLeases ==
  \A a \in Agents, j \in Jobs : status[a] = "revoked" =>
    /\ told[a][j] <= revokedAt[a] + LeaseTime
    /\ jobs[j].leasedBy = a =>
         jobs[j].leasedUntil <= revokedAt[a] + LeaseTime

(* "Only one delivery transport is active for an agent session; switching  *)
(* to polling invalidates the previous WebSocket session": a session that  *)
(* was displaced or released is never active again.                        *)
SessionsDoNotReturn == \A a \in Agents : sessions[a] \notin ended[a]

(* A session that nothing displaces is only ended by the end of its own    *)
(* socket: the late release of an old socket leaves its successor alone.   *)
SessionsEndWithTheirSocket ==
  [][\A a \in Agents : sessions[a] # Null /\ sessions'[a] = Null =>
       \E h \in InProgress(a) : /\ Own(handlers[h]) = sessions[a]
                                /\ handlers[h].closed]_vars
=============================================================================
