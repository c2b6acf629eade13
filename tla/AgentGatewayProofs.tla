------------------------- MODULE AgentGatewayProofs -------------------------
(***************************************************************************)
(* Theorems about the agent gateway, for any number of agents, jobs and    *)
(* handlers in progress, any number of messages and any clock: messages    *)
(* act in order, a session that is over does not come back, the end of a   *)
(* lease that an agent was told is kept, and a revoked agent holds nothing *)
(* for longer than one lease time.                                         *)
(*                                                                         *)
(* None of them is inductive.  The invariants below say what else holds of *)
(* the handlers between their steps; the lemmas after them say once what a *)
(* step may do to each part of the state, and the rest is shown from those *)
(* lemmas.                                                                 *)
(***************************************************************************)
EXTENDS AgentGateway, TLAPS

(* The sessions that an agent has or had.                                    *)
Past(a) == (ended[a] \cup {sessions[a]}) \ {Null}

(* No receipt, handler or session has a number above the last one.           *)
NumbersAreOld ==
  /\ \A a \in Agents : \A i \in DOMAIN receipts[a] :
       receipts[a][i] <= lastSequence[a]
  /\ \A h \in Handlers : handlers[h] # Null =>
       handlers[h].seq <= lastSequence[handlers[h].agent]
  /\ \A a \in Agents : \A s \in Past(a) : s.id <= lastSequence[a]

(* Two handlers of one agent were begun by different messages.               *)
HandlersDiffer ==
  \A g, h \in Handlers :
    handlers[g] # Null /\ handlers[h] # Null /\ g # h
    /\ handlers[g].agent = handlers[h].agent =>
         handlers[g].seq # handlers[h].seq

(* A message that has not claimed its session yet never had it before.       *)
AcceptedIsNew ==
  \A h \in Handlers : At(h, "accepted") =>
    \A s \in Past(handlers[h].agent) : s.id # handlers[h].seq

(* Only a socket that is closed releases its session.                        *)
ReleasingIsClosed ==
  \A h \in Handlers :
    handlers[h] # Null /\ handlers[h].releasing => handlers[h].closed

(* The latest end that a lease of agent a may have.                          *)
Horizon(a) == LeaseTime + IF status[a] = "revoked" THEN revokedAt[a] ELSE now

(* Nobody read the clock in the future, and no lease, no answer under way    *)
(* and no answer that was given reaches beyond the horizon of its agent.     *)
LeasesAreNear ==
  /\ \A a \in Agents : status[a] = "revoked" => revokedAt[a] <= now
  /\ \A h \in Handlers : handlers[h] # Null =>
       /\ handlers[h].at <= now
       /\ handlers[h].until <= Horizon(handlers[h].agent)
  /\ \A a \in Agents, j \in Jobs :
       /\ told[a][j] <= Horizon(a)
       /\ jobs[j].leasedBy = a => jobs[j].leasedUntil <= Horizon(a)

(* Only an answer to a lease or a heartbeat, not sent yet, has an end.       *)
EndsArePending ==
  \A h \in Handlers : handlers[h] # Null /\ handlers[h].until # 0 =>
    handlers[h].pc = "answer" /\ handlers[h].kind \in {"lease", "heartbeat"}

(* A heartbeat is alone, unless it was noted that it is not.                 *)
HeartbeatsAreAlone ==
  \A g, h \in Handlers :
    handlers[g] # Null /\ handlers[h] # Null /\ g # h
    /\ handlers[g].agent = handlers[h].agent /\ handlers[h].kind = "heartbeat"
      => overlapped[handlers[h].agent]

(* Such a heartbeat can only move the end of a lease forward.                *)
HeartbeatsExtend ==
  \A h \in Handlers, j \in Jobs :
    /\ handlers[h] # Null /\ handlers[h].pc \in {"offer", "ready"}
    /\ handlers[h].kind = "heartbeat" /\ ~overlapped[handlers[h].agent]
    =>   /\ told[handlers[h].agent][j] <= handlers[h].at + LeaseTime
         /\ jobs[j].leasedBy = handlers[h].agent =>
              jobs[j].leasedUntil <= handlers[h].at + LeaseTime

(* It is safe that agent a relies on having job j until the given time.      *)
Holds(a, j, until) ==
  \/ until <= now
  \/ overlapped[a]
  \/ jobs[j].state = "completed"
  \/ jobs[j].leasedBy = a /\ jobs[j].leasedUntil >= until

(* What was answered, and what is about to be answered, can be relied on.    *)
AnswersHold ==
  /\ \A a \in Agents, j \in Jobs : Holds(a, j, told[a][j])
  /\ \A h \in Handlers : handlers[h] # Null =>
       Holds(handlers[h].agent, handlers[h].job, handlers[h].until)

(* The inductive invariants: of messages and sessions, and of leases.        *)
SessionInv ==
  /\ TypeOK /\ MessagesActInOrder /\ NumbersAreOld /\ HandlersDiffer
  /\ AcceptedIsNew /\ ReleasingIsClosed /\ SessionsDoNotReturn

LeaseInv ==
  /\ TypeOK /\ LeasesAreNear /\ EndsArePending /\ HeartbeatsAreAlone
  /\ HeartbeatsExtend /\ AnswersHold

-----------------------------------------------------------------------------
(* How a step changes the parts.                                             *)

(* The ways in which a handler may go on.                                    *)
GoesOn(h) ==
  /\ handlers[h] \in HandlerStates
  /\ handlers' = [handlers EXCEPT ![h] = handlers'[h]]
  /\ handlers'[h] # Null =>
       /\ handlers'[h] \in HandlerStates
       /\ handlers'[h].agent = handlers[h].agent
       /\ handlers'[h].seq = handlers[h].seq
       /\ handlers'[h].kind \in {handlers[h].kind, "repoll"}
       /\ handlers'[h].pc = "accepted" => handlers[h].pc = "accepted"
       /\ handlers[h].closed => handlers'[h].closed
       /\ handlers'[h].releasing => handlers'[h].closed \/ handlers[h].releasing

(* A new state of a handler that keeps what identifies it is one of them.    *)
LEMMA Becomes ==
  ASSUME TypeOK, NEW h \in Handlers, handlers[h] # Null,
         NEW y \in HandlerStates, handlers' = [handlers EXCEPT ![h] = y],
         y.agent = handlers[h].agent, y.seq = handlers[h].seq,
         y.kind \in {handlers[h].kind, "repoll"},
         y.pc = "accepted" => handlers[h].pc = "accepted",
         handlers[h].closed => y.closed,
         y.releasing => y.closed \/ handlers[h].releasing
  PROVE  GoesOn(h)
<1>1. handlers'[h] = y /\ handlers[h] \in HandlerStates
  BY DEF TypeOK
<1> QED
  BY <1>1 DEF GoesOn

(* So is its end.                                                            *)
LEMMA Disappears ==
  ASSUME TypeOK, NEW h \in Handlers, handlers[h] # Null,
         handlers' = [handlers EXCEPT ![h] = Null]
  PROVE  GoesOn(h) /\ handlers'[h] = Null
BY DEF TypeOK, GoesOn

(* The error answer, and the end of a socket.                                *)
LEMMA EndGoesOn ==
  ASSUME TypeOK, NEW h \in Handlers, handlers[h] # Null, End(h)
  PROVE  GoesOn(h) /\ (handlers'[h] # Null => handlers'[h].pc = "idle")
<1> DEFINE x == handlers[h]
<1>1. x \in HandlerStates
  BY DEF TypeOK
<1>2. CASE ~IsSocket(x)
  BY <1>2, Disappears DEF End
<1>3. CASE IsSocket(x)
  <2> DEFINE y == [x EXCEPT !.pc = "idle", !.closed = TRUE,
                            !.releasing = x.releasing \/ ~x.closed]
  <2>1. handlers' = [handlers EXCEPT ![h] = y]
    BY <1>3 DEF End
  <2>2. handlers'[h] = y
    BY <2>1 DEF TypeOK
  <2>3. /\ y \in HandlerStates /\ y.agent = x.agent /\ y.seq = x.seq
        /\ y.kind = x.kind /\ y.pc = "idle" /\ y.closed
    BY <1>1 DEF HandlerStates, Pcs
  <2> HIDE DEF y
  <2> QED
    BY <2>1, <2>2, <2>3, Becomes
<1> QED
  BY <1>2, <1>3

(* A change of the step it is at.                                            *)
LEMMA MovesOn ==
  ASSUME TypeOK, NEW h \in Handlers, handlers[h] # Null,
         NEW pc \in Pcs \ {"accepted"}, Go(h, pc)
  PROVE  GoesOn(h) /\ handlers'[h] = [handlers[h] EXCEPT !.pc = pc]
<1> DEFINE x == handlers[h]
           y == [x EXCEPT !.pc = pc]
<1>1. x \in HandlerStates
  BY DEF TypeOK
<1>2. /\ y \in HandlerStates /\ y.agent = x.agent /\ y.seq = x.seq
      /\ y.kind = x.kind /\ y.pc = pc /\ y.closed = x.closed
      /\ y.releasing = x.releasing
  BY <1>1 DEF HandlerStates
<1>3. handlers' = [handlers EXCEPT ![h] = y] /\ handlers'[h] = y
  BY DEF Go, TypeOK
<1> QED
  BY <1>2, <1>3, Becomes

(* ... with the clock, which a repeated poll reads again.                    *)
LEMMA ReadsTheClock ==
  ASSUME TypeOK, NEW h \in Handlers, handlers[h] # Null,
         NEW pc \in Pcs \ {"accepted"}, NEW kind \in {handlers[h].kind, "repoll"},
         handlers' = [handlers EXCEPT ![h] =
                        [@ EXCEPT !.at = now, !.pc = pc, !.kind = kind]]
  PROVE  /\ GoesOn(h)
         /\ handlers'[h] = [handlers[h] EXCEPT !.at = now, !.pc = pc,
                                               !.kind = kind]
<1> DEFINE x == handlers[h]
           y == [x EXCEPT !.at = now, !.pc = pc, !.kind = kind]
<1>1. x \in HandlerStates /\ now \in Nat
  BY DEF TypeOK
<1>2. /\ y \in HandlerStates /\ y.agent = x.agent /\ y.seq = x.seq
      /\ y.kind = kind /\ y.pc = pc /\ y.closed = x.closed
      /\ y.releasing = x.releasing
  BY <1>1 DEF HandlerStates, Kinds
<1>3. handlers' = [handlers EXCEPT ![h] = y] /\ handlers'[h] = y
  BY DEF TypeOK
<1> QED
  BY <1>2, <1>3, Becomes

(* ... with the end of the lease that it answers.                            *)
LEMMA AnswersGoOn ==
  ASSUME TypeOK, NEW h \in Handlers, handlers[h] # Null, NEW until \in Nat,
         Answers(h, until)
  PROVE  /\ GoesOn(h)
         /\ handlers'[h] = [handlers[h] EXCEPT !.pc = "answer", !.until = until]
<1> DEFINE x == handlers[h]
           y == [x EXCEPT !.pc = "answer", !.until = until]
<1>1. x \in HandlerStates
  BY DEF TypeOK
<1>2. /\ y \in HandlerStates /\ y.agent = x.agent /\ y.seq = x.seq
      /\ y.kind = x.kind /\ y.pc = "answer" /\ y.closed = x.closed
      /\ y.releasing = x.releasing
  BY <1>1 DEF HandlerStates, Pcs
<1>3. handlers' = [handlers EXCEPT ![h] = y] /\ handlers'[h] = y
  BY DEF Answers, TypeOK
<1> QED
  BY <1>2, <1>3, Becomes

(* Every step of a request is one of them ...                                *)
LEMMA RequestGoesOn ==
  ASSUME TypeOK, NEW h \in Handlers, Request(h)
  PROVE  GoesOn(h)
<1>1. CASE ClaimTransport(h)
  BY <1>1, MovesOn DEF ClaimTransport, At, Pcs
<1>2. CASE CheckTransport(h)
  <2>1. CASE IsTransportActive(handlers[h])
    <3>1. PICK pc \in {"offer", "ready"} :
            handlers' = [handlers EXCEPT ![h].at = now, ![h].pc = pc]
      BY <1>2, <2>1 DEF CheckTransport
    <3>2. handlers[h] # Null /\ handlers[h] \in HandlerStates
      BY <1>2 DEF CheckTransport, At, TypeOK
    <3>3. handlers' = [handlers EXCEPT ![h] =
             [@ EXCEPT !.at = now, !.pc = pc, !.kind = handlers[h].kind]]
      BY <3>1, <3>2 DEF TypeOK, HandlerStates
    <3> QED
      BY <3>2, <3>3, ReadsTheClock DEF Pcs
  <2> QED
    BY <1>2, <2>1, EndGoesOn DEF CheckTransport, At
<1>3. CASE PollAgain(h)
  <2>1. CASE IsTransportActive(handlers[h])
    <3>1. /\ handlers[h] # Null /\ "ready" \in Pcs \ {"accepted"}
          /\ handlers' = [handlers EXCEPT ![h] =
               [@ EXCEPT !.at = now, !.pc = "ready", !.kind = "repoll"]]
      BY <1>3, <2>1 DEF PollAgain, At, TypeOK, Pcs
    <3> QED
      BY <3>1, ReadsTheClock
  <2> QED
    BY <1>3, <2>1, EndGoesOn DEF PollAgain, At
<1>4. CASE Poll(h)
  <2>1. handlers[h] # Null /\ handlers[h] \in HandlerStates
    BY <1>4 DEF Poll, At, TypeOK
  <2>2. \/ Go(h, "idle") \/ Go(h, "waiting") \/ End(h)
        \/ \E j \in Jobs :
             handlers' = [handlers EXCEPT ![h].job = j, ![h].pc = "answer"]
    BY <1>4 DEF Poll
  <2>3. ASSUME NEW j \in Jobs,
               handlers' = [handlers EXCEPT ![h].job = j, ![h].pc = "answer"]
        PROVE  GoesOn(h)
    <3> DEFINE y == [handlers[h] EXCEPT !.job = j, !.pc = "answer"]
    <3>1. /\ y \in HandlerStates /\ y.agent = handlers[h].agent
          /\ y.seq = handlers[h].seq /\ y.kind = handlers[h].kind
          /\ y.pc = "answer" /\ y.closed = handlers[h].closed
          /\ y.releasing = handlers[h].releasing
      BY <2>1 DEF HandlerStates, Pcs
    <3>2. handlers' = [handlers EXCEPT ![h] = y]
      BY <2>3
    <3> QED
      BY <2>1, <3>1, <3>2, Becomes
  <2> QED
    BY <2>1, <2>2, <2>3, MovesOn, EndGoesOn DEF Pcs
<1>5. CASE Lease(h)
  <2>1. handlers[h] # Null /\ handlers[h] \in HandlerStates
    BY <1>5 DEF Lease, At, TypeOK
  <2>2. handlers[h].job \in Jobs /\ handlers[h].at + LeaseTime \in Nat
    BY <2>1, AgentGatewayAssumption DEF HandlerStates
  <2>3. jobs[handlers[h].job].leasedUntil \in Nat
    BY <2>2 DEF TypeOK, JobRows
  <2> QED
    BY <1>5, <2>1, <2>2, <2>3, EndGoesOn, AnswersGoOn DEF Lease
<1>6. CASE Heartbeat(h)
  <2>1. handlers[h] # Null /\ handlers[h] \in HandlerStates
    BY <1>6 DEF Heartbeat, At, TypeOK
  <2>2. handlers[h].at + LeaseTime \in Nat
    BY <2>1, AgentGatewayAssumption DEF HandlerStates
  <2> QED
    BY <1>6, <2>1, <2>2, EndGoesOn, AnswersGoOn DEF Heartbeat
<1>7. CASE Answer(h)
  BY <1>7, EndGoesOn, MovesOn, Disappears DEF Answer, At, Pcs
<1> QED
  BY <1>1, <1>2, <1>3, <1>4, <1>5, <1>6, <1>7 DEF Request

(* ... and every step of a socket.                                           *)
LEMMA SocketGoesOn ==
  ASSUME TypeOK, NEW h \in Handlers, Socket(h)
  PROVE  GoesOn(h)
<1>0. handlers[h] # Null => handlers[h] \in HandlerStates
  BY DEF TypeOK
<1>1. CASE Scan(h)
  <2>1. /\ handlers[h] # Null /\ "offer" \in Pcs \ {"accepted"}
        /\ handlers' = [handlers EXCEPT ![h] =
             [@ EXCEPT !.at = now, !.pc = "offer", !.kind = handlers[h].kind]]
    BY <1>0, <1>1 DEF Scan, At, TypeOK, Pcs, HandlerStates
  <2> QED
    BY <2>1, ReadsTheClock
<1>2. CASE Offer(h)
  BY <1>2, EndGoesOn, MovesOn DEF Offer, At, Pcs
<1>3. CASE Close(h)
  <2>1. PICK b \in BOOLEAN :
          handlers' = [handlers EXCEPT ![h].closed = TRUE, ![h].releasing = b]
    BY <1>3 DEF Close
  <2> DEFINE y == [handlers[h] EXCEPT !.closed = TRUE, !.releasing = b]
  <2>2. /\ y \in HandlerStates /\ y.agent = handlers[h].agent
        /\ y.seq = handlers[h].seq /\ y.kind = handlers[h].kind
        /\ y.pc = handlers[h].pc /\ y.closed
    BY <1>0, <1>3 DEF HandlerStates, Close
  <2>3. handlers' = [handlers EXCEPT ![h] = y] /\ handlers[h] # Null
    BY <1>3, <2>1 DEF Close
  <2> HIDE DEF y
  <2> QED
    BY <2>2, <2>3, Becomes
<1>4. CASE ReleaseTransport(h)
  <2> DEFINE y == [handlers[h] EXCEPT !.releasing = FALSE]
  <2>1. /\ y \in HandlerStates /\ y.agent = handlers[h].agent
        /\ y.seq = handlers[h].seq /\ y.kind = handlers[h].kind
        /\ y.pc = handlers[h].pc /\ y.closed = handlers[h].closed
        /\ ~y.releasing
    BY <1>0, <1>4 DEF HandlerStates, ReleaseTransport
  <2>2. handlers' = [handlers EXCEPT ![h] = y] /\ handlers[h] # Null
    BY <1>4 DEF ReleaseTransport
  <2> HIDE DEF y
  <2> QED
    BY <2>1, <2>2, Becomes
<1>5. CASE Leave(h)
  BY <1>5, Disappears DEF Leave
<1> QED
  BY <1>1, <1>2, <1>3, <1>4, <1>5 DEF Socket

(* A message that is accepted begins a handler of its own.                   *)
LEMMA AcceptBegins ==
  ASSUME TypeOK, NEW h \in Handlers, NEW a \in Agents,
         NEW seq \in 1..MaxSequence, NEW kind \in Requests, NEW j \in Jobs,
         Accept(h, a, seq, kind, j)
  PROVE  /\ handlers[h] = Null
         /\ handlers' = [handlers EXCEPT ![h] = handlers'[h]]
         /\ handlers'[h] # Null
         /\ handlers'[h] \in HandlerStates
         /\ handlers'[h].agent = a /\ handlers'[h].seq = seq
         /\ handlers'[h].kind = kind /\ handlers'[h].job = j
         /\ handlers'[h].pc = "accepted"
         /\ handlers'[h].at = 0 /\ handlers'[h].until = 0
         /\ ~handlers'[h].closed /\ ~handlers'[h].releasing
<1> DEFINE x == [agent |-> a, seq |-> seq, kind |-> kind, job |-> j,
                 pc |-> "accepted", at |-> 0, until |-> 0, closed |-> FALSE,
                 releasing |-> FALSE]
<1>0. kind \in Kinds /\ "accepted" \in Pcs
  BY AgentGatewayAssumption DEF Kinds, Pcs
<1>1. x \in HandlerStates
  BY <1>0 DEF HandlerStates
<1>2. handlers' = [handlers EXCEPT ![h] = x] /\ handlers[h] = Null
  BY DEF Accept
<1>3. handlers'[h] = x
  BY <1>2 DEF TypeOK
<1>4. /\ x.agent = a /\ x.seq = seq /\ x.kind = kind /\ x.job = j
      /\ x.pc = "accepted" /\ x.at = 0 /\ x.until = 0
      /\ x.closed = FALSE /\ x.releasing = FALSE
  OBVIOUS
<1> HIDE DEF x
<1> QED
  BY <1>1, <1>2, <1>3, <1>4, NullAssumption

(* The steps of the gateway: of a handler, of a new one, or of none.         *)
LEMMA Steps ==
  ASSUME [Next]_vars
  PROVE  \/ \E h \in Handlers : Request(h) \/ Socket(h)
         \/ \E h \in Handlers, a \in Agents, seq \in 1..MaxSequence,
               kind \in Requests, j \in Jobs : Accept(h, a, seq, kind, j)
         \/ UNCHANGED <<lastSequence, receipts, handlers, sessions, ended, told,
                        overlapped>>
BY DEF Next, vars, Tick, Enqueue, Revoke, SetPresence, Pair, UnchangedSessions,
       UnchangedAgents, UnchangedJobs
-----------------------------------------------------------------------------
(* Types.                                                                    *)

(* The handlers are well typed after any step.                               *)
LEMMA HandlersTyped ==
  ASSUME TypeOK, [Next]_vars
  PROVE  handlers' \in [Handlers -> HandlerStates \cup {Null}]
<1>1. CASE UNCHANGED handlers
  BY <1>1 DEF TypeOK
<1>2. ASSUME NEW h \in Handlers, Request(h) \/ Socket(h)
      PROVE  handlers' \in [Handlers -> HandlerStates \cup {Null}]
  <2>1. GoesOn(h)
    BY <1>2, RequestGoesOn, SocketGoesOn
  <2> QED
    BY <2>1 DEF GoesOn, TypeOK
<1>3. ASSUME NEW h \in Handlers, NEW a \in Agents, NEW seq \in 1..MaxSequence,
             NEW kind \in Requests, NEW j \in Jobs, Accept(h, a, seq, kind, j)
      PROVE  handlers' \in [Handlers -> HandlerStates \cup {Null}]
  <2>1. /\ handlers'[h] \in HandlerStates
        /\ handlers' = [handlers EXCEPT ![h] = handlers'[h]]
    BY <1>3, AcceptBegins
  <2> QED
    BY <2>1 DEF TypeOK
<1> QED
  BY <1>1, <1>2, <1>3, Steps

(* What a handler claims is a session.                                       *)
LEMMA OwnIsSession ==
  ASSUME NEW x \in HandlerStates
  PROVE  Own(x) \in Sessions /\ Own(x).id = x.seq /\ Own(x) # Null
BY NullAssumption DEF HandlerStates, Own, Sessions, Transport

(* The sessions: a handler claims one or releases one, both its own.         *)
LEMMA SessionsChange ==
  ASSUME TypeOK, [Next]_vars
  PROVE  \/ UNCHANGED <<sessions, ended>>
         \/ \E h \in Handlers :
              LET x == handlers[h] IN
              /\ At(h, "accepted") /\ Go(h, "claimed")
              /\ lastSequence' = lastSequence
              /\ sessions' = [sessions EXCEPT ![x.agent] = Own(x)]
              /\ ended' = [ended EXCEPT ![x.agent] =
                             @ \cup ({sessions[x.agent]} \ {Null, Own(x)})]
         \/ \E h \in Handlers :
              LET x == handlers[h] IN
              /\ x # Null /\ x.releasing /\ sessions[x.agent] = Own(x)
              /\ handlers' = [handlers EXCEPT ![h].releasing = FALSE]
              /\ lastSequence' = lastSequence
              /\ sessions' = [sessions EXCEPT ![x.agent] = Null]
              /\ ended' = [ended EXCEPT ![x.agent] = @ \cup {sessions[x.agent]}]
<1>1. CASE UNCHANGED <<lastSequence, receipts, handlers, sessions, ended, told,
                       overlapped>>
  BY <1>1
<1>2. ASSUME NEW h \in Handlers, NEW a \in Agents, NEW seq \in 1..MaxSequence,
             NEW kind \in Requests, NEW j \in Jobs, Accept(h, a, seq, kind, j)
      PROVE  UNCHANGED <<sessions, ended>>
  BY <1>2 DEF Accept, UnchangedSessions
<1>3. ASSUME NEW h \in Handlers, ClaimTransport(h)
      PROVE  \/ UNCHANGED <<sessions, ended>>
             \/ LET x == handlers[h] IN
                /\ At(h, "accepted") /\ Go(h, "claimed")
                /\ lastSequence' = lastSequence
                /\ sessions' = [sessions EXCEPT ![x.agent] = Own(x)]
                /\ ended' = [ended EXCEPT ![x.agent] =
                               @ \cup ({sessions[x.agent]} \ {Null, Own(x)})]
  BY <1>3 DEF ClaimTransport, Claim, UnchangedAgents
<1>4. ASSUME NEW h \in Handlers, ReleaseTransport(h)
      PROVE  \/ UNCHANGED <<sessions, ended>>
             \/ LET x == handlers[h] IN
                /\ x # Null /\ x.releasing /\ sessions[x.agent] = Own(x)
                /\ handlers' = [handlers EXCEPT ![h].releasing = FALSE]
                /\ lastSequence' = lastSequence
                /\ sessions' = [sessions EXCEPT ![x.agent] = Null]
                /\ ended' = [ended EXCEPT ![x.agent] =
                               @ \cup {sessions[x.agent]}]
  BY <1>4 DEF ReleaseTransport, Released, UnchangedSessions, UnchangedAgents
<1>5. ASSUME NEW h \in Handlers, Request(h), ~ClaimTransport(h)
      PROVE  UNCHANGED <<sessions, ended>>
  BY <1>5 DEF Request, CheckTransport, PollAgain, Poll, Lease, Heartbeat,
              Answer, UnchangedSessions
<1>6. ASSUME NEW h \in Handlers, Socket(h), ~ReleaseTransport(h)
      PROVE  UNCHANGED <<sessions, ended>>
  BY <1>6 DEF Socket, Scan, Offer, Close, Leave, UnchangedSessions
<1> QED
  BY <1>1, <1>2, <1>3, <1>4, <1>5, <1>6, Steps

(* The sessions are well typed after any step.                               *)
LEMMA SessionsTyped ==
  ASSUME TypeOK, [Next]_vars
  PROVE  /\ sessions' \in [Agents -> Sessions \cup {Null}]
         /\ ended' \in [Agents -> SUBSET Sessions]
<1>1. CASE UNCHANGED <<sessions, ended>>
  BY <1>1 DEF TypeOK
<1>2. ASSUME NEW h \in Handlers, NEW x \in HandlerStates, x = handlers[h],
             sessions' = [sessions EXCEPT ![x.agent] = Own(x)],
             ended' = [ended EXCEPT ![x.agent] =
                         @ \cup ({sessions[x.agent]} \ {Null, Own(x)})]
      PROVE  /\ sessions' \in [Agents -> Sessions \cup {Null}]
             /\ ended' \in [Agents -> SUBSET Sessions]
  <2>1. x.agent \in Agents /\ Own(x) \in Sessions
    BY OwnIsSession DEF HandlerStates
  <2> QED
    BY <1>2, <2>1 DEF TypeOK
<1>3. ASSUME NEW h \in Handlers, NEW x \in HandlerStates, x = handlers[h],
             sessions[x.agent] = Own(x),
             sessions' = [sessions EXCEPT ![x.agent] = Null],
             ended' = [ended EXCEPT ![x.agent] = @ \cup {sessions[x.agent]}]
      PROVE  /\ sessions' \in [Agents -> Sessions \cup {Null}]
             /\ ended' \in [Agents -> SUBSET Sessions]
  <2>1. x.agent \in Agents /\ Own(x) \in Sessions
    BY OwnIsSession DEF HandlerStates
  <2> QED
    BY <1>3, <2>1 DEF TypeOK
<1>4. \A h \in Handlers : handlers[h] # Null => handlers[h] \in HandlerStates
  BY DEF TypeOK
<1> QED
  BY <1>1, <1>2, <1>3, <1>4, SessionsChange DEF At

(* The numbers of an agent's messages: they change when one is accepted, and *)
(* so does the note on overlapping heartbeats.                               *)
LEMMA NumbersChange ==
  ASSUME [Next]_vars
  PROVE  \/ UNCHANGED <<lastSequence, receipts, overlapped>>
         \/ \E h \in Handlers, a \in Agents, seq \in 1..MaxSequence,
               kind \in Requests, j \in Jobs : Accept(h, a, seq, kind, j)
<1>1. ASSUME NEW h \in Handlers, Request(h)
      PROVE  UNCHANGED <<lastSequence, receipts, overlapped>>
  BY <1>1 DEF Request, ClaimTransport, CheckTransport, PollAgain, Poll, Lease,
              Heartbeat, Answer, UnchangedAgents
<1>2. ASSUME NEW h \in Handlers, Socket(h)
      PROVE  UNCHANGED <<lastSequence, receipts, overlapped>>
  BY <1>2 DEF Socket, Scan, Offer, Close, ReleaseTransport, Leave,
              UnchangedAgents
<1> QED
  BY <1>1, <1>2, Steps

(* The jobs: they come into being, are leased, kept or completed.            *)
LEMMA JobsChange ==
  ASSUME [Next]_vars
  PROVE  \/ UNCHANGED jobs
         \/ \E j \in Jobs : Enqueue(j)
         \/ \E a \in Agents, mode \in {"none", "drain", "force"} : Pair(a, mode)
         \/ \E h \in Handlers : Lease(h) \/ Heartbeat(h)
<1>1. ASSUME NEW h \in Handlers, Request(h), ~Lease(h), ~Heartbeat(h)
      PROVE  UNCHANGED jobs
  BY <1>1 DEF Request, ClaimTransport, CheckTransport, PollAgain, Poll, Answer,
              UnchangedJobs
<1>2. ASSUME NEW h \in Handlers, Socket(h)
      PROVE  UNCHANGED jobs
  BY <1>2 DEF Socket, Scan, Offer, Close, ReleaseTransport, Leave, UnchangedJobs
<1>3. ASSUME NEW h \in Handlers, NEW a \in Agents, NEW seq \in 1..MaxSequence,
             NEW kind \in Requests, NEW j \in Jobs, Accept(h, a, seq, kind, j)
      PROVE  UNCHANGED jobs
  BY <1>3 DEF Accept, UnchangedJobs
<1>4. CASE Tick \/ UNCHANGED vars
  BY <1>4 DEF Tick, vars, UnchangedJobs
<1>5. ASSUME NEW a \in Agents, Revoke(a) \/ SetPresence(a)
      PROVE  UNCHANGED jobs
  BY <1>5 DEF Revoke, SetPresence, UnchangedJobs
<1> QED
  BY <1>1, <1>2, <1>3, <1>4, <1>5 DEF Next

(* What agents were told: it changes when an answer is sent.                 *)
LEMMA ToldChanges ==
  ASSUME [Next]_vars
  PROVE  UNCHANGED told \/ \E h \in Handlers : Answer(h)
<1>1. ASSUME NEW h \in Handlers, Request(h), ~Answer(h)
      PROVE  UNCHANGED told
  BY <1>1 DEF Request, ClaimTransport, CheckTransport, PollAgain, Poll, Lease,
              Heartbeat, UnchangedJobs
<1>2. ASSUME NEW h \in Handlers, Socket(h)
      PROVE  UNCHANGED told
  BY <1>2 DEF Socket, Scan, Offer, Close, ReleaseTransport, Leave, UnchangedJobs
<1>3. ASSUME NEW h \in Handlers, NEW a \in Agents, NEW seq \in 1..MaxSequence,
             NEW kind \in Requests, NEW j \in Jobs, Accept(h, a, seq, kind, j)
      PROVE  UNCHANGED told
  BY <1>3 DEF Accept, UnchangedJobs
<1> QED
  BY <1>1, <1>2, <1>3, Steps

(* The agents: they are paired, marked and revoked.                          *)
LEMMA StatusChanges ==
  ASSUME [Next]_vars
  PROVE  \/ UNCHANGED <<status, revokedAt>>
         \/ now' = now /\ \E a \in Agents :
              \/ Revoke(a) \/ SetPresence(a)
              \/ \E mode \in {"none", "drain", "force"} : Pair(a, mode)
<1>1. ASSUME NEW h \in Handlers, Request(h)
      PROVE  UNCHANGED <<status, revokedAt>>
  BY <1>1 DEF Request, ClaimTransport, CheckTransport, PollAgain, Poll, Lease,
              Heartbeat, Answer, UnchangedAgents
<1>2. ASSUME NEW h \in Handlers, Socket(h)
      PROVE  UNCHANGED <<status, revokedAt>>
  BY <1>2 DEF Socket, Scan, Offer, Close, ReleaseTransport, Leave,
              UnchangedAgents
<1>3. ASSUME NEW h \in Handlers, NEW a \in Agents, NEW seq \in 1..MaxSequence,
             NEW kind \in Requests, NEW j \in Jobs, Accept(h, a, seq, kind, j)
      PROVE  UNCHANGED <<status, revokedAt>>
  BY <1>3 DEF Accept
<1>4. ASSUME NEW j \in Jobs, Enqueue(j)
      PROVE  UNCHANGED <<status, revokedAt>>
  BY <1>4 DEF Enqueue, UnchangedAgents
<1>5. CASE Tick \/ UNCHANGED vars
  BY <1>5 DEF Tick, vars, UnchangedAgents
<1> QED
  BY <1>1, <1>2, <1>3, <1>4, <1>5 DEF Next, Revoke, SetPresence, Pair

(* The clock: only a tick moves it, and touches nothing else.                *)
LEMMA TimeChanges ==
  ASSUME [Next]_vars
  PROVE  now' = now \/ now' = now + 1
<1>1. ASSUME NEW h \in Handlers, Request(h)
      PROVE  now' = now
  BY <1>1 DEF Request, ClaimTransport, CheckTransport, PollAgain, Poll, Lease,
              Heartbeat, Answer
<1>2. ASSUME NEW h \in Handlers, Socket(h)
      PROVE  now' = now
  BY <1>2 DEF Socket, Scan, Offer, Close, ReleaseTransport, Leave
<1>3. ASSUME NEW h \in Handlers, NEW a \in Agents, NEW seq \in 1..MaxSequence,
             NEW kind \in Requests, NEW j \in Jobs, Accept(h, a, seq, kind, j)
      PROVE  now' = now
  BY <1>3 DEF Accept
<1> QED
  BY <1>1, <1>2, <1>3 DEF Next, Tick, Enqueue, Revoke, SetPresence, Pair, vars

(* The numbers are well typed after any step ...                             *)
LEMMA NumbersTyped ==
  ASSUME TypeOK, [Next]_vars
  PROVE  /\ lastSequence' \in [Agents -> Nat]
         /\ receipts' \in [Agents -> Seq(Nat)]
         /\ overlapped' \in [Agents -> BOOLEAN]
<1>1. CASE UNCHANGED <<lastSequence, receipts, overlapped>>
  BY <1>1 DEF TypeOK
<1>2. ASSUME NEW h \in Handlers, NEW a \in Agents, NEW seq \in 1..MaxSequence,
             NEW kind \in Requests, NEW j \in Jobs, Accept(h, a, seq, kind, j)
      PROVE  /\ lastSequence' \in [Agents -> Nat]
             /\ receipts' \in [Agents -> Seq(Nat)]
             /\ overlapped' \in [Agents -> BOOLEAN]
  <2>1. seq \in Nat /\ receipts[a] \in Seq(Nat)
    BY AgentGatewayAssumption DEF TypeOK
  <2>2. Append(receipts[a], seq) \in Seq(Nat)
    BY <2>1
  <2>3. lastSequence' \in [Agents -> Nat] /\ receipts' \in [Agents -> Seq(Nat)]
    BY <1>2, <2>1, <2>2 DEF Accept, TypeOK
  <2>4. PICK b \in BOOLEAN : overlapped' = [overlapped EXCEPT ![a] = b]
    BY <1>2 DEF Accept
  <2> QED
    BY <2>3, <2>4 DEF TypeOK
<1> QED
  BY <1>1, <1>2, NumbersChange

(* ... and so are the jobs and what was told about them ...                  *)
LEMMA JobsTyped ==
  ASSUME TypeOK, [Next]_vars
  PROVE  jobs' \in [Jobs -> JobRows] /\ told' \in [Agents -> [Jobs -> Nat]]
<1>1. ASSUME NEW h \in Handlers, handlers[h] # Null
      PROVE  /\ handlers[h] \in HandlerStates
             /\ handlers[h].job \in Jobs /\ handlers[h].agent \in Agents
             /\ handlers[h].at + LeaseTime \in Nat /\ handlers[h].until \in Nat
  <2>1. handlers[h] \in HandlerStates
    BY <1>1 DEF TypeOK
  <2> QED
    BY <2>1, AgentGatewayAssumption DEF HandlerStates
<1>2. jobs' \in [Jobs -> JobRows]
  <2>1. ASSUME NEW j \in Jobs, Enqueue(j)
        PROVE  jobs' \in [Jobs -> JobRows]
    <3>1. now + JobTime \in Nat /\ jobs[j] \in JobRows
      BY AgentGatewayAssumption DEF TypeOK
    <3>2. [jobs[j] EXCEPT !.state = "open", !.expires = now + JobTime]
            \in JobRows
      BY <3>1 DEF JobRows
    <3>3. jobs' = [jobs EXCEPT ![j] =
             [jobs[j] EXCEPT !.state = "open", !.expires = now + JobTime]]
      BY <2>1 DEF Enqueue
    <3> QED
      BY <3>2, <3>3 DEF TypeOK
  <2>2. ASSUME NEW a \in Agents, NEW mode \in {"none", "drain", "force"},
               Pair(a, mode)
        PROVE  jobs' \in [Jobs -> JobRows]
    <3>1. ASSUME NEW j \in Jobs
          PROVE  [jobs[j] EXCEPT !.state = "completed", !.leasedBy = Null,
                                 !.leasedUntil = 0] \in JobRows
      <4>1. jobs[j] \in JobRows
        BY DEF TypeOK
      <4> QED
        BY <4>1 DEF JobRows
    <3> QED
      BY <2>2, <3>1 DEF Pair, TypeOK
  <2>3. ASSUME NEW j \in Jobs, NEW b \in Agents, NEW until \in Nat
        PROVE  /\ [jobs[j] EXCEPT !.leasedBy = b, !.leasedUntil = until]
                    \in JobRows
               /\ [jobs[j] EXCEPT !.leasedUntil = until] \in JobRows
    <3>1. jobs[j] \in JobRows
      BY DEF TypeOK
    <3> QED
      BY <3>1 DEF JobRows
  <2>4. ASSUME NEW h \in Handlers, Lease(h)
        PROVE  jobs' \in [Jobs -> JobRows]
    <3> DEFINE x == handlers[h]
               y == [jobs[x.job] EXCEPT !.leasedBy = x.agent,
                                        !.leasedUntil = x.at + LeaseTime]
    <3>1. UNCHANGED jobs \/ jobs' = [jobs EXCEPT ![x.job] = y]
      BY <2>4 DEF Lease
    <3>2. y \in JobRows
      BY <1>1, <2>3, <2>4 DEF Lease, At
    <3> QED
      BY <3>1, <3>2 DEF TypeOK
  <2>5. ASSUME NEW h \in Handlers, Heartbeat(h)
        PROVE  jobs' \in [Jobs -> JobRows]
    <3> DEFINE x == handlers[h]
               y == [jobs[x.job] EXCEPT !.leasedUntil = x.at + LeaseTime]
    <3>1. UNCHANGED jobs \/ jobs' = [jobs EXCEPT ![x.job] = y]
      BY <2>5 DEF Heartbeat
    <3>2. y \in JobRows
      BY <1>1, <2>3, <2>5 DEF Heartbeat, At
    <3> QED
      BY <3>1, <3>2 DEF TypeOK
  <2> QED
    BY <2>1, <2>2, <2>4, <2>5, JobsChange DEF TypeOK
<1>3. told' \in [Agents -> [Jobs -> Nat]]
  <2>1. ASSUME NEW h \in Handlers, Answer(h)
        PROVE  told' \in [Agents -> [Jobs -> Nat]]
    <3> DEFINE x == handlers[h]
               y == [told[x.agent] EXCEPT ![x.job] =
                       IF x.until > @ THEN x.until ELSE @]
    <3>1. UNCHANGED told \/ told' = [told EXCEPT ![x.agent] = y]
      BY <2>1 DEF Answer
    <3>2. told[x.agent] \in [Jobs -> Nat] /\ x.until \in Nat /\ x.job \in Jobs
      BY <1>1, <2>1 DEF Answer, At, TypeOK
    <3>3. y \in [Jobs -> Nat]
      BY <3>2
    <3> QED
      BY <3>1, <3>3 DEF TypeOK
  <2> QED
    BY <2>1, ToldChanges DEF TypeOK
<1> QED
  BY <1>2, <1>3

(* ... and the agents and the clock.                                         *)
LEMMA StatusTyped ==
  ASSUME TypeOK, [Next]_vars
  PROVE  /\ now' \in Nat
         /\ status' \in [Agents -> Active \cup {"absent", "revoked"}]
         /\ revokedAt' \in [Agents -> Nat]
<1>1. now' \in Nat
  BY TimeChanges DEF TypeOK
<1>2. ASSUME NEW a \in Agents, Revoke(a) \/ SetPresence(a)
      PROVE  /\ status' \in [Agents -> Active \cup {"absent", "revoked"}]
             /\ revokedAt' \in [Agents -> Nat]
  BY <1>2 DEF Revoke, SetPresence, TypeOK, Active
<1>3. ASSUME NEW a \in Agents, NEW mode \in {"none", "drain", "force"},
             Pair(a, mode)
      PROVE  /\ status' \in [Agents -> Active \cup {"absent", "revoked"}]
             /\ revokedAt' \in [Agents -> Nat]
  BY <1>3 DEF Pair, TypeOK, Active
<1> QED
  BY <1>1, <1>2, <1>3, StatusChanges DEF TypeOK

(* Every step keeps the types.                                               *)
LEMMA TypeStep == TypeOK /\ [Next]_vars => TypeOK'
BY HandlersTyped, SessionsTyped, NumbersTyped, JobsTyped, StatusTyped
DEF TypeOK, Active
-----------------------------------------------------------------------------
(* Messages and sessions.                                                    *)

(* A handler that is in progress after a step is the one that was there, or  *)
(* belongs to the message that was just accepted.                            *)
LEMMA HandlersStay ==
  ASSUME TypeOK, [Next]_vars, NEW h \in Handlers, handlers'[h] # Null
  PROVE  /\ handlers'[h] \in HandlerStates
         /\ \/ /\ handlers[h] \in HandlerStates
               /\ handlers'[h].agent = handlers[h].agent
               /\ handlers'[h].seq = handlers[h].seq
               /\ handlers'[h].kind \in {handlers[h].kind, "repoll"}
               /\ handlers'[h].pc = "accepted" => handlers[h].pc = "accepted"
               /\ handlers[h].closed => handlers'[h].closed
               /\ handlers'[h].releasing =>
                    handlers'[h].closed \/ handlers[h].releasing
            \/ \E a \in Agents, seq \in 1..MaxSequence, kind \in Requests,
                  j \in Jobs : Accept(h, a, seq, kind, j)
<1>1. CASE UNCHANGED handlers
  BY <1>1 DEF TypeOK
<1>2. ASSUME NEW g \in Handlers, Request(g) \/ Socket(g)
      PROVE  \/ handlers'[h] = handlers[h] /\ handlers[h] \in HandlerStates
             \/ GoesOn(h)
  <2>1. GoesOn(g)
    BY <1>2, RequestGoesOn, SocketGoesOn
  <2> QED
    BY <2>1 DEF GoesOn, TypeOK
<1>3. ASSUME NEW g \in Handlers, NEW a \in Agents, NEW seq \in 1..MaxSequence,
             NEW kind \in Requests, NEW j \in Jobs, Accept(g, a, seq, kind, j)
      PROVE  \/ handlers'[h] = handlers[h] /\ handlers[h] \in HandlerStates
             \/ g = h
  BY <1>3, AcceptBegins DEF TypeOK
<1>4. handlers'[h] \in HandlerStates
  BY HandlersTyped
<1> QED
  BY <1>1, <1>2, <1>3, <1>4, Steps DEF GoesOn

(* The order of the receipts, and of the numbers.                            *)
LEMMA NumbersStep ==
  ASSUME TypeOK, [Next]_vars, NumbersAreOld, MessagesActInOrder
  PROVE  NumbersAreOld' /\ MessagesActInOrder'
<1>1. CASE UNCHANGED <<lastSequence, receipts, overlapped>>
  <2>1. ASSUME NEW h \in Handlers, handlers'[h] # Null
        PROVE  handlers'[h].seq <= lastSequence[handlers'[h].agent]
    <3>1. CASE \E a \in Agents, seq \in 1..MaxSequence, kind \in Requests,
                  j \in Jobs : Accept(h, a, seq, kind, j)
      BY <1>1, <3>1 DEF Accept, IsNew, TypeOK
    <3> QED
      BY <2>1, <3>1, HandlersStay, NullAssumption DEF NumbersAreOld
  <2>2. ASSUME NEW a \in Agents, NEW s \in Past(a)'
        PROVE  s.id <= lastSequence[a]
    <3>1. ASSUME NEW h \in Handlers, NEW x \in HandlerStates, x = handlers[h],
                 x.agent = a, s = Own(x)
          PROVE  s.id <= lastSequence[a]
      BY <3>1, OwnIsSession, NullAssumption DEF NumbersAreOld
    <3>2. s \in Past(a) \/ \E h \in Handlers :
             handlers[h] # Null /\ handlers[h].agent = a /\ s = Own(handlers[h])
      <4>1. CASE UNCHANGED <<sessions, ended>>
        BY <4>1 DEF Past
      <4>2. ASSUME NEW h \in Handlers, NEW x, x = handlers[h], x # Null,
                   x.agent \in Agents,
                   sessions' = [sessions EXCEPT ![x.agent] = Own(x)],
                   ended' = [ended EXCEPT ![x.agent] =
                               @ \cup ({sessions[x.agent]} \ {Null, Own(x)})]
            PROVE  s \in Past(a) \/ (x.agent = a /\ s = Own(x))
        BY <4>2 DEF Past, TypeOK
      <4>3. ASSUME NEW h \in Handlers, NEW x, x = handlers[h], x # Null,
                   x.agent \in Agents,
                   sessions' = [sessions EXCEPT ![x.agent] = Null],
                   ended' = [ended EXCEPT ![x.agent] = @ \cup {sessions[x.agent]}]
            PROVE  s \in Past(a)
        BY <4>3 DEF Past, TypeOK
      <4>4. \A h \in Handlers : handlers[h] # Null => handlers[h].agent \in Agents
        BY DEF TypeOK, HandlerStates
      <4> QED
        BY <4>1, <4>2, <4>3, <4>4, SessionsChange DEF At
    <3>3. \A h \in Handlers : handlers[h] # Null => handlers[h] \in HandlerStates
      BY DEF TypeOK
    <3> QED
      BY <3>1, <3>2, <3>3 DEF NumbersAreOld
  <2> QED
    BY <1>1, <2>1, <2>2 DEF NumbersAreOld, MessagesActInOrder
<1>2. ASSUME NEW h \in Handlers, NEW a \in Agents, NEW seq \in 1..MaxSequence,
             NEW kind \in Requests, NEW j \in Jobs, Accept(h, a, seq, kind, j)
      PROVE  NumbersAreOld' /\ MessagesActInOrder'
  <2>1. /\ seq \in Nat /\ lastSequence \in [Agents -> Nat]
        /\ receipts \in [Agents -> Seq(Nat)] /\ seq > lastSequence[a]
        /\ lastSequence' = [lastSequence EXCEPT ![a] = seq]
        /\ receipts' = [receipts EXCEPT ![a] = Append(receipts[a], seq)]
        /\ UNCHANGED <<sessions, ended>>
    BY <1>2, AgentGatewayAssumption DEF Accept, IsNew, UnchangedSessions, TypeOK
  <2>2. \A b \in Agents : lastSequence[b] <= lastSequence'[b]
    BY <2>1
  <2>3. ASSUME NEW b \in Agents, NEW i \in DOMAIN receipts'[b]
        PROVE  /\ receipts'[b][i] \in Nat
               /\ receipts'[b][i] <= lastSequence'[b]
               /\ \/ i \in DOMAIN receipts[b] /\ receipts'[b][i] = receipts[b][i]
                  \/ /\ b = a /\ receipts'[b][i] = seq
                     /\ \A k \in DOMAIN receipts'[b] : k <= i
    <3>1. CASE b = a
      <4>1. receipts'[b] = Append(receipts[b], seq) /\ receipts[b] \in Seq(Nat)
        BY <2>1, <3>1
      <4>2. CASE i \in DOMAIN receipts[b]
        <5>1. receipts'[b][i] = receipts[b][i] /\ receipts[b][i] \in Nat
          BY <4>1, <4>2
        <5>2. receipts[b][i] <= lastSequence[b]
          BY <4>2 DEF NumbersAreOld
        <5> QED
          BY <2>1, <2>2, <4>2, <5>1, <5>2
      <4>3. CASE i \notin DOMAIN receipts[b]
        <5> DEFINE n == Len(receipts[b])
        <5>1. /\ DOMAIN receipts'[b] = 1..(n + 1) /\ receipts'[b][n + 1] = seq
              /\ DOMAIN receipts[b] = 1..n /\ n \in Nat
          BY <2>1, <4>1
        <5>2. i = n + 1
          BY <4>3, <5>1
        <5> QED
          BY <2>1, <2>2, <3>1, <5>1, <5>2
      <4> QED
        BY <4>2, <4>3
    <3>2. CASE b # a
      BY <2>1, <3>2 DEF NumbersAreOld
    <3> QED
      BY <3>1, <3>2
  <2>4. MessagesActInOrder'
    <3> SUFFICES ASSUME NEW b \in Agents, NEW i \in DOMAIN receipts'[b],
                        NEW k \in DOMAIN receipts'[b], i < k
                 PROVE  receipts'[b][i] < receipts'[b][k]
      BY DEF MessagesActInOrder
    <3>1. i \in Nat /\ k \in Nat
      BY <2>1
    <3>2. i \in DOMAIN receipts[b] /\ receipts'[b][i] = receipts[b][i]
      BY <2>3, <3>1
    <3>3. receipts[b][i] <= lastSequence[b] /\ receipts[b][i] \in Nat
      BY <2>1, <3>2 DEF NumbersAreOld
    <3>4. CASE k \in DOMAIN receipts[b] /\ receipts'[b][k] = receipts[b][k]
      BY <3>2, <3>4 DEF MessagesActInOrder
    <3>5. CASE b = a /\ receipts'[b][k] = seq
      BY <2>1, <3>2, <3>3, <3>5
    <3> QED
      BY <2>3, <3>4, <3>5
  <2>5. ASSUME NEW g \in Handlers, handlers'[g] # Null
        PROVE  handlers'[g].seq <= lastSequence'[handlers'[g].agent]
    <3>1. CASE g = h
      BY <1>2, <2>1, <3>1, AcceptBegins
    <3>2. CASE g # h
      <4>1. handlers'[g] = handlers[g] /\ handlers[g] \in HandlerStates
        BY <1>2, <2>5, <3>2 DEF Accept, TypeOK
      <4>2. /\ handlers[g].agent \in Agents /\ handlers[g].seq \in Nat
            /\ handlers[g].seq <= lastSequence[handlers[g].agent]
        BY <2>5, <4>1, AgentGatewayAssumption DEF NumbersAreOld, HandlerStates
      <4>3. ASSUME NEW b \in Agents, NEW n \in Nat, n <= lastSequence[b]
            PROVE  n <= lastSequence'[b]
        BY <2>1, <4>3
      <4> QED
        BY <4>1, <4>2, <4>3
    <3> QED
      BY <3>1, <3>2
  <2>6. ASSUME NEW b \in Agents, NEW s \in Past(b)'
        PROVE  s.id <= lastSequence'[b]
    <3>1. s \in Past(b) /\ s \in Sessions
      BY <2>1 DEF Past, TypeOK
    <3>2. s.id \in Nat /\ s.id <= lastSequence[b]
      BY <3>1, AgentGatewayAssumption DEF NumbersAreOld, Sessions
    <3> QED
      BY <2>1, <2>2, <3>2
  <2> QED
    BY <2>3, <2>4, <2>5, <2>6 DEF NumbersAreOld
<1> QED
  BY <1>1, <1>2, NumbersChange

(* Handlers are told apart by their messages: a new one has a number that is *)
(* above those of all others.                                                *)
LEMMA HandlersDifferStep ==
  ASSUME TypeOK, [Next]_vars, NumbersAreOld, HandlersDiffer
  PROVE  HandlersDiffer'
<1> SUFFICES ASSUME NEW g \in Handlers, NEW h \in Handlers,
                    handlers'[g] # Null, handlers'[h] # Null, g # h,
                    handlers'[g].agent = handlers'[h].agent
             PROVE  handlers'[g].seq # handlers'[h].seq
  BY DEF HandlersDiffer
<1>1. ASSUME NEW f \in Handlers, NEW a \in Agents, NEW seq \in 1..MaxSequence,
             NEW kind \in Requests, NEW j \in Jobs, Accept(f, a, seq, kind, j)
      PROVE  \A e \in Handlers \ {f} :
               /\ handlers'[e] = handlers[e]
               /\ handlers[e] # Null /\ handlers[e].agent = a =>
                    handlers[e].seq # seq
  <2>1. seq > lastSequence[a] /\ seq \in Nat /\ lastSequence[a] \in Nat
    BY <1>1, AgentGatewayAssumption DEF Accept, IsNew, TypeOK
  <2>2. ASSUME NEW e \in Handlers \ {f}, handlers[e] # Null,
               handlers[e].agent = a
        PROVE  handlers[e].seq # seq
    BY <2>1, <2>2 DEF NumbersAreOld
  <2> QED
    BY <1>1, <2>2 DEF Accept, TypeOK
<1>2. CASE \E f \in Handlers, a \in Agents, seq \in 1..MaxSequence,
              kind \in Requests, j \in Jobs : Accept(f, a, seq, kind, j)
  <2>1. PICK f \in Handlers, a \in Agents, seq \in 1..MaxSequence,
             kind \in Requests, j \in Jobs : Accept(f, a, seq, kind, j)
    BY <1>2
  <2>2. handlers'[f].agent = a /\ handlers'[f].seq = seq
    BY <2>1, AcceptBegins
  <2> QED
    BY <1>1, <2>1, <2>2 DEF HandlersDiffer
<1>3. CASE ~\E f \in Handlers, a \in Agents, seq \in 1..MaxSequence,
               kind \in Requests, j \in Jobs : Accept(f, a, seq, kind, j)
  BY <1>3, HandlersStay, NullAssumption DEF HandlersDiffer
<1> QED
  BY <1>2, <1>3

(* A session that was never claimed stays apart from those of the past, and  *)
(* the active session is not among those that are over.                      *)
LEMMA SessionsStep ==
  ASSUME TypeOK, [Next]_vars, NumbersAreOld, HandlersDiffer, AcceptedIsNew,
         SessionsDoNotReturn
  PROVE  AcceptedIsNew' /\ SessionsDoNotReturn'
<1>1. \A h \in Handlers : handlers[h] # Null =>
        handlers[h] \in HandlerStates /\ handlers[h].agent \in Agents
  BY DEF TypeOK, HandlerStates
<1>2. CASE UNCHANGED <<sessions, ended>>
  <2>1. SessionsDoNotReturn'
    BY <1>2 DEF SessionsDoNotReturn
  <2>2. ASSUME NEW h \in Handlers, handlers'[h] # Null,
               handlers'[h].pc = "accepted", NEW s \in Past(handlers'[h].agent)
        PROVE  s.id # handlers'[h].seq
    <3>1. CASE handlers[h] \in HandlerStates /\ handlers[h].pc = "accepted"
               /\ handlers'[h].agent = handlers[h].agent
               /\ handlers'[h].seq = handlers[h].seq
      BY <2>2, <3>1, NullAssumption DEF AcceptedIsNew, At
    <3>2. ASSUME NEW a \in Agents, NEW seq \in 1..MaxSequence,
                 NEW kind \in Requests, NEW j \in Jobs,
                 Accept(h, a, seq, kind, j)
          PROVE  s.id # handlers'[h].seq
      <4>1. handlers'[h].agent = a /\ handlers'[h].seq = seq
        BY <3>2, AcceptBegins
      <4>2. seq \in Nat /\ lastSequence[a] \in Nat /\ seq > lastSequence[a]
        BY <3>2, AgentGatewayAssumption DEF Accept, IsNew, TypeOK
      <4>3. s \in Sessions /\ s.id <= lastSequence[a]
        BY <2>2, <4>1 DEF NumbersAreOld, Past, TypeOK
      <4> QED
        BY <4>1, <4>2, <4>3
    <3> QED
      BY <2>2, <3>1, <3>2, HandlersStay
  <2>3. \A a : Past(a)' = Past(a)
    BY <1>2 DEF Past
  <2> QED
    BY <2>1, <2>2, <2>3 DEF AcceptedIsNew, At
<1>3. ASSUME NEW h \in Handlers, At(h, "accepted"), Go(h, "claimed"),
             NEW x, x = handlers[h],
             sessions' = [sessions EXCEPT ![x.agent] = Own(x)],
             ended' = [ended EXCEPT ![x.agent] =
                         @ \cup ({sessions[x.agent]} \ {Null, Own(x)})]
      PROVE  AcceptedIsNew' /\ SessionsDoNotReturn'
  <2>1. x \in HandlerStates /\ x.agent \in Agents /\ x # Null
    BY <1>1, <1>3 DEF At
  <2>2. \A s \in Past(x.agent) : s.id # x.seq
    BY <1>3 DEF AcceptedIsNew
  <2>3. Own(x) \notin ended[x.agent]
    BY <2>1, <2>2, OwnIsSession DEF Past
  <2>4. SessionsDoNotReturn'
    BY <1>3, <2>1, <2>3 DEF SessionsDoNotReturn, TypeOK
  <2>5. handlers'[h].pc = "claimed" /\ \A g \in Handlers \ {h} :
          handlers'[g] = handlers[g]
    BY <1>3, <2>1 DEF Go, TypeOK, HandlerStates
  <2>6. ASSUME NEW g \in Handlers, handlers'[g] # Null,
               handlers'[g].pc = "accepted",
               NEW s \in (ended'[handlers'[g].agent]
                          \cup {sessions'[handlers'[g].agent]}) \ {Null}
        PROVE  s.id # handlers'[g].seq
    <3>1. g # h /\ handlers'[g] = handlers[g] /\ handlers[g].agent \in Agents
      BY <1>1, <2>5, <2>6
    <3>2. s \in Past(handlers[g].agent)
          \/ (handlers[g].agent = x.agent /\ s = Own(x))
      BY <1>3, <2>1, <2>6, <3>1 DEF Past, TypeOK
    <3>3. CASE handlers[g].agent = x.agent /\ s = Own(x)
      BY <1>3, <2>1, <2>6, <3>1, <3>3, OwnIsSession DEF HandlersDiffer
    <3> QED
      BY <2>6, <3>1, <3>2, <3>3 DEF AcceptedIsNew, At
  <2> QED
    BY <2>4, <2>6 DEF AcceptedIsNew, At, Past
<1>4. ASSUME NEW h \in Handlers, NEW x, x = handlers[h], x # Null,
             handlers' = [handlers EXCEPT ![h].releasing = FALSE],
             sessions[x.agent] = Own(x),
             sessions' = [sessions EXCEPT ![x.agent] = Null],
             ended' = [ended EXCEPT ![x.agent] = @ \cup {sessions[x.agent]}]
      PROVE  AcceptedIsNew' /\ SessionsDoNotReturn'
  <2>1. x \in HandlerStates /\ x.agent \in Agents
    BY <1>1, <1>4
  <2>2. SessionsDoNotReturn'
    <3>1. Null \notin ended'[x.agent]
      BY SessionsTyped, NullAssumption, <2>1
    <3> QED
      BY <1>4, <2>1, <3>1 DEF SessionsDoNotReturn, TypeOK
  <2>3. ASSUME NEW g \in Handlers, handlers'[g] # Null,
               handlers'[g].pc = "accepted",
               NEW s \in (ended'[handlers'[g].agent]
                          \cup {sessions'[handlers'[g].agent]}) \ {Null}
        PROVE  s.id # handlers'[g].seq
    <3>1. /\ handlers[g] # Null /\ handlers[g].pc = "accepted"
          /\ handlers'[g].agent = handlers[g].agent
          /\ handlers'[g].seq = handlers[g].seq
      BY <1>4, <2>1, <2>3 DEF TypeOK, HandlerStates
    <3>2. s \in Past(handlers[g].agent)
      BY <1>1, <1>4, <2>1, <2>3, <3>1 DEF Past, TypeOK
    <3> QED
      BY <3>1, <3>2 DEF AcceptedIsNew, At
  <2> QED
    BY <2>2, <2>3 DEF AcceptedIsNew, At, Past
<1>5. \A h \in Handlers : At(h, "accepted") => handlers[h] # Null
  BY DEF At
<1> QED
  BY <1>2, <1>3, <1>4, <1>5, SessionsChange

(* Only the end of a socket, or its closing, lets it release its session.    *)
LEMMA ReleasingStep ==
  ASSUME TypeOK, [Next]_vars, ReleasingIsClosed
  PROVE  ReleasingIsClosed'
<1> SUFFICES ASSUME NEW h \in Handlers, handlers'[h] # Null,
                    handlers'[h].releasing
             PROVE  handlers'[h].closed
  BY DEF ReleasingIsClosed
<1>1. ASSUME NEW a \in Agents, NEW seq \in 1..MaxSequence,
             NEW kind \in Requests, NEW j \in Jobs, Accept(h, a, seq, kind, j)
      PROVE  handlers'[h].closed
  BY <1>1, AcceptBegins
<1> QED
  BY <1>1, HandlersStay, NullAssumption DEF ReleasingIsClosed

(* The first inductive invariant.                                            *)
LEMMA SessionInductive == Spec => []SessionInv
<1>1. Init => SessionInv
  <2> SUFFICES ASSUME Init PROVE SessionInv
    OBVIOUS
  <2>1. TypeOK
    BY AgentGatewayAssumption
    DEF Init, TypeOK, Active, JobRows
  <2>2. \A h \in Handlers : handlers[h] = Null
    BY DEF Init
  <2>3. \A a \in Agents : Past(a) = {} /\ receipts[a] = << >>
    BY DEF Init, Past
  <2> QED
    BY <2>1, <2>2, <2>3 DEF SessionInv, MessagesActInOrder, NumbersAreOld,
       HandlersDiffer, AcceptedIsNew, At, ReleasingIsClosed,
       SessionsDoNotReturn, Init
<1>2. SessionInv /\ [Next]_vars => SessionInv'
  BY TypeStep, NumbersStep, HandlersDifferStep, SessionsStep, ReleasingStep
  DEF SessionInv
<1> QED
  BY <1>1, <1>2, PTL DEF Spec

(* Whatever is done to it, the state of the gateway keeps its types.         *)
THEOREM GatewayTyped == Spec => []TypeOK
<1>1. SessionInv => TypeOK
  BY DEF SessionInv
<1> QED
  BY <1>1, SessionInductive, PTL

(* Each message of an agent is acted upon at most once and none after a      *)
(* newer one, however they are duplicated, delayed and handled at once: the  *)
(* receipts of claimAgentMessage are in order for any number of handlers.    *)
THEOREM MessagesAlwaysInOrder == Spec => []MessagesActInOrder
<1>1. SessionInv => MessagesActInOrder
  BY DEF SessionInv
<1> QED
  BY <1>1, SessionInductive, PTL

(* A session that was displaced by claimTransport, or given up by            *)
(* releaseTransport, is never the active one again.                          *)
THEOREM SessionsNeverReturn == Spec => []SessionsDoNotReturn
<1>1. SessionInv => SessionsDoNotReturn
  BY DEF SessionInv
<1> QED
  BY <1>1, SessionInductive, PTL

(* Unless another session takes its place, a session ends only through the   *)
(* release by a closed handler whose own it is.                              *)
THEOREM SessionsEndOnlyWithTheirSocket == Spec => SessionsEndWithTheirSocket
<1>1. SessionInv /\ [Next]_vars =>
        [\A a \in Agents : sessions[a] # Null /\ sessions'[a] = Null =>
           \E h \in InProgress(a) : /\ Own(handlers[h]) = sessions[a]
                                    /\ handlers[h].closed]_vars
  <2> SUFFICES ASSUME SessionInv, [Next]_vars, NEW a \in Agents,
                      sessions[a] # Null, sessions'[a] = Null
               PROVE  \E h \in InProgress(a) : /\ Own(handlers[h]) = sessions[a]
                                               /\ handlers[h].closed
    OBVIOUS
  <2>0. TypeOK /\ ReleasingIsClosed
    BY DEF SessionInv
  <2>1. ASSUME NEW h \in Handlers, NEW x, x = handlers[h], x # Null,
               sessions' = [sessions EXCEPT ![x.agent] = Own(x)]
        PROVE  FALSE
    BY <2>0, <2>1, OwnIsSession DEF TypeOK
  <2>2. ASSUME NEW h \in Handlers, NEW x, x = handlers[h], x # Null, x.releasing,
               sessions[x.agent] = Own(x),
               sessions' = [sessions EXCEPT ![x.agent] = Null]
        PROVE  h \in InProgress(a) /\ Own(x) = sessions[a] /\ x.closed
    BY <2>0, <2>2 DEF TypeOK, InProgress, ReleasingIsClosed
  <2> QED
    BY <2>0, <2>1, <2>2, SessionsChange DEF At
<1> QED
  BY <1>1, SessionInductive, PTL DEF Spec, SessionsEndWithTheirSocket
-----------------------------------------------------------------------------
(* Leases.                                                                   *)

(* What a handler that neither leases nor extends a lease keeps.             *)
KeepsItsEnd(h) ==
  LET x == handlers[h]
      y == handlers'[h]
  IN
  /\ y.until = x.until
  /\ y.at \in {x.at, now}
  /\ y.job = x.job \/ x.pc = "ready"
  /\ y.kind = x.kind \/ x.pc = "waiting"
  /\ x.pc = "answer" /\ x.kind # "hello" => y.pc = "answer"
  /\ y.pc \in {"offer", "ready"} =>
       y.at = now \/ (x.pc \in {"offer", "ready"} /\ y.at = x.at)

(* A socket that ends, or one that moves on, keeps it.                       *)
LEMMA EndKeeps ==
  ASSUME TypeOK, NEW h \in Handlers, handlers[h] # Null, End(h),
         handlers'[h] # Null
  PROVE  KeepsItsEnd(h) /\ handlers[h].kind = "hello"
<1> DEFINE x == handlers[h]
           y == [x EXCEPT !.pc = "idle", !.closed = TRUE,
                          !.releasing = x.releasing \/ ~x.closed]
<1>1. x \in HandlerStates
  BY DEF TypeOK
<1>2. IsSocket(x) /\ handlers'[h] = y
  BY DEF End, TypeOK
<1>3. /\ y.until = x.until /\ y.at = x.at /\ y.job = x.job /\ y.kind = x.kind
      /\ y.pc = "idle"
  BY <1>1 DEF HandlerStates
<1> HIDE DEF y
<1> QED
  BY <1>2, <1>3 DEF KeepsItsEnd, IsSocket

LEMMA MoveKeeps ==
  ASSUME TypeOK, NEW h \in Handlers, handlers[h] # Null,
         NEW pc \in Pcs, Go(h, pc),
         handlers[h].pc = "answer" => handlers[h].kind = "hello",
         pc \in {"offer", "ready"} => handlers[h].pc \in {"offer", "ready"}
  PROVE  KeepsItsEnd(h)
<1> DEFINE x == handlers[h]
           y == [x EXCEPT !.pc = pc]
<1>1. x \in HandlerStates
  BY DEF TypeOK
<1>2. handlers'[h] = y
  BY DEF Go, TypeOK
<1>3. /\ y.until = x.until /\ y.at = x.at /\ y.job = x.job /\ y.kind = x.kind
      /\ y.pc = pc
  BY <1>1 DEF HandlerStates
<1> HIDE DEF y
<1> QED
  BY <1>2, <1>3 DEF KeepsItsEnd

(* So does one that reads the clock.                                         *)
LEMMA ClockKeeps ==
  ASSUME TypeOK, NEW h \in Handlers, handlers[h] # Null,
         handlers[h].pc # "answer",
         NEW pc \in Pcs, NEW kind \in {handlers[h].kind, "repoll"},
         handlers[h].kind = kind \/ handlers[h].pc = "waiting",
         handlers' = [handlers EXCEPT ![h] =
                        [@ EXCEPT !.at = now, !.pc = pc, !.kind = kind]]
  PROVE  KeepsItsEnd(h)
<1> DEFINE x == handlers[h]
           y == [x EXCEPT !.at = now, !.pc = pc, !.kind = kind]
<1>1. x \in HandlerStates
  BY DEF TypeOK
<1>2. handlers'[h] = y
  BY DEF TypeOK
<1>3. /\ y.until = x.until /\ y.at = now /\ y.job = x.job /\ y.kind = kind
      /\ y.pc = pc
  BY <1>1 DEF HandlerStates
<1> HIDE DEF y
<1> QED
  BY <1>2, <1>3 DEF KeepsItsEnd

(* Only a lease and a heartbeat change the end that a handler answers.       *)
LEMMA HandlerKeeps ==
  ASSUME TypeOK, NEW h \in Handlers, Request(h) \/ Socket(h),
         ~Lease(h), ~Heartbeat(h), handlers'[h] # Null
  PROVE  KeepsItsEnd(h)
<1> DEFINE x == handlers[h]
<1>0. x # Null => x \in HandlerStates
  BY DEF TypeOK
<1>1. CASE ClaimTransport(h)
  BY <1>1, MoveKeeps DEF ClaimTransport, At, Pcs
<1>2. CASE CheckTransport(h)
  <2>1. CASE IsTransportActive(x)
    <3>1. PICK pc \in {"offer", "ready"} :
            handlers' = [handlers EXCEPT ![h].at = now, ![h].pc = pc]
      BY <1>2, <2>1 DEF CheckTransport
    <3>2. x # Null /\ x \in HandlerStates /\ x.pc = "claimed"
      BY <1>2 DEF CheckTransport, At, TypeOK
    <3>3. handlers' = [handlers EXCEPT ![h] =
             [@ EXCEPT !.at = now, !.pc = pc, !.kind = x.kind]]
      BY <3>1, <3>2 DEF TypeOK, HandlerStates
    <3> QED
      BY <3>2, <3>3, ClockKeeps DEF Pcs
  <2> QED
    BY <1>2, <2>1, EndKeeps DEF CheckTransport, At
<1>3. CASE PollAgain(h)
  <2>1. CASE IsTransportActive(x)
    <3>1. /\ x # Null /\ x.pc = "waiting" /\ "ready" \in Pcs
          /\ handlers' = [handlers EXCEPT ![h] =
               [@ EXCEPT !.at = now, !.pc = "ready", !.kind = "repoll"]]
      BY <1>3, <2>1 DEF PollAgain, At, TypeOK, Pcs
    <3> QED
      BY <3>1, ClockKeeps
  <2> QED
    BY <1>3, <2>1, EndKeeps DEF PollAgain, At
<1>4. CASE Poll(h)
  <2>1. x # Null /\ x \in HandlerStates /\ x.pc = "ready"
    BY <1>4 DEF Poll, At, TypeOK
  <2>2. \/ Go(h, "idle") \/ Go(h, "waiting") \/ End(h)
        \/ \E j \in Jobs :
             handlers' = [handlers EXCEPT ![h].job = j, ![h].pc = "answer"]
    BY <1>4 DEF Poll
  <2>3. ASSUME NEW j \in Jobs,
               handlers' = [handlers EXCEPT ![h].job = j, ![h].pc = "answer"]
        PROVE  KeepsItsEnd(h)
    <3> DEFINE y == [x EXCEPT !.job = j, !.pc = "answer"]
    <3>1. handlers'[h] = y
      BY <2>3 DEF TypeOK
    <3>2. y.until = x.until /\ y.at = x.at /\ y.kind = x.kind /\ y.pc = "answer"
      BY <2>1 DEF HandlerStates
    <3> HIDE DEF y
    <3> QED
      BY <2>1, <3>1, <3>2 DEF KeepsItsEnd
  <2> QED
    BY <2>1, <2>2, <2>3, MoveKeeps, EndKeeps DEF Pcs
<1>5. CASE Answer(h)
  <2>1. x # Null /\ x.pc = "answer"
    BY <1>5 DEF Answer, At
  <2>2. \/ handlers' = [handlers EXCEPT ![h] = Null] \/ End(h)
        \/ Go(h, "idle") /\ x.kind = "hello"
    BY <1>5 DEF Answer, IsSocket
  <2>3. ~(handlers' = [handlers EXCEPT ![h] = Null])
    BY <2>1, Disappears
  <2> QED
    BY <2>1, <2>2, <2>3, EndKeeps, MoveKeeps DEF Pcs
<1>6. CASE Scan(h)
  <2>1. /\ x # Null /\ x.pc = "idle" /\ "offer" \in Pcs
        /\ handlers' = [handlers EXCEPT ![h] =
             [@ EXCEPT !.at = now, !.pc = "offer", !.kind = x.kind]]
    BY <1>0, <1>6 DEF Scan, At, TypeOK, Pcs, HandlerStates
  <2> QED
    BY <2>1, ClockKeeps
<1>7. CASE Offer(h)
  BY <1>7, EndKeeps, MoveKeeps DEF Offer, At, Pcs
<1>8. CASE Close(h)
  <2>1. PICK b \in BOOLEAN :
          handlers' = [handlers EXCEPT ![h].closed = TRUE, ![h].releasing = b]
    BY <1>8 DEF Close
  <2> DEFINE y == [x EXCEPT !.closed = TRUE, !.releasing = b]
  <2>2. /\ y.until = x.until /\ y.at = x.at /\ y.job = x.job
        /\ y.kind = x.kind /\ y.pc = x.pc /\ handlers'[h] = y
    BY <1>0, <1>8, <2>1 DEF HandlerStates, Close, TypeOK
  <2> HIDE DEF y
  <2> QED
    BY <2>2 DEF KeepsItsEnd
<1>9. CASE ReleaseTransport(h)
  <2> DEFINE y == [x EXCEPT !.releasing = FALSE]
  <2>1. /\ y.until = x.until /\ y.at = x.at /\ y.job = x.job
        /\ y.kind = x.kind /\ y.pc = x.pc /\ handlers'[h] = y
    BY <1>0, <1>9 DEF HandlerStates, ReleaseTransport, TypeOK
  <2> HIDE DEF y
  <2> QED
    BY <2>1 DEF KeepsItsEnd
<1>10. CASE Leave(h)
  BY <1>10, Disappears DEF Leave
<1> QED
  BY <1>1, <1>2, <1>3, <1>4, <1>5, <1>6, <1>7, <1>8, <1>9, <1>10
  DEF Request, Socket

(* A lease that is answered is the one that the agent holds ...              *)
LEMMA LeaseAnswers ==
  ASSUME TypeOK, NEW h \in Handlers, NEW x \in HandlerStates, x = handlers[h],
         Lease(h), handlers'[h] # Null \/ jobs' # jobs
  PROVE  /\ x.pc = "ready" /\ x.kind = "lease" /\ status[x.agent] = "online"
         /\ handlers'[h] = [x EXCEPT !.pc = "answer",
                                     !.until = jobs'[x.job].leasedUntil]
         /\ jobs'[x.job].leasedBy = x.agent
         /\ jobs'[x.job].state = jobs[x.job].state
         /\ \A j \in Jobs : j # x.job => jobs'[j] = jobs[j]
         /\ \/ jobs' = jobs
            \/ /\ jobs[x.job].leasedUntil <= x.at
               /\ jobs'[x.job].leasedUntil = x.at + LeaseTime
<1>1. /\ x # Null /\ x.pc = "ready" /\ x.kind = "lease" /\ x.job \in Jobs
      /\ x.at \in Nat /\ x.agent \in Agents /\ jobs[x.job] \in JobRows
      /\ jobs[x.job].leasedUntil \in Nat
  BY DEF Lease, At, TypeOK, HandlerStates, JobRows
<1>2. ~End(h) \/ jobs' # jobs
  BY <1>1, EndKeeps
<1>3. CASE /\ status[x.agent] = "online"
           /\ Leased(x.job, x.at) /\ jobs[x.job].leasedBy = x.agent
           /\ Answers(h, jobs[x.job].leasedUntil) /\ UNCHANGED jobs
  BY <1>1, <1>3, AnswersGoOn
<1>4. CASE /\ status[x.agent] = "online" /\ ~Leased(x.job, x.at)
           /\ Answers(h, x.at + LeaseTime)
           /\ jobs' = [jobs EXCEPT ![x.job].leasedBy = x.agent,
                                   ![x.job].leasedUntil = x.at + LeaseTime]
  <2>0. x.at + LeaseTime \in Nat
    BY <1>1, AgentGatewayAssumption
  <2>1. /\ x.at + LeaseTime \in Nat
        /\ jobs'[x.job] = [jobs[x.job] EXCEPT !.leasedBy = x.agent,
                                              !.leasedUntil = x.at + LeaseTime]
        /\ \A j \in Jobs : j # x.job => jobs'[j] = jobs[j]
    BY <1>1, <1>4, <2>0 DEF TypeOK
  <2>2. /\ jobs'[x.job].leasedBy = x.agent
        /\ jobs'[x.job].leasedUntil = x.at + LeaseTime
        /\ jobs'[x.job].state = jobs[x.job].state
    BY <1>1, <2>1 DEF JobRows
  <2>3. handlers'[h] = [x EXCEPT !.pc = "answer", !.until = x.at + LeaseTime]
    BY <1>1, <1>4, <2>1, AnswersGoOn
  <2>4. jobs[x.job].leasedUntil <= x.at
    BY <1>1, <1>4 DEF Leased
  <2> QED
    BY <1>1, <1>4, <2>1, <2>2, <2>3, <2>4
<1> QED
  BY <1>2, <1>3, <1>4 DEF Lease

(* ... and so is one that a heartbeat extended.                              *)
LEMMA HeartbeatAnswers ==
  ASSUME TypeOK, NEW h \in Handlers, NEW x \in HandlerStates, x = handlers[h],
         Heartbeat(h), handlers'[h] # Null \/ jobs' # jobs
  PROVE  /\ x.pc = "ready" /\ x.kind = "heartbeat"
         /\ status[x.agent] = "online"
         /\ handlers'[h] = [x EXCEPT !.pc = "answer",
                                     !.until = jobs'[x.job].leasedUntil]
         /\ jobs[x.job].leasedBy = x.agent
         /\ jobs'[x.job].leasedBy = x.agent
         /\ jobs'[x.job].state = jobs[x.job].state
         /\ \A j \in Jobs : j # x.job => jobs'[j] = jobs[j]
         /\ jobs'[x.job].leasedUntil = x.at + LeaseTime
<1>1. /\ x # Null /\ x.pc = "ready" /\ x.kind = "heartbeat" /\ x.job \in Jobs
      /\ x.at \in Nat /\ x.agent \in Agents /\ jobs[x.job] \in JobRows
  BY DEF Heartbeat, At, TypeOK, HandlerStates
<1>2. ~End(h) \/ jobs' # jobs
  BY <1>1, EndKeeps
<1>3. /\ Keeps(x)
      /\ jobs' = [jobs EXCEPT ![x.job].leasedUntil = x.at + LeaseTime]
      /\ Answers(h, x.at + LeaseTime)
  BY <1>2 DEF Heartbeat
<1>0. x.at + LeaseTime \in Nat
  BY <1>1, AgentGatewayAssumption
<1>4. /\ x.at + LeaseTime \in Nat
      /\ jobs'[x.job] = [jobs[x.job] EXCEPT !.leasedUntil = x.at + LeaseTime]
      /\ \A j \in Jobs : j # x.job => jobs'[j] = jobs[j]
  BY <1>0, <1>1, <1>3 DEF TypeOK
<1>5. /\ jobs'[x.job].leasedBy = jobs[x.job].leasedBy
      /\ jobs'[x.job].leasedUntil = x.at + LeaseTime
      /\ jobs'[x.job].state = jobs[x.job].state
  BY <1>1, <1>4 DEF JobRows
<1>6. handlers'[h] = [x EXCEPT !.pc = "answer", !.until = x.at + LeaseTime]
  BY <1>1, <1>3, <1>4, AnswersGoOn
<1> QED
  BY <1>1, <1>3, <1>4, <1>5, <1>6 DEF Keeps

(* What a step may do to one job: nothing to its lease, complete it, lease   *)
(* it anew or extend its lease.                                              *)
LEMMA JobChanges ==
  ASSUME TypeOK, [Next]_vars, NEW j \in Jobs
  PROVE  \/ /\ jobs'[j].leasedBy = jobs[j].leasedBy
            /\ jobs'[j].leasedUntil = jobs[j].leasedUntil
            /\ jobs[j].state = "completed" => jobs'[j].state = "completed"
         \/ jobs'[j].state = "completed" /\ jobs'[j].leasedBy = Null
         \/ \E h \in Handlers, x \in HandlerStates :
              /\ x = handlers[h] /\ j = x.job /\ Lease(h)
              /\ jobs[j].leasedUntil <= x.at /\ status[x.agent] = "online"
              /\ jobs'[j].leasedBy = x.agent
              /\ jobs'[j].leasedUntil = x.at + LeaseTime
              /\ jobs'[j].state = jobs[j].state
         \/ \E h \in Handlers, x \in HandlerStates :
              /\ x = handlers[h] /\ j = x.job /\ Heartbeat(h)
              /\ x.pc = "ready" /\ x.kind = "heartbeat"
              /\ status[x.agent] = "online" /\ jobs[j].leasedBy = x.agent
              /\ jobs'[j].leasedBy = x.agent
              /\ jobs'[j].leasedUntil = x.at + LeaseTime
              /\ jobs'[j].state = jobs[j].state
<1>1. jobs[j] \in JobRows
  BY DEF TypeOK
<1>2. CASE jobs' = jobs
  BY <1>2
<1>3. ASSUME NEW i \in Jobs, Enqueue(i)
      PROVE  \/ jobs'[j] = jobs[j]
             \/ /\ jobs'[j].leasedBy = jobs[j].leasedBy
                /\ jobs'[j].leasedUntil = jobs[j].leasedUntil
                /\ jobs[j].state # "completed"
  <2>1. CASE i = j
    <3>1. /\ jobs'[j] = [jobs[j] EXCEPT !.state = "open",
                                        !.expires = now + JobTime]
          /\ jobs[j].state = "absent"
      BY <1>3, <2>1 DEF Enqueue, TypeOK
    <3> QED
      BY <1>1, <3>1 DEF JobRows
  <2> QED
    BY <1>3, <2>1 DEF Enqueue, TypeOK
<1>4. ASSUME NEW a \in Agents, NEW mode \in {"none", "drain", "force"},
             Pair(a, mode)
      PROVE  \/ jobs'[j] = jobs[j]
             \/ jobs'[j].state = "completed" /\ jobs'[j].leasedBy = Null
  <2>1. \/ jobs'[j] = jobs[j]
        \/ jobs'[j] = [jobs[j] EXCEPT !.state = "completed", !.leasedBy = Null,
                                      !.leasedUntil = 0]
    BY <1>4 DEF Pair
  <2> QED
    BY <1>1, <2>1 DEF JobRows
<1>5. \A h \in Handlers : Lease(h) \/ Heartbeat(h) =>
        handlers[h] \in HandlerStates
  BY DEF Lease, Heartbeat, At, TypeOK
<1>6. ASSUME NEW h \in Handlers, NEW x \in HandlerStates, x = handlers[h],
             Lease(h), jobs' # jobs
      PROVE  \/ jobs'[j] = jobs[j]
             \/ /\ j = x.job
                /\ jobs[j].leasedUntil <= x.at /\ status[x.agent] = "online"
                /\ jobs'[j].leasedBy = x.agent
                /\ jobs'[j].leasedUntil = x.at + LeaseTime
                /\ jobs'[j].state = jobs[j].state
  <2>1. /\ status[x.agent] = "online" /\ jobs'[x.job].leasedBy = x.agent
        /\ jobs'[x.job].state = jobs[x.job].state
        /\ jobs[x.job].leasedUntil <= x.at
        /\ jobs'[x.job].leasedUntil = x.at + LeaseTime
    BY <1>6, LeaseAnswers
  <2>2. j # x.job => jobs'[j] = jobs[j]
    BY <1>6, LeaseAnswers
  <2> QED
    BY <2>1, <2>2
<1>7. ASSUME NEW h \in Handlers, NEW x \in HandlerStates, x = handlers[h],
             Heartbeat(h), jobs' # jobs
      PROVE  \/ jobs'[j] = jobs[j]
             \/ /\ j = x.job
                /\ x.pc = "ready" /\ x.kind = "heartbeat"
                /\ status[x.agent] = "online" /\ jobs[j].leasedBy = x.agent
                /\ jobs'[j].leasedBy = x.agent
                /\ jobs'[j].leasedUntil = x.at + LeaseTime
                /\ jobs'[j].state = jobs[j].state
  <2>1. /\ status[x.agent] = "online" /\ jobs'[x.job].leasedBy = x.agent
        /\ x.pc = "ready" /\ x.kind = "heartbeat"
        /\ jobs[x.job].leasedBy = x.agent
        /\ jobs'[x.job].state = jobs[x.job].state
        /\ jobs'[x.job].leasedUntil = x.at + LeaseTime
    BY <1>7, HeartbeatAnswers
  <2>2. j # x.job => jobs'[j] = jobs[j]
    BY <1>7, HeartbeatAnswers
  <2> QED
    BY <2>1, <2>2
<1> QED
  BY <1>2, <1>3, <1>4, <1>5, <1>6, <1>7, JobsChange

(* The horizon of an agent never draws nearer, and it is at most one lease   *)
(* time away.                                                                *)
LEMMA HorizonGrows ==
  ASSUME TypeOK, [Next]_vars, NEW a \in Agents,
         status[a] = "revoked" => revokedAt[a] <= now
  PROVE  /\ Horizon(a) \in Nat /\ Horizon(a)' \in Nat
         /\ Horizon(a) <= Horizon(a)'
         /\ Horizon(a)' <= now' + LeaseTime
         /\ status'[a] = "revoked" => revokedAt'[a] <= now'
<1>0. /\ now \in Nat /\ now' \in Nat /\ LeaseTime \in Nat /\ now <= now'
      /\ revokedAt[a] \in Nat /\ revokedAt'[a] \in Nat
  BY AgentGatewayAssumption, TimeChanges, StatusTyped DEF TypeOK
<1>1. CASE UNCHANGED <<status, revokedAt>>
  BY <1>0, <1>1 DEF Horizon
<1>2. ASSUME NEW b \in Agents, now' = now,
             \/ Revoke(b) \/ SetPresence(b)
             \/ \E mode \in {"none", "drain", "force"} : Pair(b, mode)
      PROVE  \/ /\ status'[a] = "revoked" => status[a] = "revoked"
                /\ status[a] = "revoked" =>
                     status'[a] = "revoked" /\ revokedAt'[a] = revokedAt[a]
             \/ /\ status[a] # "revoked" /\ status'[a] = "revoked"
                /\ revokedAt'[a] = now
  <2>1. CASE Revoke(b)
    BY <2>1 DEF Revoke, Active, TypeOK
  <2>2. CASE SetPresence(b)
    BY <2>2 DEF SetPresence, Active, TypeOK
  <2>3. CASE \E mode \in {"none", "drain", "force"} : Pair(b, mode)
    BY <2>3 DEF Pair, Active, TypeOK
  <2> QED
    BY <1>2, <2>1, <2>2, <2>3
<1>3. CASE now' = now /\ \E b \in Agents :
              \/ Revoke(b) \/ SetPresence(b)
              \/ \E mode \in {"none", "drain", "force"} : Pair(b, mode)
  BY <1>0, <1>2, <1>3 DEF Horizon
<1> QED
  BY <1>1, <1>3, StatusChanges

(* The handlers: nothing they read or answer is out of reach.                *)
LEMMA HandlersNearStep ==
  ASSUME TypeOK, [Next]_vars, LeasesAreNear, NEW h \in Handlers,
         handlers'[h] # Null, NEW b \in Agents, handlers'[h].agent = b
  PROVE  handlers'[h].at <= now' /\ handlers'[h].until <= Horizon(b)'
<1> DEFINE y == handlers'[h]
<1>0. /\ now \in Nat /\ now' \in Nat /\ LeaseTime \in Nat /\ now <= now'
      /\ y \in HandlerStates
  BY AgentGatewayAssumption, TimeChanges, HandlersTyped DEF TypeOK
<1>1. ASSUME NEW a \in Agents
      PROVE  /\ Horizon(a) \in Nat /\ Horizon(a)' \in Nat
             /\ Horizon(a) <= Horizon(a)'
  BY HorizonGrows DEF LeasesAreNear
<1>2. ASSUME NEW a \in Agents, NEW seq \in 1..MaxSequence,
             NEW kind \in Requests, NEW j \in Jobs, Accept(h, a, seq, kind, j)
      PROVE  y.at <= now' /\ y.until <= Horizon(b)'
  <2>1. y.at = 0 /\ y.until = 0 /\ y.agent = a
    BY <1>2, AcceptBegins
  <2> QED
    BY <1>0, <1>1, <2>1
<1>3. ASSUME NEW x \in HandlerStates, x = handlers[h], y.agent = x.agent,
             y.at \in {x.at, now}, y.until = x.until
      PROVE  y.at <= now' /\ y.until <= Horizon(b)'
  <2>1. /\ x.at <= now /\ x.until <= Horizon(x.agent) /\ x.agent \in Agents
        /\ x.at \in Nat /\ x.until \in Nat
    BY <1>3, NullAssumption DEF LeasesAreNear, HandlerStates
  <2>2. Horizon(x.agent) <= Horizon(x.agent)'
    BY <1>1, <2>1
  <2>3. x.agent = b
    BY <1>3
  <2>4. Horizon(x.agent) \in Nat /\ Horizon(x.agent)' \in Nat
    BY <1>1, <2>1
  <2> QED
    BY <1>0, <1>3, <2>1, <2>2, <2>3, <2>4
<1>4. ASSUME NEW x \in HandlerStates, x = handlers[h], Lease(h) \/ Heartbeat(h)
      PROVE  y.at <= now' /\ y.until <= Horizon(b)'
  <2>1. /\ x.at <= now /\ x.agent \in Agents /\ x.job \in Jobs /\ x.at \in Nat
    BY <1>4, NullAssumption DEF LeasesAreNear, HandlerStates
  <2>2. /\ y = [x EXCEPT !.pc = "answer", !.until = jobs'[x.job].leasedUntil]
        /\ status[x.agent] = "online"
    BY <1>4, LeaseAnswers, HeartbeatAnswers
  <2>3. /\ y.at = x.at /\ y.agent = x.agent
        /\ y.until = jobs'[x.job].leasedUntil
    BY <2>2 DEF HandlerStates
  <2>4. jobs'[x.job].leasedUntil <= Horizon(x.agent)
    <3>1. Horizon(x.agent) = LeaseTime + now
      BY <2>2 DEF Horizon
    <3>2. CASE jobs'[x.job].leasedUntil = x.at + LeaseTime
      BY <1>0, <2>1, <3>1, <3>2
    <3>3. CASE jobs' = jobs /\ jobs'[x.job].leasedBy = x.agent
      BY <2>1, <3>3 DEF LeasesAreNear
    <3> QED
      BY <1>4, <3>2, <3>3, LeaseAnswers, HeartbeatAnswers
  <2>5. Horizon(x.agent) <= Horizon(x.agent)' /\ Horizon(x.agent) \in Nat
        /\ Horizon(x.agent)' \in Nat
    BY <1>1, <2>1
  <2>6. x.agent = b
    BY <2>3
  <2>7. jobs'[x.job].leasedUntil \in Nat
    BY <2>1, JobsTyped DEF JobRows
  <2> QED
    BY <1>0, <2>1, <2>3, <2>4, <2>5, <2>6, <2>7
<1>5. CASE UNCHANGED handlers
  BY <1>0, <1>3, <1>5 DEF TypeOK
<1>6. ASSUME NEW g \in Handlers, Request(g) \/ Socket(g)
      PROVE  \/ handlers'[h] = handlers[h]
             \/ h = g /\ handlers[h] \in HandlerStates /\ y.agent = handlers[h].agent
  <2>1. GoesOn(g)
    BY <1>6, RequestGoesOn, SocketGoesOn
  <2> QED
    BY <2>1 DEF GoesOn, TypeOK
<1>7. ASSUME Request(h) \/ Socket(h), handlers[h] \in HandlerStates,
             y.agent = handlers[h].agent
      PROVE  y.at <= now' /\ y.until <= Horizon(b)'
  <2>1. CASE Lease(h) \/ Heartbeat(h)
    BY <1>4, <1>7, <2>1
  <2>2. CASE ~Lease(h) /\ ~Heartbeat(h)
    BY <1>3, <1>7, <2>2, HandlerKeeps DEF KeepsItsEnd
  <2> QED
    BY <2>1, <2>2
<1>8. CASE handlers'[h] = handlers[h]
  BY <1>0, <1>3, <1>8
<1>9. ASSUME NEW g \in Handlers, NEW a \in Agents, NEW seq \in 1..MaxSequence,
             NEW kind \in Requests, NEW j \in Jobs, Accept(g, a, seq, kind, j)
      PROVE  handlers'[h] = handlers[h] \/ g = h
  BY <1>9 DEF Accept, TypeOK
<1> HIDE DEF y
<1> QED
  BY <1>2, <1>5, <1>6, <1>7, <1>8, <1>9, Steps DEF y

(* The leases, and what agents were told of them.                            *)
LEMMA LeasesNearStep ==
  ASSUME TypeOK, [Next]_vars, LeasesAreNear
  PROVE  LeasesAreNear'
<1>0. now \in Nat /\ LeaseTime \in Nat
  BY AgentGatewayAssumption DEF TypeOK
<1>1. ASSUME NEW a \in Agents
      PROVE  /\ Horizon(a) \in Nat /\ Horizon(a)' \in Nat
             /\ Horizon(a) <= Horizon(a)'
             /\ status'[a] = "revoked" => revokedAt'[a] <= now'
  BY HorizonGrows DEF LeasesAreNear
<1>2. ASSUME NEW a \in Agents, NEW j \in Jobs
      PROVE  told'[a][j] <= Horizon(a)'
  <2>1. told[a][j] \in Nat /\ told[a][j] <= Horizon(a)
    BY DEF LeasesAreNear, TypeOK
  <2>2. CASE told'[a][j] = told[a][j]
    BY <1>1, <2>1, <2>2
  <2>3. ASSUME NEW h \in Handlers, NEW x \in HandlerStates, x = handlers[h],
               Answer(h)
        PROVE  \/ told'[a][j] = told[a][j]
               \/ told'[a][j] = x.until /\ a = x.agent
    <3>1. x.agent \in Agents /\ x.job \in Jobs
      BY DEF HandlerStates
    <3> DEFINE y == [told[x.agent] EXCEPT ![x.job] =
                       IF x.until > @ THEN x.until ELSE @]
    <3>2. told' = told \/ told' = [told EXCEPT ![x.agent] = y]
      BY <2>3 DEF Answer
    <3>3. y[j] = told[x.agent][j] \/ y[j] = x.until
      BY <3>1 DEF TypeOK
    <3> HIDE DEF y
    <3> QED
      BY <3>1, <3>2, <3>3 DEF TypeOK
  <2>4. ASSUME NEW h \in Handlers, NEW x \in HandlerStates, x = handlers[h],
               a = x.agent, told'[a][j] = x.until
        PROVE  told'[a][j] <= Horizon(a)'
    <3>1. x.until <= Horizon(a) /\ x.until \in Nat
      BY <2>4, NullAssumption DEF LeasesAreNear, HandlerStates
    <3> QED
      BY <1>1, <2>4, <3>1
  <2>5. \A h \in Handlers : Answer(h) => handlers[h] \in HandlerStates
    BY DEF Answer, At, TypeOK
  <2> QED
    BY <2>2, <2>3, <2>4, <2>5, ToldChanges
<1>3. ASSUME NEW a \in Agents, NEW j \in Jobs, jobs'[j].leasedBy = a
      PROVE  jobs'[j].leasedUntil <= Horizon(a)'
  <2>1. CASE jobs'[j].leasedBy = jobs[j].leasedBy
             /\ jobs'[j].leasedUntil = jobs[j].leasedUntil
    <3>1. jobs[j].leasedUntil \in Nat /\ jobs[j].leasedUntil <= Horizon(a)
      BY <1>3, <2>1 DEF LeasesAreNear, TypeOK, JobRows
    <3> QED
      BY <1>1, <2>1, <3>1
  <2>2. ASSUME NEW h \in Handlers, NEW x \in HandlerStates, x = handlers[h],
               status[x.agent] = "online", jobs'[j].leasedBy = x.agent,
               jobs'[j].leasedUntil = x.at + LeaseTime
        PROVE  jobs'[j].leasedUntil <= Horizon(a)'
    <3>1. x.at \in Nat /\ x.at <= now /\ a = x.agent
      BY <1>3, <2>2, NullAssumption DEF LeasesAreNear, HandlerStates
    <3>2. Horizon(a) = LeaseTime + now
      BY <2>2, <3>1 DEF Horizon
    <3> QED
      BY <1>0, <1>1, <2>2, <3>1, <3>2
  <2>3. a # Null
    BY AgentGatewayAssumption
  <2>4. \/ /\ jobs'[j].leasedBy = jobs[j].leasedBy
           /\ jobs'[j].leasedUntil = jobs[j].leasedUntil
        \/ jobs'[j].leasedBy = Null
        \/ \E h \in Handlers, x \in HandlerStates :
             /\ x = handlers[h] /\ status[x.agent] = "online"
             /\ jobs'[j].leasedBy = x.agent
             /\ jobs'[j].leasedUntil = x.at + LeaseTime
    BY JobChanges
  <2> QED
    BY <1>3, <2>1, <2>2, <2>3, <2>4
<1>4. ASSUME NEW h \in Handlers, handlers'[h] # Null
      PROVE  /\ handlers'[h].at <= now'
             /\ (handlers[h].until <= Horizon(handlers[h].agent))'
  <2>1. PICK b \in Agents : handlers'[h].agent = b
    BY <1>4, HandlersTyped DEF HandlerStates
  <2>2. handlers'[h].at <= now' /\ handlers'[h].until <= Horizon(b)'
    BY <1>4, <2>1, HandlersNearStep
  <2> QED
    BY <2>1, <2>2 DEF Horizon
<1> QED
  BY <1>1, <1>2, <1>3, <1>4 DEF LeasesAreNear

(* A handler that is in progress after a step did nothing, did its step or   *)
(* has just begun.                                                           *)
LEMMA HandlerCases ==
  ASSUME TypeOK, [Next]_vars, NEW h \in Handlers, handlers'[h] # Null
  PROVE  \/ handlers'[h] = handlers[h] /\ handlers[h] \in HandlerStates
         \/ (Request(h) \/ Socket(h)) /\ GoesOn(h)
         \/ \E a \in Agents, seq \in 1..MaxSequence, kind \in Requests,
               j \in Jobs : Accept(h, a, seq, kind, j)
<1>1. CASE UNCHANGED handlers
  BY <1>1 DEF TypeOK
<1>2. ASSUME NEW g \in Handlers, Request(g) \/ Socket(g)
      PROVE  \/ handlers'[h] = handlers[h] /\ handlers[h] \in HandlerStates
             \/ g = h /\ GoesOn(h)
  <2>1. GoesOn(g)
    BY <1>2, RequestGoesOn, SocketGoesOn
  <2> QED
    BY <2>1 DEF GoesOn, TypeOK
<1>3. ASSUME NEW g \in Handlers, NEW a \in Agents, NEW seq \in 1..MaxSequence,
             NEW kind \in Requests, NEW j \in Jobs, Accept(g, a, seq, kind, j)
      PROVE  \/ handlers'[h] = handlers[h] /\ handlers[h] \in HandlerStates
             \/ g = h
  BY <1>3, AcceptBegins DEF TypeOK
<1> QED
  BY <1>1, <1>2, <1>3, Steps

(* An end that a handler has is one that it is about to answer.              *)
LEMMA EndsStep ==
  ASSUME TypeOK, [Next]_vars, EndsArePending
  PROVE  EndsArePending'
<1> SUFFICES ASSUME NEW h \in Handlers, handlers'[h] # Null,
                    handlers'[h].until # 0
             PROVE  /\ handlers'[h].pc = "answer"
                    /\ handlers'[h].kind \in {"lease", "heartbeat"}
  BY DEF EndsArePending
<1>1. CASE handlers'[h] = handlers[h]
  BY <1>1 DEF EndsArePending
<1>2. ASSUME NEW a \in Agents, NEW seq \in 1..MaxSequence,
             NEW kind \in Requests, NEW j \in Jobs, Accept(h, a, seq, kind, j)
      PROVE  FALSE
  BY <1>2, AcceptBegins
<1>3. ASSUME NEW x \in HandlerStates, x = handlers[h], Lease(h) \/ Heartbeat(h)
      PROVE  /\ handlers'[h].pc = "answer"
             /\ handlers'[h].kind \in {"lease", "heartbeat"}
  <2>1. /\ x.kind \in {"lease", "heartbeat"}
        /\ handlers'[h] = [x EXCEPT !.pc = "answer",
                                    !.until = jobs'[x.job].leasedUntil]
    BY <1>3, LeaseAnswers, HeartbeatAnswers
  <2> QED
    BY <2>1 DEF HandlerStates
<1>4. CASE (Request(h) \/ Socket(h)) /\ GoesOn(h) /\ ~Lease(h) /\ ~Heartbeat(h)
  <2>1. KeepsItsEnd(h)
    BY <1>4, HandlerKeeps
  <2>2. handlers[h] # Null
    BY <1>4, NullAssumption DEF GoesOn
  <2> QED
    BY <2>1, <2>2 DEF KeepsItsEnd, EndsArePending
<1>5. GoesOn(h) => handlers[h] \in HandlerStates
  BY DEF GoesOn
<1> QED
  BY <1>1, <1>2, <1>3, <1>4, <1>5, HandlerCases

(* The note on overlapping heartbeats is never taken back.                   *)
LEMMA OverlapStays ==
  ASSUME TypeOK, [Next]_vars, NEW a \in Agents, overlapped[a]
  PROVE  overlapped'[a]
<1>1. ASSUME NEW h \in Handlers, NEW b \in Agents, NEW seq \in 1..MaxSequence,
             NEW kind \in Requests, NEW j \in Jobs, Accept(h, b, seq, kind, j)
      PROVE  overlapped'[a]
  BY <1>1 DEF Accept, TypeOK
<1> QED
  BY <1>1, NumbersChange

(* A heartbeat is alone, or it is noted when the other one is accepted.      *)
LEMMA AloneStep ==
  ASSUME TypeOK, [Next]_vars, HeartbeatsAreAlone
  PROVE  HeartbeatsAreAlone'
<1> SUFFICES ASSUME NEW g \in Handlers, NEW h \in Handlers,
                    handlers'[g] # Null, handlers'[h] # Null, g # h,
                    NEW a, a = handlers'[h].agent, handlers'[g].agent = a,
                    handlers'[h].kind = "heartbeat"
             PROVE  overlapped'[a]
  BY DEF HeartbeatsAreAlone
<1>0. a \in Agents
  BY HandlersTyped DEF HandlerStates
<1>1. ASSUME NEW f \in {g, h}, NEW b \in Agents, NEW seq \in 1..MaxSequence,
             NEW kind \in Requests, NEW j \in Jobs, Accept(f, b, seq, kind, j)
      PROVE  overlapped'[a]
  <2>1. /\ handlers'[f].agent = b /\ handlers'[f].kind = kind /\ a = b
    BY <1>1, AcceptBegins
  <2>2. PICK e \in {g, h} : e # f
    BY <1>1
  <2>3. handlers'[e] = handlers[e]
    BY <1>1, <2>2 DEF Accept, TypeOK
  <2>4. e \in InProgress(a)
    BY <2>3 DEF InProgress
  <2>5. "heartbeat" \in {kind, handlers[e].kind}
    <3>1. CASE e = h
      BY <2>3, <3>1
    <3>2. CASE f = h
      BY <2>1, <3>2
    <3> QED
      BY <2>2, <3>1, <3>2
  <2> DEFINE P == \E d \in InProgress(b) :
                    "heartbeat" \in {kind, handlers[d].kind}
  <2>6. overlapped' = [overlapped EXCEPT ![b] = overlapped[b] \/ P]
    BY <1>1 DEF Accept
  <2>7. P
    BY <2>1, <2>4, <2>5
  <2> HIDE DEF P
  <2>8. overlapped' = [overlapped EXCEPT ![b] = TRUE]
    BY <2>6, <2>7
  <2> QED
    BY <1>0, <2>1, <2>8 DEF TypeOK
<1>2. ASSUME NEW f \in {g, h}
      PROVE  \/ /\ handlers[f] \in HandlerStates
                /\ handlers[f].agent = a
                /\ handlers'[f].kind \in {handlers[f].kind, "repoll"}
             \/ \E b \in Agents, seq \in 1..MaxSequence, kind \in Requests,
                   j \in Jobs : Accept(f, b, seq, kind, j)
  BY HandlersStay
<1>3. CASE /\ handlers[g] \in HandlerStates /\ handlers[h] \in HandlerStates
           /\ handlers[g].agent = a /\ handlers[h].agent = a
           /\ handlers'[h].kind \in {handlers[h].kind, "repoll"}
  BY <1>0, <1>3, OverlapStays, NullAssumption DEF HeartbeatsAreAlone
<1> QED
  BY <1>1, <1>2, <1>3

(* What agent a is told changes when an answer of its own is sent.           *)
LEMMA ToldOf ==
  ASSUME TypeOK, [Next]_vars, NEW a \in Agents, NEW j \in Jobs
  PROVE  \/ told'[a][j] = told[a][j]
         \/ \E h \in Handlers, x \in HandlerStates :
              /\ x = handlers[h] /\ x.pc = "answer" /\ x.agent = a /\ x.job = j
              /\ told'[a][j] = x.until /\ jobs' = jobs
<1>1. ASSUME NEW h \in Handlers, NEW x \in HandlerStates, x = handlers[h],
             Answer(h)
      PROVE  \/ told'[a][j] = told[a][j]
             \/ /\ x.pc = "answer" /\ x.agent = a /\ x.job = j
                /\ told'[a][j] = x.until /\ jobs' = jobs
  <2>1. x.agent \in Agents /\ x.job \in Jobs /\ x.pc = "answer" /\ jobs' = jobs
    BY <1>1 DEF HandlerStates, Answer, At
  <2> DEFINE y == [told[x.agent] EXCEPT ![x.job] =
                     IF x.until > @ THEN x.until ELSE @]
  <2>2. told' = told \/ told' = [told EXCEPT ![x.agent] = y]
    BY <1>1 DEF Answer
  <2>3. y[j] = told[x.agent][j] \/ (y[j] = x.until /\ j = x.job)
    BY <2>1 DEF TypeOK
  <2> HIDE DEF y
  <2> QED
    BY <2>1, <2>2, <2>3 DEF TypeOK
<1>2. \A h \in Handlers : Answer(h) => handlers[h] \in HandlerStates
  BY DEF Answer, At, TypeOK
<1> QED
  BY <1>1, <1>2, ToldChanges

(* A heartbeat that is alone finds no lease that ends later than its own.    *)
LEMMA ExtendStep ==
  ASSUME TypeOK, [Next]_vars, LeasesAreNear, HeartbeatsAreAlone,
         HeartbeatsExtend
  PROVE  HeartbeatsExtend'
<1> SUFFICES ASSUME NEW h \in Handlers, NEW j \in Jobs, NEW y \in HandlerStates,
                    y = handlers'[h], y.pc \in {"offer", "ready"},
                    y.kind = "heartbeat", ~overlapped'[y.agent]
             PROVE  /\ told'[y.agent][j] <= y.at + LeaseTime
                    /\ jobs'[j].leasedBy = y.agent =>
                         jobs'[j].leasedUntil <= y.at + LeaseTime
  BY HandlersTyped, NullAssumption DEF HeartbeatsExtend
<1> DEFINE a == y.agent
<1>0. /\ a \in Agents /\ y.at \in Nat /\ LeaseTime \in Nat /\ y # Null
      /\ ~overlapped[a]
  BY OverlapStays, AgentGatewayAssumption, NullAssumption DEF HandlerStates
<1>1. CASE y.at = now /\ now' = now
  <2>1. /\ told'[a][j] <= Horizon(a)' /\ told'[a][j] \in Nat
        /\ jobs'[j].leasedUntil \in Nat
        /\ jobs'[j].leasedBy = a => jobs'[j].leasedUntil <= Horizon(a)'
    BY <1>0, LeasesNearStep, JobsTyped DEF LeasesAreNear, JobRows
  <2>2. Horizon(a)' <= now' + LeaseTime /\ Horizon(a)' \in Nat
    BY <1>0, HorizonGrows DEF LeasesAreNear
  <2> QED
    BY <1>0, <1>1, <2>1, <2>2
<1>2. ASSUME NEW x \in HandlerStates, x = handlers[h], x.agent = a,
             x.kind = "heartbeat", x.pc \in {"offer", "ready"}, y.at = x.at
      PROVE  /\ told'[a][j] <= y.at + LeaseTime
             /\ jobs'[j].leasedBy = a => jobs'[j].leasedUntil <= y.at + LeaseTime
  <2>1. /\ told[a][j] <= y.at + LeaseTime
        /\ jobs[j].leasedBy = a => jobs[j].leasedUntil <= y.at + LeaseTime
    BY <1>0, <1>2, NullAssumption DEF HeartbeatsExtend
  <2>2. ASSUME NEW g \in Handlers \ {h}, NEW z \in HandlerStates,
               z = handlers[g], z.agent = a
        PROVE  FALSE
    BY <1>0, <1>2, <2>2, NullAssumption DEF HeartbeatsAreAlone
  <2>3. told'[a][j] = told[a][j]
    BY <1>0, <1>2, <2>2, ToldOf
  <2>4. ASSUME NEW g \in Handlers, NEW z \in HandlerStates, z = handlers[g],
               z.agent = a, Lease(g) \/ Heartbeat(g), jobs' # jobs
        PROVE  FALSE
    <3>1. g = h
      BY <2>2, <2>4
    <3>2. handlers'[h] = [x EXCEPT !.pc = "answer",
                                   !.until = jobs'[x.job].leasedUntil]
      BY <1>2, <2>4, <3>1, LeaseAnswers, HeartbeatAnswers
    <3>3. y.pc = "answer"
      BY <3>2 DEF HandlerStates
    <3> QED
      BY <3>3
  <2>5. jobs'[j].leasedBy = a =>
          /\ jobs[j].leasedBy = a
          /\ jobs'[j].leasedUntil = jobs[j].leasedUntil
    <3>1. CASE jobs' = jobs
      BY <3>1
    <3>2. CASE jobs' # jobs
      <4>1. a # Null
        BY <1>0, AgentGatewayAssumption
      <4>2. \/ /\ jobs'[j].leasedBy = jobs[j].leasedBy
               /\ jobs'[j].leasedUntil = jobs[j].leasedUntil
            \/ jobs'[j].leasedBy = Null
            \/ \E g \in Handlers, z \in HandlerStates :
                 /\ z = handlers[g] /\ (Lease(g) \/ Heartbeat(g))
                 /\ jobs'[j].leasedBy = z.agent
        BY JobChanges
      <4> QED
        BY <2>4, <3>2, <4>1, <4>2
    <3> QED
      BY <3>1, <3>2
  <2> QED
    BY <2>1, <2>3, <2>5
<1>3. ASSUME NEW b \in Agents, NEW seq \in 1..MaxSequence,
             NEW kind \in Requests, NEW i \in Jobs, Accept(h, b, seq, kind, i)
      PROVE  FALSE
  BY <1>3, AcceptBegins
<1>4. CASE handlers'[h] = handlers[h]
  BY <1>2, <1>4
<1>5. CASE (Request(h) \/ Socket(h)) /\ GoesOn(h)
  <2>1. now' = now
    BY <1>5 DEF Request, ClaimTransport, CheckTransport, PollAgain, Poll, Lease,
                Heartbeat, Answer, Socket, Scan, Offer, Close, ReleaseTransport,
                Leave
  <2>2. ~Lease(h) /\ ~Heartbeat(h)
    <3>1. ASSUME NEW x \in HandlerStates, x = handlers[h],
                 Lease(h) \/ Heartbeat(h)
          PROVE  FALSE
      <4>1. handlers'[h] = [x EXCEPT !.pc = "answer",
                                     !.until = jobs'[x.job].leasedUntil]
        BY <1>0, <3>1, LeaseAnswers, HeartbeatAnswers
      <4>2. y.pc = "answer"
        BY <4>1 DEF HandlerStates
      <4> QED
        BY <4>2
    <3> QED
      BY <1>5, <3>1 DEF GoesOn
  <2>3. KeepsItsEnd(h) /\ handlers'[h] # Null
    BY <1>0, <1>5, <2>2, HandlerKeeps
  <2>4. \/ y.at = now
        \/ /\ handlers[h].pc \in {"offer", "ready"} /\ y.at = handlers[h].at
           /\ handlers[h] \in HandlerStates /\ handlers[h].agent = a
           /\ handlers[h].kind = "heartbeat"
    BY <1>0, <1>5, <2>3 DEF KeepsItsEnd, GoesOn
  <2> QED
    BY <1>1, <1>2, <2>1, <2>4
<1> QED
  BY <1>0, <1>3, <1>4, <1>5, HandlerCases

(* What an agent relies on is only disturbed by a heartbeat of its own.      *)
LEMMA HoldsStays ==
  ASSUME TypeOK, [Next]_vars, LeasesAreNear, NEW a \in Agents, NEW j \in Jobs,
         NEW until \in Nat, Holds(a, j, until),
         \A h \in Handlers, x \in HandlerStates :
           x = handlers[h] /\ x.agent = a /\ x.job = j /\ Heartbeat(h)
             => overlapped[a] \/ until <= x.at + LeaseTime
  PROVE  Holds(a, j, until)'
<1>0. now \in Nat /\ now' \in Nat /\ now <= now' /\ LeaseTime \in Nat
      /\ jobs[j].leasedUntil \in Nat
  BY TimeChanges, AgentGatewayAssumption DEF TypeOK, JobRows
<1>1. CASE until <= now
  BY <1>0, <1>1 DEF Holds
<1>2. CASE overlapped[a]
  BY <1>2, OverlapStays DEF Holds
<1>3. CASE /\ jobs'[j].leasedBy = jobs[j].leasedBy
           /\ jobs'[j].leasedUntil = jobs[j].leasedUntil
           /\ jobs[j].state = "completed" => jobs'[j].state = "completed"
  BY <1>1, <1>2, <1>3 DEF Holds
<1>4. CASE jobs'[j].state = "completed"
  BY <1>4 DEF Holds
<1>5. ASSUME NEW h \in Handlers, NEW x \in HandlerStates, x = handlers[h],
             jobs[j].leasedUntil <= x.at, jobs'[j].state = jobs[j].state
      PROVE  Holds(a, j, until)'
  <2>1. x.at \in Nat /\ x.at <= now
    BY <1>5, NullAssumption DEF LeasesAreNear, HandlerStates
  <2>2. jobs[j].leasedUntil >= until => until <= now
    BY <1>0, <1>5, <2>1
  <2> QED
    BY <1>1, <1>2, <1>4, <1>5, <2>2 DEF Holds
<1>6. ASSUME NEW h \in Handlers, NEW x \in HandlerStates, x = handlers[h],
             j = x.job, Heartbeat(h), jobs[j].leasedBy = x.agent,
             jobs'[j].leasedBy = x.agent,
             jobs'[j].leasedUntil = x.at + LeaseTime,
             jobs'[j].state = jobs[j].state
      PROVE  Holds(a, j, until)'
  <2>1. x.at + LeaseTime \in Nat
    BY <1>0 DEF HandlerStates
  <2>2. CASE x.agent = a
    <3>1. overlapped[a] \/ until <= x.at + LeaseTime
      BY <1>6, <2>2
    <3>2. CASE until <= x.at + LeaseTime
      <4>1. jobs'[j].leasedUntil >= until
        BY <1>6, <2>1, <3>2
      <4> QED
        BY <1>6, <2>2, <4>1 DEF Holds
    <3> QED
      BY <1>2, <3>1, <3>2
  <2>3. CASE x.agent # a
    BY <1>1, <1>2, <1>4, <1>6, <2>3 DEF Holds
  <2> QED
    BY <2>2, <2>3
<1> QED
  BY <1>3, <1>4, <1>5, <1>6, JobChanges

(* What was told stays true.                                                 *)
LEMMA ToldHoldsStep ==
  ASSUME TypeOK, [Next]_vars, LeasesAreNear, HeartbeatsExtend, AnswersHold,
         NEW a \in Agents, NEW j \in Jobs
  PROVE  Holds(a, j, told[a][j])'
<1>1. CASE told'[a][j] = told[a][j]
  <2>1. PICK until \in Nat : until = told[a][j]
    BY DEF TypeOK
  <2>2. Holds(a, j, until)
    BY <2>1 DEF AnswersHold
  <2>3. ASSUME NEW h \in Handlers, NEW x \in HandlerStates, x = handlers[h],
               x.agent = a, Heartbeat(h), ~overlapped[a]
        PROVE  until <= x.at + LeaseTime
    <3>1. x # Null /\ x.kind = "heartbeat" /\ x.pc = "ready"
      BY <2>3, NullAssumption DEF Heartbeat, At
    <3> QED
      BY <2>1, <2>3, <3>1 DEF HeartbeatsExtend
  <2>4. Holds(a, j, until)'
    BY <2>2, <2>3, HoldsStays
  <2> QED
    BY <1>1, <2>1, <2>4 DEF Holds
<1>2. ASSUME NEW h \in Handlers, NEW x \in HandlerStates, x = handlers[h],
             x.pc = "answer", x.agent = a, x.job = j, told'[a][j] = x.until,
             jobs' = jobs
      PROVE  Holds(a, j, told[a][j])'
  <2>1. Holds(a, j, x.until)
    BY <1>2, NullAssumption DEF AnswersHold
  <2>2. x.until \in Nat /\ now \in Nat /\ now' \in Nat /\ now <= now'
    BY TimeChanges DEF HandlerStates, TypeOK
  <2>3. overlapped[a] => overlapped'[a]
    BY OverlapStays
  <2> QED
    BY <1>2, <2>1, <2>2, <2>3 DEF Holds
<1> QED
  BY <1>1, <1>2, ToldOf

(* What a handler is about to answer will be true.                           *)
LEMMA PendingHoldsStep ==
  ASSUME TypeOK, [Next]_vars, LeasesAreNear, EndsArePending, HeartbeatsAreAlone,
         AnswersHold, NEW h \in Handlers, NEW y \in HandlerStates,
         y = handlers'[h]
  PROVE  Holds(y.agent, y.job, y.until)'
<1>0. /\ y # Null /\ y.agent \in Agents /\ y.job \in Jobs /\ y.until \in Nat
      /\ now' \in Nat
  BY NullAssumption, TimeChanges DEF HandlerStates, TypeOK
<1>1. CASE y.until = 0
  BY <1>0, <1>1 DEF Holds
<1>2. ASSUME NEW x \in HandlerStates, x = handlers[h], y.until = x.until,
             y.agent = x.agent, y.job = x.job, ~Heartbeat(h)
      PROVE  Holds(y.agent, y.job, y.until)'
  <2>1. Holds(x.agent, x.job, x.until)
    BY <1>2, NullAssumption DEF AnswersHold
  <2>2. ASSUME NEW g \in Handlers, NEW z \in HandlerStates, z = handlers[g],
               z.agent = x.agent, Heartbeat(g)
        PROVE  overlapped[x.agent]
    <3>1. g # h /\ z.kind = "heartbeat"
      BY <1>2, <2>2 DEF Heartbeat
    <3> QED
      BY <1>2, <2>2, <3>1, NullAssumption DEF HeartbeatsAreAlone
  <2>3. x.agent \in Agents /\ x.job \in Jobs /\ x.until \in Nat
    BY DEF HandlerStates
  <2> QED
    BY <1>2, <2>1, <2>2, <2>3, HoldsStays
<1>3. CASE handlers'[h] = handlers[h]
  <2>1. ~Heartbeat(h)
    <3>1. ASSUME Heartbeat(h) PROVE FALSE
      <4>1. /\ y.pc = "ready"
            /\ y = [y EXCEPT !.pc = "answer",
                             !.until = jobs'[y.job].leasedUntil]
        BY <1>0, <1>3, <3>1, HeartbeatAnswers
      <4> QED
        BY <4>1 DEF HandlerStates
    <3> QED
      BY <3>1
  <2> QED
    BY <1>2, <1>3, <2>1
<1>4. ASSUME NEW x \in HandlerStates, x = handlers[h], Lease(h) \/ Heartbeat(h)
      PROVE  Holds(y.agent, y.job, y.until)'
  <2>1. /\ y = [x EXCEPT !.pc = "answer", !.until = jobs'[x.job].leasedUntil]
        /\ jobs'[x.job].leasedBy = x.agent
    BY <1>0, <1>4, LeaseAnswers, HeartbeatAnswers
  <2>2. /\ y.agent = x.agent /\ y.job = x.job
        /\ y.until = jobs'[x.job].leasedUntil
    BY <2>1 DEF HandlerStates
  <2> QED
    BY <1>0, <2>1, <2>2 DEF Holds
<1>5. ASSUME Request(h) \/ Socket(h), GoesOn(h), ~Lease(h), ~Heartbeat(h)
      PROVE  Holds(y.agent, y.job, y.until)'
  <2>1. KeepsItsEnd(h)
    BY <1>0, <1>5, HandlerKeeps
  <2>2. PICK x \in HandlerStates : x = handlers[h]
    BY <1>5 DEF GoesOn
  <2>3. /\ y.until = x.until /\ y.agent = x.agent
        /\ y.job = x.job \/ x.pc = "ready"
    BY <1>0, <1>5, <2>1, <2>2 DEF KeepsItsEnd, GoesOn
  <2>4. x.until # 0 => x.pc = "answer"
    BY <2>2, NullAssumption DEF EndsArePending
  <2> QED
    BY <1>1, <1>2, <1>5, <2>2, <2>3, <2>4
<1>6. ASSUME NEW b \in Agents, NEW seq \in 1..MaxSequence,
             NEW kind \in Requests, NEW i \in Jobs, Accept(h, b, seq, kind, i)
      PROVE  y.until = 0
  BY <1>6, AcceptBegins
<1>7. GoesOn(h) => handlers[h] \in HandlerStates
  BY DEF GoesOn
<1> QED
  BY <1>0, <1>1, <1>3, <1>4, <1>5, <1>6, <1>7, HandlerCases

(* The invariant of leases is inductive.                                     *)
LEMMA LeaseInductive == Spec => []LeaseInv
<1>1. Init => LeaseInv
  <2> SUFFICES ASSUME Init PROVE LeaseInv
    OBVIOUS
  <2>1. TypeOK
    BY AgentGatewayAssumption DEF Init, TypeOK, Active, JobRows
  <2>2. \A h \in Handlers : handlers[h] = Null
    BY DEF Init
  <2>3. /\ now = 0 /\ LeaseTime \in Nat
        /\ \A a \in Agents : status[a] = "absent" /\ Null # a
        /\ \A a \in Agents, j \in Jobs : told[a][j] = 0
        /\ \A j \in Jobs : jobs[j].leasedBy = Null
    BY AgentGatewayAssumption DEF Init
  <2>4. ASSUME NEW a \in Agents PROVE Horizon(a) = LeaseTime
    <3>1. (IF status[a] = "revoked" THEN revokedAt[a] ELSE now) = 0
      BY <2>3
    <3> QED
      BY <2>3, <3>1 DEF Horizon
  <2>5. LeasesAreNear
    BY <2>2, <2>3, <2>4 DEF LeasesAreNear
  <2>6. AnswersHold
    BY <2>2, <2>3 DEF AnswersHold, Holds
  <2> QED
    BY <2>1, <2>2, <2>5, <2>6
    DEF LeaseInv, EndsArePending, HeartbeatsAreAlone, HeartbeatsExtend
<1>2. LeaseInv /\ [Next]_vars => LeaseInv'
  <2> SUFFICES ASSUME LeaseInv, [Next]_vars PROVE LeaseInv'
    OBVIOUS
  <2>1. /\ TypeOK /\ LeasesAreNear /\ EndsArePending /\ HeartbeatsAreAlone
        /\ HeartbeatsExtend /\ AnswersHold
    BY DEF LeaseInv
  <2>2. /\ TypeOK' /\ LeasesAreNear' /\ EndsArePending' /\ HeartbeatsAreAlone'
        /\ HeartbeatsExtend'
    BY <2>1, TypeStep, LeasesNearStep, EndsStep, AloneStep, ExtendStep
  <2>3. \A a \in Agents, j \in Jobs : Holds(a, j, told[a][j])'
    BY <2>1, ToldHoldsStep
  <2>4. ASSUME NEW h \in Handlers, handlers'[h] # Null
        PROVE  Holds(handlers[h].agent, handlers[h].job, handlers[h].until)'
    <3>1. PICK y \in HandlerStates : y = handlers'[h]
      BY <2>2, <2>4 DEF TypeOK
    <3>2. Holds(y.agent, y.job, y.until)'
      BY <2>1, <3>1, PendingHoldsStep
    <3> QED
      BY <3>1, <3>2 DEF Holds
  <2>5. AnswersHold'
    BY <2>3, <2>4 DEF AnswersHold
  <2> QED
    BY <2>2, <2>5 DEF LeaseInv
<1> QED
  BY <1>1, <1>2, PTL DEF Spec

(* What lease and heartbeat answered an agent about the end of its lease     *)
(* stays true until then, whoever asks for the job meanwhile; the exceptions *)
(* are a forced replacement and overlapping heartbeats of one agent.         *)
THEOREM PromisesAreKept == Spec => []PromiseIsKept
<1>1. LeaseInv => PromiseIsKept
  BY DEF LeaseInv, AnswersHold, Holds, PromiseIsKept
<1> QED
  BY <1>1, LeaseInductive, PTL

(* Within one lease time of revokeAgent an agent holds nothing, and was told *)
(* of no lease that lasts longer, although a heartbeat may be under way.     *)
THEOREM RevocationEndsAllLeases == Spec => []RevocationEndsLeases
<1>1. LeaseInv => RevocationEndsLeases
  <2> SUFFICES ASSUME LeaseInv, NEW a \in Agents, NEW j \in Jobs,
                      status[a] = "revoked"
               PROVE  /\ told[a][j] <= revokedAt[a] + LeaseTime
                      /\ jobs[j].leasedBy = a =>
                           jobs[j].leasedUntil <= revokedAt[a] + LeaseTime
    BY DEF RevocationEndsLeases
  <2>1. revokedAt[a] \in Nat /\ LeaseTime \in Nat
    BY AgentGatewayAssumption DEF LeaseInv, TypeOK
  <2>2. Horizon(a) = revokedAt[a] + LeaseTime
    BY <2>1 DEF Horizon
  <2> QED
    BY <2>2 DEF LeaseInv, LeasesAreNear
<1> QED
  BY <1>1, LeaseInductive, PTL
=============================================================================
