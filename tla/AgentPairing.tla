---------------------------- MODULE AgentPairing ----------------------------
(***************************************************************************)
(* Who an environment's agent is, which subject envelopes wait for it and  *)
(* which subject a request is bound to: the repositories behind pairing    *)
(* (pairing-service.ts) and subject binding (subject-envelope-service.ts), *)
(* which write the same rows.  A call is one transaction; a step is one    *)
(* statement that locks rows, and what a call writes appears with its      *)
(* commit.  A lock is held to the end of the transaction, and a statement  *)
(* that waited for one decides on the row as it is then.                   *)
(*                                                                         *)
(* All requests are of one environment and one type.  An agent is known by *)
(* its keys: a registration with keys that were used before is refused.    *)
(* pairing, online, offline and outdated are one status, active.  The      *)
(* locks of one statement are taken together.  A call that would wait for  *)
(* ever in a circle of locks fails, as any call may at any time.           *)
(***************************************************************************)
EXTENDS RequestMoves, FiniteSets

CONSTANTS
  Requests,    \* request ids, numbered in the order of their creation
  FirstStatus, \* the status in which each request is first seen
  MaxVersion,  \* bound: the largest version of each request
  Subjects,    \* subject hashes
  Agents,      \* agents that may be registered
  Tokens,      \* pairing tokens
  Modes,       \* the replacement modes that owners issue tokens for
  Calls,       \* transactions in progress
  Null         \* no agent, no subject, no request, no call

ASSUME AgentPairingAssumption ==
  /\ Requests \subseteq Nat \ {0}
  /\ FirstStatus \in
       [Requests -> Statuses \ {"execution_authorized", "executing"}]
  /\ MaxVersion \in [Requests -> Nat]
  /\ Modes \subseteq {"none", "drain", "force"}
  /\ Null \notin Requests
  /\ Null \notin Subjects
  /\ Null \notin Agents
  /\ Null \notin Modes

VARIABLES
  agents,     \* agents.status
  tokens,     \* agent_pairing_tokens
  requests,   \* privacy_requests, with their execution attempts
  envelopes,  \* subject_envelopes: the agent a request's one is encrypted for
  audited,    \* how many audit events a request has
  calls,      \* call -> its progress, or Null
  removed     \* history: the agents that were revoked by revokeAgent

vars == <<agents, tokens, requests, envelopes, audited, calls, removed>>

\* The statuses in which a request may still be bound, or be cancelled in
\* favour of another one.
CancellableDuplicateStatuses ==
  {"created", "identity_verification_pending", "identity_verified",
   "planning", "awaiting_approval"}

\* The rows of privacy_requests and of agent_pairing_tokens.
RequestRows ==
  [status : Statuses, attempts : Seq(OpenAttempt \cup ClosedAttempt),
   version : Nat, subject : Subjects \cup {Null}, override : BOOLEAN,
   duplicateOf : Requests \cup {Null}]

TokenRows == [mode : Modes \cup {Null}, pairs : SUBSET Agents]

\* Everything that a call may lock, and the calls: what each has found out by
\* the step it is at.
Locks == {<<"environment">>} \cup ({"token"} \X Tokens) \cup ({"agent"} \X Agents)
           \cup ({"subject"} \X Subjects)
           \cup ({"request", "envelope", "attempts"} \X Requests)

PairCalls ==
  [kind : {"pair"},
   pc : {"token", "paired", "envelopes", "attempts", "work", "insert"},
   held : SUBSET Locks, token : Tokens, agent : Agents,
   old : Agents \cup {Null}, work : SUBSET Requests]

StoreCalls == [kind : {"store"}, pc : {"store"}, held : SUBSET Locks,
               request : Requests, agent : Agents]

BindCalls ==
  [kind : {"bind"}, pc : {"bind", "agent", "envelope", "candidates", "bound"},
   held : SUBSET Locks, request : Requests, agent : Agents,
   subject : Subjects, override : BOOLEAN, version : Nat,
   candidate : Requests \cup {Null}]

SaveCalls == [kind : {"save"}, pc : {"save"}, held : SUBSET Locks,
              request : Requests]

CallStates == PairCalls \cup StoreCalls \cup BindCalls \cup SaveCalls

ASSUME NullAssumption == Null \notin CallStates

Active == {a \in Agents : agents[a] = "active"}

Working(q) == \E i \in DOMAIN requests[q].attempts :
                requests[q].attempts[i] \in OpenAttempt

-----------------------------------------------------------------------------
(* Calls and their locks.                                                  *)

At(x, pc) == calls[x] # Null /\ calls[x].pc = pc

\* No call, and no call but x, has one of the locks.
Unlocked(locks) == \A y \in Calls : calls[y] # Null => calls[y].held \cap locks = {}

Free(x, locks) ==
  \A y \in Calls \ {x} : calls[y] # Null => calls[y].held \cap locks = {}

Begin(x, call) == /\ calls[x] = Null
                  /\ Free(x, call.held)
                  /\ calls' = [calls EXCEPT ![x] = call]

\* x gets the locks and goes on.
Take(x, locks, pc) ==
  /\ Free(x, locks)
  /\ calls' = [calls EXCEPT ![x].held = @ \cup locks, ![x].pc = pc]

\* The transaction commits or rolls back.
End(x) == calls' = [calls EXCEPT ![x] = Null]

UnchangedRequests == UNCHANGED <<requests, envelopes, audited>>
UnchangedAgents   == UNCHANGED <<agents, tokens, removed>>
UnchangedTables   == UnchangedRequests /\ UnchangedAgents

\* A statement fails, locks wait in a circle or the process dies.
Fail(x) == /\ calls[x] # Null
           /\ End(x)
           /\ UnchangedTables

-----------------------------------------------------------------------------
(* Pairing.                                                                *)

IssueToken(t, mode) ==
  /\ tokens[t].mode = Null
  /\ tokens' = [tokens EXCEPT ![t].mode = mode]
  /\ UNCHANGED <<agents, removed, calls>> /\ UnchangedRequests

\* An agent registers with a token: the token's row is locked.
BeginPair(x, t, a) ==
  /\ tokens[t].mode # Null
  /\ agents[a] = "absent"
  /\ \A y \in Calls : calls[y] # Null /\ calls[y].kind = "pair" =>
       calls[y].agent # a
  /\ Begin(x, [kind |-> "pair", pc |-> "token", held |-> {<<"token", t>>},
               token |-> t, agent |-> a, old |-> Null, work |-> {}])
  /\ UnchangedTables

\* A wrong version, which relies on the look at the token before its row was
\* locked; likewise every operator named Bad... is a slip that some property
\* must notice.
BadIsUnused(x) == TRUE

\* An expired token is as good as a used one.
IsUnused(x) == tokens[calls[x].token].pairs = {}

\* Two registrations of one environment do not wait for each other.
BadLockEnvironment(x) ==
  /\ At(x, "token")
  /\ IF IsUnused(x) THEN Take(x, {}, "paired") ELSE End(x)
  /\ UnchangedTables

\* The environment's row, whose key version must be the registration's.
LockEnvironment(x) ==
  /\ At(x, "token")
  /\ IF IsUnused(x) THEN Take(x, {<<"environment">>}, "paired") ELSE End(x)
  /\ UnchangedTables

\* The environment's active agent, which a token without a replacement mode
\* leaves in place.
LockActiveAgent(x) ==
  /\ At(x, "paired")
  /\ \/ Active = {} /\ Take(x, {}, "insert")
     \/ \E a \in Active :
          /\ Free(x, {<<"agent", a>>})
          /\ IF tokens[calls[x].token].mode = "none" THEN End(x)
             ELSE calls' = [calls EXCEPT ![x].held = @ \cup {<<"agent", a>>},
                              ![x].old = a, ![x].pc = "envelopes"]
  /\ UnchangedTables

\* The requests whose envelopes or attempts a replacement has to deal with.
Collect(x, what, affected, pc) ==
  LET locks == {<<what, q>> : q \in affected} IN
  /\ Free(x, locks)
  /\ calls' = [calls EXCEPT ![x].held = @ \cup locks,
                            ![x].work = @ \cup affected, ![x].pc = pc]

ReadEnvelopes(x) ==
  /\ At(x, "envelopes")
  /\ Collect(x, "envelope", {q \in Requests : envelopes[q] # Null}, "attempts")
  /\ UnchangedTables

ReadAttempts(x) ==
  /\ At(x, "attempts")
  /\ Collect(x, "attempts", {q \in Requests : Working(q)}, "work")
  /\ UnchangedTables

\* A drain is refused while an envelope or an attempt waits for the agent.
IsBlocked(x) == tokens[calls[x].token].mode = "drain" /\ calls[x].work # {}

\* A drain with work left ends here; a forced replacement goes on to the rows
\* of the requests that have not ended.
LockWork(x) ==
  /\ At(x, "work")
  /\ IF IsBlocked(x) THEN End(x)
     ELSE Take(x, {<<"request", q>> : q \in
                     {w \in calls[x].work :
                        requests[w].status \notin TerminalStatuses}}, "insert")
  /\ UnchangedTables

\* Moves the requests only.
BadAbandoned(attempts) == attempts

\* The request's attempts, with those that were open left for review.
Abandoned(attempts) ==
  [i \in DOMAIN attempts |->
     IF attempts[i] \in OpenAttempt THEN "needs_review" ELSE attempts[i]]

\* The old agent is revoked, the new one takes its place.  A forced replacement
\* destroys the envelopes and moves the requests to review, without an event.
Pair(x) ==
  LET c == calls[x]
      forced == c.old # Null /\ tokens[c.token].mode = "force"
      moved == {q \in c.work : /\ forced
                               /\ requests[q].status \notin TerminalStatuses}
  IN
  /\ At(x, "insert")
  /\ \A q \in moved : requests[q].version < MaxVersion[q]
  /\ requests' = [q \in Requests |->
       [requests[q] EXCEPT
          !.status   = IF q \in moved THEN "needs_review" ELSE @,
          !.version  = IF q \in moved THEN @ + 1 ELSE @,
          !.attempts = IF forced /\ q \in c.work THEN Abandoned(@) ELSE @]]
  /\ envelopes' = IF forced THEN [q \in Requests |-> Null] ELSE envelopes
  /\ agents' = [a \in Agents |-> IF a = c.agent THEN "active"
                                 ELSE IF a = c.old THEN "revoked" ELSE agents[a]]
  /\ tokens' = [tokens EXCEPT ![c.token].pairs = @ \cup {c.agent}]
  /\ End(x)
  /\ UNCHANGED <<audited, removed>>

\* revokeAgent: whatever waits for the agent is left as it is.
RevokeAgent(a) ==
  /\ agents[a] = "active"
  /\ Unlocked({<<"agent", a>>})
  /\ agents' = [agents EXCEPT ![a] = "revoked"]
  /\ removed' = removed \cup {a}
  /\ UNCHANGED <<tokens, calls>> /\ UnchangedRequests

-----------------------------------------------------------------------------
(* Envelopes and binding.                                                  *)

\* Does not lock the agent whose key it checks.
BadStoreLocks(q, a) == {<<"request", q>>}

StoreLocks(q, a) == {<<"request", q>>, <<"agent", a>>}

\* storeEnvelope: the request and the active agent with the envelope's key.
BeginStore(x, q, a) ==
  /\ a \in Active
  /\ Begin(x, [kind |-> "store", pc |-> "store", held |-> StoreLocks(q, a),
               request |-> q, agent |-> a])
  /\ UnchangedTables

\* Stored whatever the request's status, in the place of an earlier one.
StoreEnvelope(x) ==
  /\ At(x, "store")
  /\ Free(x, {<<"envelope", calls[x].request>>})
  /\ envelopes' = [envelopes EXCEPT ![calls[x].request] = calls[x].agent]
  /\ End(x)
  /\ UNCHANGED <<requests, audited>> /\ UnchangedAgents

\* The advisory lock.  (LockRequest locks the environment as well, so that two
\* bindings of one environment would not overlap without it either.)
SubjectLock(h) == {<<"subject", h>>}

\* An agent found out subject h of request q, as of the version it was sent,
\* and the subject is locked.  An owner's override is part of the call.
BeginBind(x, q, a, h, override) ==
  /\ agents[a] # "absent"
  /\ requests[q].subject # h
  /\ Begin(x, [kind |-> "bind", pc |-> "bind", held |-> SubjectLock(h),
               request |-> q, agent |-> a, subject |-> h, override |-> override,
               version |-> requests[q].version, candidate |-> Null])
  /\ UnchangedTables

\* A repeated binding of a bound request only deletes its envelope.
Forget(q) ==
  /\ requests[q].subject # Null
  /\ Unlocked({<<"envelope", q>>})
  /\ envelopes' = [envelopes EXCEPT ![q] = Null]
  /\ UNCHANGED <<requests, audited, calls>> /\ UnchangedAgents

IsBindable(c) ==
  /\ requests[c.request].subject = Null
  /\ requests[c.request].version = c.version
  /\ requests[c.request].status \in CancellableDuplicateStatuses

\* A call that finds its subject already bound deletes the envelope, as Forget.
LockRequest(x) ==
  LET c == calls[x]
      repeated == requests[c.request].subject = c.subject
      locks == {<<"request", c.request>>, <<"environment">>}
  IN
  /\ At(x, "bind")
  /\ Free(x, locks)
  /\ repeated => Free(x, {<<"envelope", c.request>>})
  /\ envelopes' = [envelopes EXCEPT ![c.request] = IF repeated THEN Null ELSE @]
  /\ IF ~repeated /\ IsBindable(c) THEN Take(x, locks, "agent") ELSE End(x)
  /\ UNCHANGED <<requests, audited>> /\ UnchangedAgents

LockAgent(x) ==
  /\ At(x, "agent")
  /\ IF calls[x].agent \in Active
       THEN Take(x, {<<"agent", calls[x].agent>>}, "envelope")
       ELSE End(x)
  /\ UnchangedTables

\* An expired envelope ends the call like a missing one: its deletion is rolled
\* back with the transaction.
LockEnvelope(x) ==
  LET c == calls[x] IN
  /\ At(x, "envelope")
  /\ Free(x, {<<"envelope", c.request>>})
  /\ IF envelopes[c.request] = c.agent
       THEN Take(x, {<<"envelope", c.request>>}, "candidates")
       ELSE End(x)
  /\ UnchangedTables

\* Looks only for requests that it could cancel.
BadCandidates(c) ==
  {q \in Requests \ {c.request} :
     /\ ~c.override /\ ~requests[q].override
     /\ requests[q].subject = c.subject
     /\ requests[q].status \in CancellableDuplicateStatuses}

\* The other active requests of the subject.
Candidates(c) ==
  {q \in Requests \ {c.request} :
     /\ ~c.override /\ ~requests[q].override
     /\ requests[q].subject = c.subject
     /\ requests[q].status \notin TerminalStatuses}

\* Finds the candidate without locking it.
BadLockCandidates(x) ==
  /\ At(x, "candidates")
  /\ LET found == Candidates(calls[x])
     IN calls' = [calls EXCEPT ![x].pc = "bound",
          ![x].candidate = IF found = {} THEN Null ELSE CHOOSE q \in found :
                             \A p \in found : q <= p]
  /\ UnchangedTables

\* All are locked, the oldest is the candidate.
LockCandidates(x) ==
  LET found == Candidates(calls[x])
      locks == {<<"request", q>> : q \in found}
  IN
  /\ At(x, "candidates")
  /\ Free(x, locks)
  /\ calls' = [calls EXCEPT ![x].held = @ \cup locks, ![x].pc = "bound",
       ![x].candidate = IF found = {} THEN Null ELSE CHOOSE q \in found :
                          \A p \in found : q <= p]
  /\ UnchangedTables

\* Whichever is newer yields, and so does the request itself to a candidate
\* that cannot be cancelled any more.
Yields(c) ==
  /\ c.candidate # Null
  /\ \/ c.request > c.candidate
     \/ requests[c.candidate].status \notin CancellableDuplicateStatuses

\* Forgets the event of the candidate.
BadRecorded(changed, c) == {c.request}

\* The requests that get an event.
Recorded(changed, c) == changed

\* Binds the request, and cancels it or the candidate as a duplicate.
Bind(x) ==
  LET c == calls[x]
      yields == Yields(c)
      changed == {c.request}
                   \cup (IF c.candidate = Null \/ yields THEN {} ELSE {c.candidate})
  IN
  /\ At(x, "bound")
  /\ \A q \in changed : requests[q].version < MaxVersion[q]
  /\ requests' = [q \in Requests |->
       CASE q = c.request ->
              [requests[q] EXCEPT
                 !.subject = c.subject, !.override = c.override,
                 !.duplicateOf = IF yields THEN c.candidate ELSE Null,
                 !.status = IF yields THEN "cancelled" ELSE "identity_verified",
                 !.version = @ + 1]
         [] q \in changed \ {c.request} ->
              [requests[q] EXCEPT !.status = "cancelled",
                 !.duplicateOf = c.request, !.version = @ + 1]
         [] OTHER -> requests[q]]
  /\ envelopes' = [envelopes EXCEPT ![c.request] = Null]
  /\ audited' = [q \in Requests |->
       audited[q] + IF q \in Recorded(changed, c) THEN 1 ELSE 0]
  /\ End(x)
  /\ UnchangedAgents

-----------------------------------------------------------------------------
(* Everybody else: PrivacyRequestRepository.save, of one command.          *)

BeginSave(x, q) ==
  /\ Begin(x, [kind |-> "save", pc |-> "save", held |-> {<<"request", q>>},
               request |-> q])
  /\ UnchangedTables

\* The attempts are locked by their upsert.
Save(x) ==
  LET q == calls[x].request
      r == [status |-> requests[q].status, attempts |-> requests[q].attempts]
  IN
  /\ At(x, "save")
  /\ r.attempts # << >> => Free(x, {<<"attempts", q>>})
  /\ requests[q].version < MaxVersion[q]
  /\ \E m \in Moves(r) :
       requests' = [requests EXCEPT ![q].status = m.status,
                      ![q].attempts = m.attempts, ![q].version = @ + 1]
  /\ audited' = [audited EXCEPT ![q] = @ + 1]
  /\ End(x)
  /\ UNCHANGED envelopes /\ UnchangedAgents

-----------------------------------------------------------------------------
Init ==
  /\ \E a \in Agents :
       agents = [b \in Agents |-> IF b = a THEN "active" ELSE "absent"]
  /\ tokens = [t \in Tokens |-> [mode |-> Null, pairs |-> {}]]
  /\ requests = [q \in Requests |->
       [status |-> FirstStatus[q], attempts |-> << >>, version |-> 1,
        subject |-> Null, override |-> FALSE, duplicateOf |-> Null]]
  /\ envelopes = [q \in Requests |-> Null]
  /\ audited = [q \in Requests |-> 1]
  /\ calls = [x \in Calls |-> Null]
  /\ removed = {}

PairStep(x) ==
  \/ LockEnvironment(x) \/ LockActiveAgent(x) \/ ReadEnvelopes(x)
  \/ ReadAttempts(x) \/ LockWork(x) \/ Pair(x)

BindStep(x) ==
  \/ LockRequest(x) \/ LockAgent(x) \/ LockEnvelope(x)
  \/ LockCandidates(x) \/ Bind(x)

Next ==
  \/ \E t \in Tokens, mode \in Modes : IssueToken(t, mode)
  \/ \E a \in Agents : RevokeAgent(a)
  \/ \E q \in Requests : Forget(q)
  \/ \E x \in Calls, t \in Tokens, a \in Agents : BeginPair(x, t, a)
  \/ \E x \in Calls, q \in Requests, a \in Agents : BeginStore(x, q, a)
  \/ \E x \in Calls, q \in Requests, a \in Agents, h \in Subjects,
        override \in BOOLEAN : BeginBind(x, q, a, h, override)
  \/ \E x \in Calls, q \in Requests : BeginSave(x, q)
  \/ \E x \in Calls : \/ PairStep(x) \/ StoreEnvelope(x) \/ BindStep(x)
                      \/ Save(x) \/ Fail(x)

Spec == Init /\ [][Next]_vars

-----------------------------------------------------------------------------
(* The type invariant: the tables and the calls.                           *)
TypeOK ==
  /\ agents \in [Agents -> {"absent", "active", "revoked"}]
  /\ tokens \in [Tokens -> TokenRows]
  /\ requests \in [Requests -> RequestRows]
  /\ envelopes \in [Requests -> Agents \cup {Null}]
  /\ audited \in [Requests -> Nat]
  /\ calls \in [Calls -> CallStates \cup {Null}]
  /\ removed \subseteq Agents

(* "Only one active agent is allowed per environment": however             *)
(* registrations overlap, the locks see to it without the unique index.    *)
OneActiveAgent == Cardinality(Active) <= 1

(* A pairing token pairs one agent, although two registrations may look it *)
(* up before either has consumed it.                                       *)
TokensPairOnce == \A t \in Tokens : Cardinality(tokens[t].pairs) <= 1

(* No envelope waits for an agent that was replaced: it could never be     *)
(* opened again.  (revokeAgent leaves the envelopes of its agent behind.)  *)
EnvelopesCanBeOpened ==
  \A q \in Requests : envelopes[q] # Null =>
    agents[envelopes[q]] = "active" \/ envelopes[q] \in removed

(* The stored attempts agree with the stored status, although a forced     *)
(* replacement writes both past the aggregate while saves go on.           *)
AttemptsFollowStatus ==
  \A q \in Requests :
    Working(q) <=> requests[q].status \in {"execution_authorized", "executing"}

(* At most one ordinary request of a subject is active, although both its  *)
(* requests may be bound at once and either may go on meanwhile.           *)
OneActiveRequest ==
  \A p, q \in Requests :
    /\ requests[p].subject = requests[q].subject /\ requests[p].subject # Null
    /\ \A r \in {p, q} : /\ ~requests[r].override
                         /\ requests[r].status \notin TerminalStatuses
    => p = q

(* A request is given up as a duplicate only of one that goes on: two      *)
(* requests of a subject never cancel each other, and none is cancelled    *)
(* for one that was just cancelled or completed.                           *)
OriginalGoesOn ==
  [][\A q \in Requests :
       requests'[q].duplicateOf # requests[q].duplicateOf =>
         requests'[requests'[q].duplicateOf].status \notin TerminalStatuses]_vars

(* "Every state transition emits an append-only audit event": as many as   *)
(* the request has versions.                                               *)
VersionsAreAudited ==
  \A q \in Requests : audited[q] = requests[q].version
=============================================================================
