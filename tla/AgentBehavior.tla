--------------------------- MODULE AgentBehavior ---------------------------
(***************************************************************************)
(* gateway/behavior.go: counting an agent's risky attempts and holding the *)
(* agent in quarantine.                                                    *)
(*                                                                         *)
(* The count lives in one row per agent of the metadata database.  A       *)
(* handler first looks the quarantine up (agentQuarantined); much later,   *)
(* when its SQL has been blocked, denied or has timed out, it takes the    *)
(* time, reads the row, works out the next one with that time and writes   *)
(* it back in another transaction (recordRiskAttempt).  The attempts of    *)
(* two requests of one agent may overlap anywhere in between, so that the  *)
(* time an attempt works with may be older than the row it finds.          *)
(*                                                                         *)
(* Time is a clock of coarse ticks.                                        *)
(***************************************************************************)
EXTENDS Integers, FiniteSets

CONSTANTS Requests,             \* handler goroutines, one risky request each
          Agents,
          AgentOf,              \* the agent_id of each request
          MaxBlockedAttempts,   \* policy max_blocked_attempts_per_window
          RetryWindow,          \* policy dangerous_retry_window_seconds
          QuarantineDuration,   \* policy quarantine_duration_seconds
          MetadataFaults,       \* may statements on the metadata database fail?
          Clock                 \* bound: the instants time.Now() may show

ASSUME BehaviorAssumption ==
  /\ IsFiniteSet(Requests)
  /\ AgentOf \in [Requests -> Agents]
  /\ MaxBlockedAttempts \in Int
  /\ RetryWindow \in Nat
  /\ QuarantineDuration \in Nat
  /\ MetadataFaults \in BOOLEAN
  /\ Clock \subseteq Nat

VARIABLES now,          \* time.Now()
          agentState,   \* table agent_state
          stage,        \* where the request is in recordRiskAttempt
          madeAt,       \* recordRiskAttempt's local now
          row,          \* recordRiskAttempt's local state, not yet saved
          readAt        \* history: when it read the agent's row

behaviorVars == <<now, agentState, stage, madeAt, row, readAt>>

Never == -1     \* a nil QuarantineUntil: no instant is before it
Instant == Nat \cup {Never}

AgentState == [attempts : Nat, window : Instant, until : Instant]

(* No row: GetAgentState returns ok = false.                               *)
NoState == [attempts |-> 0, window |-> Never, until |-> Never]

TypeOK ==
  /\ now \in Nat
  /\ agentState \in [Agents -> AgentState]
  /\ stage \in [Requests -> {"none", "admitted", "timed", "read", "done"}]
  /\ madeAt \in [Requests -> Instant]
  /\ row \in [Requests -> AgentState]
  /\ readAt \in [Requests -> Instant]

Init ==
  /\ now = 0
  /\ agentState = [a \in Agents |-> NoState]
  /\ stage = [r \in Requests |-> "none"]
  /\ madeAt = [r \in Requests |-> Never]
  /\ row = [r \in Requests |-> NoState]
  /\ readAt = [r \in Requests |-> Never]

----------------------------------------------------------------------------
(* What GetAgentState may return: the row, or nothing when the query fails *)
(* (a busy database, a request context that is done).                      *)
GetAgentState(a) == {agentState[a]} \cup IF MetadataFaults THEN {NoState} ELSE {}

(* Variants for the mutation runs: the window never lapses; the quarantine *)
(* starts one attempt early; a new quarantine is added to the running one. *)
AttemptsNeverLapse(state, at) ==
  LET base == IF state = NoState THEN [NoState EXCEPT !.window = at] ELSE state
      count == base.attempts + 1
  IN [attempts |-> count, window |-> base.window,
      until |-> IF count >= MaxBlockedAttempts THEN at + QuarantineDuration
                                               ELSE base.until]

OneAttemptEarly(state, at) ==
  LET base == IF state = NoState \/ at - state.window > RetryWindow
              THEN [NoState EXCEPT !.window = at] ELSE state
      count == base.attempts + 1
  IN [attempts |-> count, window |-> base.window,
      until |-> IF count + 1 >= MaxBlockedAttempts THEN at + QuarantineDuration
                                                   ELSE base.until]

QuarantineAddsUp(state, at) ==
  LET base == IF state = NoState \/ at - state.window > RetryWindow
              THEN [NoState EXCEPT !.window = at] ELSE state
      count == base.attempts + 1
      from == IF base.until > at THEN base.until ELSE at
  IN [attempts |-> count, window |-> base.window,
      until |-> IF count >= MaxBlockedAttempts THEN from + QuarantineDuration
                                               ELSE base.until]

(* The row after one more attempt, whose time is at: a missing or lapsed   *)
(* window starts anew, with no quarantine; the attempt that reaches the    *)
(* limit sets one.  A window that began after at has not lapsed.           *)
AfterAttempt(state, at) ==
  LET base == IF state = NoState \/ at - state.window > RetryWindow
              THEN [attempts |-> 0, window |-> at, until |-> Never]
              ELSE state
      count == base.attempts + 1
  IN [attempts |-> count,
      window   |-> base.window,
      until    |-> IF count >= MaxBlockedAttempts THEN at + QuarantineDuration
                                                  ELSE base.until]

(* agentQuarantined for a request that is not SAFE: quarantined to the     *)
(* last instant of until, inclusive.                                       *)
Quarantined(state) == now <= state.until

(* The handler's check: a quarantined agent's request ends here, and does  *)
(* not count as an attempt.                                                *)
CheckQuarantine(r) ==
  /\ stage[r] = "none"
  /\ \E state \in GetAgentState(AgentOf[r]) :
       stage' = [stage EXCEPT ![r] = IF Quarantined(state) THEN "done" ELSE "admitted"]
  /\ UNCHANGED <<now, agentState, madeAt, row, readAt>>

(* recordRiskAttempt takes the time, ...                                   *)
TakeTime(r) ==
  /\ stage[r] = "admitted"
  /\ madeAt' = [madeAt EXCEPT ![r] = now]
  /\ stage' = [stage EXCEPT ![r] = "timed"]
  /\ UNCHANGED <<now, agentState, row, readAt>>

(* ... reads the row and works out the new one.                            *)
ReadState(r) ==
  /\ stage[r] = "timed"
  /\ \E state \in GetAgentState(AgentOf[r]) :
       row' = [row EXCEPT ![r] = AfterAttempt(state, madeAt[r])]
  /\ readAt' = [readAt EXCEPT ![r] = now]
  /\ stage' = [stage EXCEPT ![r] = "read"]
  /\ UNCHANGED <<now, agentState, madeAt>>

(* SaveAgentState: one transaction that replaces the row, or fails.        *)
SaveState(r) ==
  /\ stage[r] = "read"
  /\ \/ agentState' = [agentState EXCEPT ![AgentOf[r]] = row[r]]
     \/ MetadataFaults /\ UNCHANGED agentState
  /\ stage' = [stage EXCEPT ![r] = "done"]
  /\ UNCHANGED <<now, madeAt, row, readAt>>

(* Time passes, by any amount.                                             *)
Tick == /\ \E t \in Clock : now < t /\ now' = t
        /\ UNCHANGED <<agentState, stage, madeAt, row, readAt>>

Next == \/ \E r \in Requests :
             CheckQuarantine(r) \/ TakeTime(r) \/ ReadState(r) \/ SaveState(r)
        \/ Tick

Spec == Init /\ [][Next]_behaviorVars

----------------------------------------------------------------------------
(* The requests of an agent that were in recordRiskAttempt, between taking *)
(* the time and reading the row, at some instant of the window that began  *)
(* at w.  The time alone would not do: it may be that of an instant before *)
(* the window, which another attempt opened in the meantime.               *)
CountedIn(a, w) == {r \in Requests : /\ AgentOf[r] = a
                                     /\ readAt[r] # Never
                                     /\ madeAt[r] <= w + RetryWindow
                                     /\ w <= readAt[r]}

Justified(a, state) ==
  /\ state.attempts <= Cardinality(CountedIn(a, state.window))
  /\ state.until # Never => state.attempts >= MaxBlockedAttempts

(* behavior.go quarantines nobody without cause: whatever attempts overlap *)
(* and whichever reads and writes fail, a quarantine in the table rests on *)
(* at least max_blocked_attempts_per_window different requests of that     *)
(* very agent, each of which was being recorded while one retry window     *)
(* ran.                                                                    *)
QuarantineHasCause ==
  \A a \in Agents : agentState[a].until # Never =>
    Cardinality(CountedIn(a, agentState[a].window)) >= MaxBlockedAttempts

(* A quarantine is never longer than quarantine_duration_seconds from now: *)
(* recordRiskAttempt replaces the end, it does not add to it.              *)
QuarantineBounded ==
  \A a \in Agents : agentState[a].until <= now + QuarantineDuration

(* No row comes from the future.                                           *)
Timely(state) == state.window <= now /\ state.until <= now + QuarantineDuration

(* The inductive strengthening: every row, saved or still held by a        *)
(* handler, is justified by attempts already made.                         *)
BehaviorInv ==
  /\ TypeOK
  /\ \A a \in Agents : Justified(a, agentState[a])
  /\ \A r \in Requests : Justified(AgentOf[r], row[r])
  /\ \A r \in Requests : /\ madeAt[r] <= now /\ readAt[r] <= now
                         /\ stage[r] = "timed" => madeAt[r] # Never
                         /\ stage[r] \in {"none", "admitted", "timed"} => readAt[r] = Never
  /\ \A a \in Agents : Timely(agentState[a])
  /\ \A r \in Requests : Timely(row[r])

(* gateway_hardening_test.go: "agent should be quarantined after repeated  *)
(* risky attempts".  Once it is, recordRiskAttempt never moves the end of  *)
(* a running quarantine back and never drops it, whatever attempts it      *)
(* overlaps with.                                                          *)
QuarantineLasts ==
  [][\A a \in Agents : Quarantined(agentState[a]) =>
       agentState'[a].until >= agentState[a].until]_behaviorVars
=============================================================================
