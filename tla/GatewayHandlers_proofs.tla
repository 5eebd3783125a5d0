----------------------- MODULE GatewayHandlers_proofs -----------------------
(***************************************************************************)
(* The steps of execute_query's handlers, and of everybody around them,    *)
(* for any number of requests, operators, agents, tables and queries, any  *)
(* policy and any flags: what each step keeps of the gateway's invariant.  *)
(* Gateway_proofs draws the conclusions.                                   *)
(***************************************************************************)
EXTENDS Gateway, TLAPS

----------------------------------------------------------------------------
(* The components the handlers work with.                                  *)

(* No step of the gateway does more to the engine than the engine itself   *)
(* allows.                                                                 *)
LEMMA EngineStep ==
  ASSUME [Next]_vars
  PROVE  /\ [Engine!Next]_engineVars
         /\ \/ UNCHANGED engineVars
            \/ \E r \in Requests : \/ Engine!WaiterStep(r) \/ Engine!TimerFires(r)
                                   \/ Engine!ClientGone(r)
            \/ Engine!Crash
            \/ \E o \in Operators : Operate(o)
<1>1. ASSUME NEW r \in Requests,
             Engine!WaiterStep(r) \/ Engine!TimerFires(r) \/ Engine!ClientGone(r)
      PROVE  Engine!Next
  BY <1>1 DEF Engine!Next
<1>2. ASSUME NEW o \in Operators, Operate(o)
      PROVE  Engine!Next
  BY <1>2 DEF Operate, Engine!Next
<1>3. \/ UNCHANGED engineVars
      \/ \E r \in Requests : \/ Engine!WaiterStep(r) \/ Engine!TimerFires(r)
                             \/ Engine!ClientGone(r)
      \/ Engine!Crash
      \/ \E o \in Operators : Operate(o)
  BY ZenonT(60) DEF vars, Next, TurnAway, InvalidParams, Arrive, HandlerStep, Quarantine,
     VerifyLatest, CheckReadiness, CheckGroup, RecordRequested, NotApproved,
     ApprovedWhilePaused, Approved, TakeAttemptTime, ReadAttempt, SaveAttempt, SendSQL,
     FinishSQL, AwaitApproval, ApprovalTimer, ClientGone, Publish, SetPaused, Heartbeat, Tick,
     Crash
<1> QED
  BY <1>1, <1>2, <1>3 DEF Engine!Next

(* No step of the gateway does more to the agents' rows and the clock than *)
(* behavior.go itself does.                                                *)
LEMMA BehaviorStep ==
  ASSUME [Next]_vars PROVE [Behavior!Next]_behaviorVars
<1>1. ASSUME NEW r \in Requests, Quarantine(r) PROVE [Behavior!Next]_behaviorVars
  BY <1>1 DEF Quarantine, Behavior!Next
<1>2. ASSUME NEW r \in Requests, TakeAttemptTime(r) \/ ReadAttempt(r) \/ SaveAttempt(r)
      PROVE  Behavior!Next
  BY <1>2 DEF TakeAttemptTime, ReadAttempt, SaveAttempt, Behavior!Next
<1>3. ASSUME Tick PROVE Behavior!Next
  BY <1>3 DEF Tick, Behavior!Next
<1>4. \/ UNCHANGED behaviorVars
      \/ \E r \in Requests : \/ Quarantine(r) \/ TakeAttemptTime(r) \/ ReadAttempt(r)
                             \/ SaveAttempt(r)
      \/ Tick
  BY ZenonT(60) DEF vars, Next, TurnAway, InvalidParams, Arrive, HandlerStep, VerifyLatest,
     CheckReadiness, CheckGroup, RecordRequested, NotApproved, ApprovedWhilePaused, Approved,
     SendSQL, FinishSQL, AwaitApproval, ApprovalTimer, ClientGone, Operate, Publish,
     SetPaused, Heartbeat, Crash, Outside
<1> QED
  BY <1>1, <1>2, <1>3, <1>4

(* What a handler relies on while others work with the engine: a result    *)
(* that was returned and a first decision stay, and a context that is done *)
(* is done for good.                                                       *)
EngineFrame(r) ==
  /\ waiter[r] = "returned" => waiter'[r] = "returned" /\ outcome'[r] = outcome[r]
  /\ outcome'[r] = "cancelled" => outcome[r] = "cancelled" \/ cancelled[r]
  /\ cancelled[r] => cancelled'[r]
  /\ first[r] # "none" => first'[r] = first[r]

(* A decision that RequestApproval returned is the first one accepted.     *)
LEMMA OutcomeIsFirst ==
  ASSUME Engine!EngineInv, NEW r \in Requests
  PROVE  /\ outcome[r] = "approved" => first[r] = "approve"
         /\ outcome[r] = "denied" => first[r] = "deny"
<1>1. outcome[r] \in {"approved", "denied"} =>
        first[r] # Engine!None /\ outcome[r] = Engine!Verdict[first[r]]
  BY Zenon DEF Engine!EngineInv, Engine!FirstDecisionWins
<1>2. first[r] \in Engine!Decision \cup {Engine!None}
  BY DEF Engine!EngineInv, Engine!TypeOK
<1>3. Engine!Verdict["deny"] # "approved" /\ Engine!Verdict["approve"] # "denied"
  BY DEF Engine!Verdict
<1> QED
  BY <1>1, <1>2, <1>3, Zenon DEF Engine!Decision

(* Nothing others do to the engine surprises a handler.                    *)
LEMMA EngineFramed ==
  ASSUME Engine!TypeOK, [Next]_vars, NEW r \in Requests
  PROVE  EngineFrame(r)
<1> USE DEF EngineFrame, Engine!TypeOK
<1>1. CASE UNCHANGED engineVars
  BY <1>1 DEF engineVars
<1>2. ASSUME NEW d \in Requests, Engine!WaiterStep(d)
      PROVE  EngineFrame(r)
  BY <1>2 DEF Engine!WaiterStep, Engine!RequestApproval, Engine!Select,
     Engine!SelectDecision, Engine!SelectTimer, Engine!SelectDone, Engine!DeferredDelete,
     Engine!Verdict, Engine!None, Engine!Decision
<1>3. ASSUME NEW d \in Requests, Engine!TimerFires(d)
      PROVE  EngineFrame(r)
  BY <1>3 DEF Engine!TimerFires
<1>4. ASSUME NEW d \in Requests, Engine!ClientGone(d)
      PROVE  EngineFrame(r)
  BY <1>4 DEF Engine!ClientGone
<1>5. CASE Engine!Crash
  BY <1>5 DEF Engine!Crash
<1>6. ASSUME NEW o \in Operators, Operate(o)
      PROVE  EngineFrame(r)
  BY <1>6 DEF Operate, Engine!SignalLoad, Engine!SignalSend, Engine!None
<1> QED
  BY EngineStep, <1>1, <1>2, <1>3, <1>4, <1>5, <1>6, SMTT(30)

----------------------------------------------------------------------------
(* The handlers.                                                           *)

HandlerTypes ==
  /\ pc \in [Requests -> {"new", "quarantine", "verify", "ready", "group", "request",
                          "wait", "attempt", "count", "save", "execute", "running", "done", "dead"}]
  /\ query \in [Requests -> Queries \cup {NoQuery}]
  /\ audit \in [Requests -> Seq(BOOLEAN)]
  /\ approvals \in [Requests -> {"none", "pending", "approved", "denied", "timeout", "paused"}]
  /\ sent \in [Requests -> BOOLEAN]
  /\ reply \in [Requests -> {"none", "rejected", "blocked", "denied", "failed", "executed"}]

OwnStep(r) == TurnAway(r) \/ InvalidParams(r) \/ Arrive(r) \/ HandlerStep(r)

(* What a step of a handler may write: at each variable no more than its   *)
(* own request's entry.                                                    *)
LEMMA HandlerWrites ==
  ASSUME NEW r \in Requests, OwnStep(r)
  PROVE  /\ \/ \E label \in {"quarantine", "verify", "ready", "group", "request", "wait",
                             "attempt", "count", "save", "execute", "running"} : Goto(r, label)
            \/ \E status \in {"rejected", "blocked", "denied", "failed", "executed"} :
                 Reply(r, status)
         /\ UNCHANGED audit \/ Audit(r, TRUE) \/ Audit(r, FALSE)
         /\ \/ UNCHANGED approvals
            \/ \E s \in {"pending", "approved", "denied", "timeout", "paused"} :
                 approvals' = [approvals EXCEPT ![r] = s]
         /\ UNCHANGED sent \/ sent' = [sent EXCEPT ![r] = TRUE]
         /\ UNCHANGED query \/ \E q \in Queries : query' = [query EXCEPT ![r] = q]
         /\ UNCHANGED snapArg \/ \E s : snapArg' = [snapArg EXCEPT ![r] = s]
         /\ UNCHANGED newest \/ \E s : newest' = [newest EXCEPT ![r] = s]
         /\ UNCHANGED manifest \/ \E t : manifest' = [manifest EXCEPT ![r] = t]
         /\ UNCHANGED readyAt \/ \E t : readyAt' = [readyAt EXCEPT ![r] = t]
         /\ UNCHANGED <<pauseVars, sidecarVars>>
<1> USE DEF OwnStep, TurnAway, InvalidParams, Arrive, HandlerStep, Quarantine, VerifyLatest,
   CheckReadiness, CheckGroup, RecordRequested, NotApproved, ApprovedWhilePaused, Approved,
   TakeAttemptTime, ReadAttempt, SaveAttempt, SendSQL, FinishSQL
<1>1. \/ \E label \in {"quarantine", "verify", "ready", "group", "request", "wait", "attempt",
                       "count", "save", "execute", "running"} : Goto(r, label)
      \/ \E status \in {"rejected", "blocked", "denied", "failed", "executed"} : Reply(r, status)
  BY Zenon DEF Refuse, CountThenReply
<1>2. UNCHANGED audit \/ Audit(r, TRUE) \/ Audit(r, FALSE)
  BY Zenon DEF Refuse
<1>3. \/ UNCHANGED approvals
      \/ \E s \in {"pending", "approved", "denied", "timeout", "paused"} :
           approvals' = [approvals EXCEPT ![r] = s]
  BY Zenon DEF RecordResolved
<1>4. UNCHANGED sent \/ sent' = [sent EXCEPT ![r] = TRUE]
  BY Zenon
<1>5. /\ UNCHANGED query \/ \E q \in Queries : query' = [query EXCEPT ![r] = q]
      /\ UNCHANGED snapArg \/ \E s : snapArg' = [snapArg EXCEPT ![r] = s]
  BY Zenon
<1>6. /\ UNCHANGED newest \/ \E s : newest' = [newest EXCEPT ![r] = s]
      /\ UNCHANGED manifest \/ \E t : manifest' = [manifest EXCEPT ![r] = t]
      /\ UNCHANGED readyAt \/ \E t : readyAt' = [readyAt EXCEPT ![r] = t]
  BY Zenon
<1>7. UNCHANGED <<pauseVars, sidecarVars>>
  BY Zenon
<1> HIDE DEF OwnStep
<1> QED
  BY <1>1, <1>2, <1>3, <1>4, <1>5, <1>6, <1>7, Zenon

(* A step that is not a handler's leaves the handlers' variables alone,    *)
(* unless it is the crash that ends them.                                  *)
LEMMA HandlerOrNot ==
  ASSUME [Next]_vars
  PROVE  \/ \E r \in Requests : OwnStep(r)
         \/ UNCHANGED handlerVars /\ (SetPaused \/ UNCHANGED pauseVars)
         \/ Crash
BY Zenon DEF OwnStep, Next, vars, AwaitApproval, ApprovalTimer, ClientGone, Operate, Publish,
   SetPaused, Heartbeat, Tick, Outside

(* A step of one handler leaves the other requests alone.                  *)
LEMMA OthersUntouched ==
  ASSUME HandlerTypes, NEW r \in Requests, OwnStep(r), NEW d \in Requests \ {r}
  PROVE  /\ pc'[d] = pc[d] /\ reply'[d] = reply[d] /\ query'[d] = query[d]
         /\ audit'[d] = audit[d] /\ approvals'[d] = approvals[d] /\ sent'[d] = sent[d]
<1>1. pc'[d] = pc[d] /\ reply'[d] = reply[d]
  <2>1. (\E label : Goto(r, label)) \/ (\E status : Reply(r, status))
    BY HandlerWrites, Zenon
  <2> QED
    BY <2>1 DEF Goto, Reply, HandlerTypes
<1>2. query'[d] = query[d] /\ audit'[d] = audit[d]
  <2>1. /\ UNCHANGED query \/ \E q : query' = [query EXCEPT ![r] = q]
        /\ UNCHANGED audit \/ \E forwarded : Audit(r, forwarded)
    BY HandlerWrites, Zenon
  <2> QED
    BY <2>1 DEF Audit, HandlerTypes
<1>3. approvals'[d] = approvals[d] /\ sent'[d] = sent[d]
  <2>1. /\ UNCHANGED approvals \/ \E s : approvals' = [approvals EXCEPT ![r] = s]
        /\ UNCHANGED sent \/ sent' = [sent EXCEPT ![r] = TRUE]
    BY HandlerWrites, Zenon
  <2> QED
    BY <2>1 DEF HandlerTypes
<1> QED
  BY <1>1, <1>2, <1>3

(* The handlers' steps keep the types of what they write.                  *)
LEMMA HandlerTypesKept ==
  ASSUME HandlerTypes, [Next]_vars
  PROVE  HandlerTypes'
<1>1. ASSUME UNCHANGED handlerVars
      PROVE  HandlerTypes'
  BY <1>1 DEF HandlerTypes, handlerVars
<1>2. ASSUME NEW r \in Requests, OwnStep(r)
      PROVE  HandlerTypes'
  <2> USE DEF HandlerTypes
  <2>1. sent' \in [Requests -> BOOLEAN]
    BY <1>2, HandlerWrites, Zenon
  <2>2. query' \in [Requests -> Queries \cup {NoQuery}]
    <3>1. UNCHANGED query \/ \E q \in Queries : query' = [query EXCEPT ![r] = q]
      BY <1>2, HandlerWrites, Zenon
    <3> QED
      BY <3>1, Zenon
  <2>3. audit' \in [Requests -> Seq(BOOLEAN)]
    <3>1. \A b \in BOOLEAN : Append(audit[r], b) \in Seq(BOOLEAN)
      OBVIOUS
    <3> QED
      BY <1>2, <3>1, HandlerWrites, ZenonT(30) DEF Audit
  <2>4. approvals' \in [Requests -> {"none", "pending", "approved", "denied", "timeout", "paused"}]
    BY <1>2, HandlerWrites, Zenon
  <2>5. CASE \E label \in {"quarantine", "verify", "ready", "group", "request", "wait",
                           "attempt", "count", "save", "execute", "running"} : Goto(r, label)
    BY <2>1, <2>2, <2>3, <2>4, <2>5 DEF Goto
  <2>6. CASE \E status \in {"rejected", "blocked", "denied", "failed", "executed"} : Reply(r, status)
    BY <2>1, <2>2, <2>3, <2>4, <2>6 DEF Reply
  <2> QED
    BY <1>2, <2>5, <2>6, HandlerWrites, Zenon
<1>3. CASE Crash
  BY <1>3 DEF Crash, HandlerTypes
<1> QED
  BY <1>1, <1>2, <1>3, HandlerOrNot

HandlerOK(r) == AuditInv(r) /\ VerdictInv(r) /\ RowInv(r)

(* A handler's own step keeps its account; nobody else's step touches what *)
(* the account is about.                                                   *)
LEMMA HandlerKept ==
  ASSUME Engine!EngineInv, HandlerTypes, [Next]_vars,
         \A r \in Requests : HandlerOK(r) /\ EngineFrame(r)
  PROVE  \A r \in Requests : HandlerOK(r)'
<1>1. ASSUME NEW r \in Requests, pc'[r] = pc[r] \/ pc'[r] = "dead", query'[r] = query[r],
             audit'[r] = audit[r], approvals'[r] = approvals[r], sent'[r] = sent[r],
             reply'[r] = reply[r], pc'[r] = "dead" => reply[r] = "none"
      PROVE  HandlerOK(r)'
  <2>1. ActionOf(r)' = ActionOf(r)
    BY <1>1 DEF ActionOf
  <2>2. AuditInv(r)'
    BY <1>1, Zenon DEF HandlerOK, AuditInv
  <2>3. VerdictInv(r)'
    BY <1>1, <2>1 DEF HandlerOK, VerdictInv, EngineFrame
  <2>4. RowInv(r)'
    BY <1>1, <2>1, Zenon DEF HandlerOK, RowInv, EngineFrame
  <2> QED
    BY <2>2, <2>3, <2>4 DEF HandlerOK
<1>2. CASE UNCHANGED handlerVars
  BY <1>1, <1>2, Zenon DEF handlerVars, HandlerOK, AuditInv
<1>3. CASE Crash
  BY <1>1, <1>3, Zenon DEF Crash, InFlight, HandlerTypes, HandlerOK, AuditInv
<1>4. ASSUME NEW r \in Requests, OwnStep(r),
             NEW d \in Requests \ {r}
      PROVE  HandlerOK(d)'
  BY <1>1, <1>4, OthersUntouched, Zenon DEF HandlerOK, AuditInv
<1>5. ASSUME NEW r \in Requests, UNCHANGED query
      PROVE  ActionOf(r)' = ActionOf(r)
  BY <1>5 DEF ActionOf
<1>6. \A r \in Requests : audit[r] = <<>> => Append(audit[r], TRUE) = <<TRUE>>
                                             /\ Append(audit[r], FALSE) = <<FALSE>>
  OBVIOUS
<1>7. \A r \in Requests : ActionOf(r) \in {"block", "approve", "execute"}
  BY DEF ActionOf, Action
<1>8. ASSUME NEW r \in Requests, TurnAway(r) \/ InvalidParams(r) \/ Arrive(r)
      PROVE  HandlerOK(r)'
  <2>1. /\ pc[r] = "new" /\ sent'[r] = sent[r] /\ approvals'[r] = approvals[r]
        /\ UNCHANGED engineVars
    BY <1>8 DEF TurnAway, InvalidParams, Arrive
  <2>2. \/ pc'[r] = "done" /\ reply'[r] = "rejected" /\ audit'[r] = audit[r]
        \/ pc'[r] = "done" /\ reply'[r] = "blocked" /\ audit'[r] = Append(audit[r], FALSE)
        \/ pc'[r] = "quarantine" /\ reply'[r] = reply[r] /\ audit'[r] = audit[r]
    <3>1. ASSUME TurnAway(r) \/ InvalidParams(r)
          PROVE  pc'[r] = "done" /\ reply'[r] = "rejected" /\ audit'[r] = audit[r]
      BY <3>1, Zenon DEF TurnAway, InvalidParams, Reply, HandlerTypes
    <3>2. ASSUME Arrive(r)
          PROVE  Refuse(r, "blocked") \/ (Goto(r, "quarantine") /\ UNCHANGED audit)
      BY <3>2, Zenon DEF Arrive
    <3>3. ASSUME Refuse(r, "blocked")
          PROVE  /\ pc'[r] = "done" /\ reply'[r] = "blocked"
                 /\ audit'[r] = Append(audit[r], FALSE)
      BY <3>3, Zenon DEF Refuse, Reply, Audit, HandlerTypes
    <3>4. ASSUME Goto(r, "quarantine") /\ UNCHANGED audit
          PROVE  pc'[r] = "quarantine" /\ reply'[r] = reply[r] /\ audit'[r] = audit[r]
      BY <3>4, Zenon DEF Goto, HandlerTypes
    <3> QED
      BY <1>8, <3>1, <3>2, <3>3, <3>4, Zenon
  <2> QED
    BY <1>6, <2>1, <2>2, Zenon DEF HandlerOK, AuditInv, VerdictInv, RowInv, engineVars
<1>9. ASSUME NEW r \in Requests, Quarantine(r)
      PROVE  HandlerOK(r)'
  <2>1. /\ pc[r] = "quarantine" /\ sent'[r] = sent[r] /\ approvals'[r] = approvals[r]
        /\ ActionOf(r)' = ActionOf(r) /\ UNCHANGED engineVars
    BY <1>5, <1>9 DEF Quarantine
  <2>2. \/ /\ pc'[r] = "done" /\ reply'[r] = "blocked"
           /\ audit'[r] = Append(audit[r], FALSE)
        \/ /\ pc'[r] = "attempt" /\ reply'[r] = reply[r]
           /\ audit'[r] = Append(audit[r], FALSE)
        \/ /\ pc'[r] = "execute" /\ reply'[r] = reply[r] /\ ActionOf(r) = "execute"
           /\ audit'[r] = Append(audit[r], TRUE)
        \/ /\ pc'[r] \in {"verify", "request"} /\ reply'[r] = reply[r]
           /\ ActionOf(r) = "approve" /\ audit'[r] = audit[r]
    BY <1>9, Zenon DEF Quarantine, CountThenReply, Refuse, Reply, Goto, Audit, HandlerTypes
  <2> QED
    BY <1>6, <2>1, <2>2, Zenon DEF HandlerOK, AuditInv, VerdictInv, RowInv, engineVars
<1>10. ASSUME NEW r \in Requests,
              VerifyLatest(r) \/ CheckReadiness(r) \/ CheckGroup(r) \/ RecordRequested(r)
       PROVE  HandlerOK(r)'
  <2>1. /\ pc[r] \in {"verify", "ready", "group", "request"} /\ sent'[r] = sent[r]
        /\ ActionOf(r)' = ActionOf(r) /\ UNCHANGED engineVars
    BY <1>5, <1>10 DEF VerifyLatest, CheckReadiness, CheckGroup, RecordRequested
  <2>2. \/ /\ pc'[r] = "done" /\ reply'[r] = "blocked" /\ approvals'[r] = approvals[r]
           /\ audit'[r] = Append(audit[r], FALSE)
        \/ /\ pc'[r] \in {"ready", "group", "request"} /\ reply'[r] = reply[r]
           /\ audit'[r] = audit[r] /\ approvals'[r] = approvals[r]
        \/ /\ pc'[r] = "wait" /\ reply'[r] = reply[r] /\ audit'[r] = audit[r]
           /\ approvals'[r] = "pending"
    BY <1>10, Zenon DEF VerifyLatest, CheckReadiness, CheckGroup, RecordRequested, Refuse,
       Reply, Goto, Audit, HandlerTypes
  <2> QED
    BY <1>6, <2>1, <2>2, ZenonT(30) DEF HandlerOK, AuditInv, VerdictInv, RowInv, engineVars
<1>11. ASSUME NEW r \in Requests, NotApproved(r)
       PROVE  HandlerOK(r)'
  <2>1. /\ pc[r] = "wait" /\ waiter[r] = "returned" /\ outcome[r] # "approved"
        /\ sent'[r] = sent[r] /\ ActionOf(r)' = ActionOf(r) /\ UNCHANGED engineVars
        /\ audit'[r] = Append(audit[r], FALSE)
    BY <1>5, <1>11, Zenon DEF NotApproved, Audit, HandlerTypes
  <2>2. \/ pc'[r] = "done" /\ reply'[r] = "denied"
        \/ pc'[r] = "attempt" /\ reply'[r] = reply[r]
    BY <1>11 DEF NotApproved, CountThenReply, Reply, Goto, HandlerTypes
  <2>3. \/ approvals'[r] = approvals[r]
        \/ ~cancelled[r] /\ approvals'[r] = IF outcome[r] = "timeout" THEN "timeout" ELSE "denied"
    BY <1>11 DEF NotApproved, RecordResolved, HandlerTypes
  <2>4. outcome[r] \in {"denied", "timeout", "cancelled"}
    BY <2>1 DEF Engine!EngineInv, Engine!TypeOK, Engine!None
  <2>5. outcome[r] = "denied" => first[r] = "deny"
    BY OutcomeIsFirst
  <2>6. outcome[r] = "cancelled" => cancelled[r]
    BY DEF HandlerOK, VerdictInv
  <2> QED
    BY <1>6, <2>1, <2>2, <2>3, <2>4, <2>5, <2>6, ZenonT(30)
    DEF HandlerOK, AuditInv, VerdictInv, RowInv, engineVars
<1>12. ASSUME NEW r \in Requests, ApprovedWhilePaused(r) \/ Approved(r)
       PROVE  HandlerOK(r)'
  <2>1. /\ pc[r] = "wait" /\ waiter[r] = "returned" /\ outcome[r] = "approved"
        /\ sent'[r] = sent[r] /\ ActionOf(r)' = ActionOf(r) /\ UNCHANGED engineVars
    BY <1>5, <1>12, Zenon DEF ApprovedWhilePaused, Approved
  <2>2. \/ /\ pc'[r] = "done" /\ reply'[r] = "blocked" /\ audit'[r] = Append(audit[r], FALSE)
           /\ approvals'[r] \in {approvals[r], "paused"}
        \/ /\ pc'[r] = "execute" /\ reply'[r] = reply[r] /\ audit'[r] = Append(audit[r], TRUE)
           /\ approvals'[r] \in {approvals[r], "approved"}
    BY <1>12, Zenon DEF ApprovedWhilePaused, Approved, RecordResolved, Refuse, Reply, Goto,
       Audit, HandlerTypes
  <2>3. first[r] = "approve"
    BY <2>1, OutcomeIsFirst
  <2> QED
    BY <1>6, <2>1, <2>2, <2>3, ZenonT(30) DEF HandlerOK, AuditInv, VerdictInv, RowInv,
       engineVars
<1>13. ASSUME NEW r \in Requests, TakeAttemptTime(r) \/ ReadAttempt(r) \/ SaveAttempt(r)
       PROVE  HandlerOK(r)'
  <2>1. /\ pc[r] \in {"attempt", "count", "save"} /\ sent'[r] = sent[r] /\ audit'[r] = audit[r]
        /\ approvals'[r] = approvals[r] /\ ActionOf(r)' = ActionOf(r) /\ UNCHANGED engineVars
    BY <1>5, <1>13 DEF TakeAttemptTime, ReadAttempt, SaveAttempt
  <2>2. \/ pc'[r] \in {"count", "save"} /\ reply'[r] = reply[r]
        \/ pc'[r] = "done" /\ reply'[r] \in {"blocked", "denied"}
    BY <1>13 DEF TakeAttemptTime, ReadAttempt, SaveAttempt, Reply, Goto, HandlerTypes
  <2> QED
    BY <2>1, <2>2, Zenon DEF HandlerOK, AuditInv, VerdictInv, RowInv, engineVars
<1>14. ASSUME NEW r \in Requests, SendSQL(r) \/ FinishSQL(r)
       PROVE  HandlerOK(r)'
  <2>1. /\ pc[r] \in {"execute", "running"} /\ audit'[r] = audit[r]
        /\ approvals'[r] = approvals[r] /\ ActionOf(r)' = ActionOf(r) /\ UNCHANGED engineVars
    BY <1>5, <1>14 DEF SendSQL, FinishSQL
  <2>2. \/ pc'[r] = "running" /\ pc[r] = "execute" /\ reply'[r] = reply[r]
        \/ /\ pc'[r] = "done" /\ reply'[r] \in {"executed", "failed"} /\ sent'[r] = sent[r]
    BY <1>14 DEF SendSQL, FinishSQL, Reply, Goto, HandlerTypes
  <2> QED
    BY <2>1, <2>2, ZenonT(30) DEF HandlerOK, AuditInv, VerdictInv, RowInv, engineVars
<1>15. ASSUME NEW r \in Requests, OwnStep(r)
       PROVE  HandlerOK(r)'
  BY <1>8, <1>9, <1>10, <1>11, <1>12, <1>13, <1>14, <1>15, SMTT(30) DEF OwnStep, HandlerStep
<1> QED
  BY <1>2, <1>3, <1>4, <1>15, HandlerOrNot

----------------------------------------------------------------------------
(* The guards: what the pause and the recovery checks work with.           *)

GuardTypes ==
  /\ now \in Nat
  /\ snapArg \in [Requests -> Nat]
  /\ newest \in [Requests -> Nat]
  /\ manifest \in [Requests -> Nat \cup {Never}]
  /\ readyAt \in [Requests -> Nat \cup {Never}]
  /\ paused \in BOOLEAN
  /\ cleared \subseteq Requests
  /\ latest \in [Tables -> Nat]
  /\ latestAt \in [Tables -> Nat \cup {Never}]
  /\ health \in [ok : BOOLEAN, at : Nat \cup {Never}]

(* The table to verify is a table: nothing else has a recovery point.      *)
LEMMA RecoveryTable ==
  ASSUME NEW q \in Queries \cup {NoQuery}, HasRecoveryTable(q)
  PROVE  q.table \in Tables
BY GatewayAssumption DEF HasRecoveryTable, NoQuery, Analysis

(* The guards' variables keep their types.                                 *)
LEMMA GuardTypesKept ==
  ASSUME HandlerTypes, GuardTypes, [Next]_vars
  PROVE  GuardTypes'
<1> USE DEF GuardTypes
<1>1. now' \in Nat
  <2>1. UNCHANGED now \/ \E t \in Clock : now < t /\ now' = t
    BY BehaviorStep, Zenon DEF Behavior!Next, Behavior!CheckQuarantine, Behavior!TakeTime,
       Behavior!ReadState, Behavior!SaveState, Behavior!Tick, behaviorVars
  <2> QED
    BY <2>1, GatewayAssumption
<1>2. /\ latest' \in [Tables -> Nat]
      /\ latestAt' \in [Tables -> Nat \cup {Never}]
      /\ health' \in [ok : BOOLEAN, at : Nat \cup {Never}]
  <2>1. ASSUME NEW t \in Tables, Publish(t)
        PROVE  /\ latest' \in [Tables -> Nat]
               /\ latestAt' \in [Tables -> Nat \cup {Never}] /\ UNCHANGED health
    BY <2>1, GatewayAssumption DEF Publish
  <2>2. CASE Heartbeat
    BY <2>2 DEF Heartbeat
  <2>3. CASE UNCHANGED sidecarVars
    BY <2>3 DEF sidecarVars
  <2>4. UNCHANGED sidecarVars \/ Heartbeat \/ \E t \in Tables : Publish(t)
    BY HandlerWrites, Zenon DEF OwnStep, Next, vars, AwaitApproval, ApprovalTimer, ClientGone,
       Operate, SetPaused, Tick, Crash, Outside
  <2> QED
    BY <2>1, <2>2, <2>3, <2>4
<1>3. paused' \in BOOLEAN /\ cleared' \subseteq Requests
  BY HandlerOrNot, HandlerWrites, Zenon DEF SetPaused, Crash, pauseVars
<1>4. /\ snapArg' \in [Requests -> Nat]
      /\ newest' \in [Requests -> Nat]
      /\ manifest' \in [Requests -> Nat \cup {Never}]
      /\ readyAt' \in [Requests -> Nat \cup {Never}]
  <2>1. ASSUME NEW r \in Requests, OwnStep(r)
        PROVE  /\ snapArg' \in [Requests -> Nat]
               /\ newest' \in [Requests -> Nat]
               /\ manifest' \in [Requests -> Nat \cup {Never}]
               /\ readyAt' \in [Requests -> Nat \cup {Never}]
    <3>1. CASE Arrive(r)
      <4>1. /\ UNCHANGED <<newest, manifest, readyAt>>
            /\ \E q \in Queries : \E n \in KnownSnapshots(q) :
                 snapArg' = [snapArg EXCEPT ![r] = n]
        BY <3>1, Zenon DEF Arrive
      <4>2. \A q : KnownSnapshots(q) \subseteq Nat
        BY DEF KnownSnapshots
      <4> QED
        BY <4>1, <4>2
    <3>2. CASE VerifyLatest(r)
      <4>1. /\ UNCHANGED <<snapArg, readyAt>>
            /\ \/ UNCHANGED <<newest, manifest>>
               \/ /\ HasRecoveryTable(query[r])
                  /\ newest' = [newest EXCEPT ![r] = latest[query[r].table]]
                  /\ manifest' = [manifest EXCEPT ![r] = latestAt[query[r].table]]
        BY <3>2, Zenon DEF VerifyLatest
      <4>2. HasRecoveryTable(query[r]) => query[r].table \in Tables
        BY RecoveryTable DEF HandlerTypes
      <4> QED
        BY <4>1, <4>2
    <3>3. CASE CheckReadiness(r)
      BY <3>3 DEF CheckReadiness
    <3>4. CASE UNCHANGED <<snapArg, newest, manifest, readyAt>>
      BY <3>4
    <3> QED
      BY <2>1, <3>1, <3>2, <3>3, <3>4, Zenon DEF OwnStep, TurnAway, InvalidParams,
         HandlerStep, Quarantine, CheckGroup, RecordRequested, NotApproved,
         ApprovedWhilePaused, Approved, TakeAttemptTime, ReadAttempt, SaveAttempt, SendSQL,
         FinishSQL
  <2> QED
    BY HandlerOrNot, <2>1 DEF handlerVars, Crash
<1> QED
  BY <1>1, <1>2, <1>3, <1>4

----------------------------------------------------------------------------
(* The emergency pause.                                                    *)

(* Whoever gets past the last pause check during a pause was past it when  *)
(* the pause began.                                                        *)
LEMMA PauseKept ==
  ASSUME HandlerTypes, GuardTypes, [Next]_vars, \A r \in Requests : PauseInv(r)
  PROVE  \A r \in Requests : PauseInv(r)'
<1>1. ASSUME NEW r \in Requests, pc'[r] = pc[r], query'[r] = query[r], UNCHANGED pauseVars
      PROVE  PauseInv(r)'
  BY <1>1 DEF PauseInv, PastPauseCheck, BlocksRisk, ActionOf, pauseVars
<1>2. ASSUME NEW r \in Requests, SetPaused
      PROVE  PauseInv(r)'
  BY <1>2, Zenon DEF SetPaused, PauseInv, PastPauseCheck, BlocksRisk, ActionOf, handlerVars
<1>3. ASSUME NEW r \in Requests, Crash
      PROVE  PauseInv(r)'
  BY <1>3 DEF Crash, InFlight, PauseInv, PastPauseCheck, HandlerTypes
<1>4. ASSUME NEW r \in Requests, OwnStep(r)
      PROVE  PauseInv(r)'
  <2>1. UNCHANGED pauseVars
    BY <1>4, HandlerWrites, Zenon
  <2>2. CASE pc'[r] \notin {"quarantine", "execute"}
    BY <2>2 DEF PauseInv, PastPauseCheck
  <2>3. CASE Arrive(r)
    <3>1. \/ pc'[r] = "done"
          \/ ~BlocksRisk(query'[r].risk)
      BY <2>3, Zenon DEF Arrive, Refuse, Reply, HandlerTypes
    <3> QED
      BY <2>1, <3>1 DEF PauseInv, PastPauseCheck, BlocksRisk, pauseVars
  <2>4. CASE Quarantine(r)
    <3>1. /\ pc[r] = "quarantine" /\ UNCHANGED query
          /\ pc'[r] = "execute" => ActionOf(r) = "execute"
      BY <2>4, Zenon DEF Quarantine, CountThenReply, Refuse, Reply, Goto, HandlerTypes
    <3>2. CASE pc'[r] = "execute"
      BY <2>1, <3>1, <3>2 DEF PauseInv, PastPauseCheck, BlocksRisk, pauseVars
    <3>3. pc'[r] # "quarantine"
      BY <2>4, Zenon DEF Quarantine, CountThenReply, Refuse, Reply, Goto, HandlerTypes
    <3> QED
      BY <2>2, <3>2, <3>3
  <2>5. CASE Approved(r)
    BY <2>1, <2>5, SMTT(30) DEF Approved, Goto, PauseInv, BlocksRisk, pauseVars
  <2>6. Arrive(r) \/ Quarantine(r) \/ Approved(r) \/ pc'[r] \notin {"quarantine", "execute"}
    BY <1>4, Zenon DEF OwnStep, TurnAway, InvalidParams, HandlerStep, VerifyLatest,
       CheckReadiness, CheckGroup, RecordRequested, NotApproved, ApprovedWhilePaused,
       TakeAttemptTime, ReadAttempt, SaveAttempt, SendSQL, FinishSQL, Refuse, CountThenReply,
       Reply, Goto, HandlerTypes
  <2> QED
    BY <2>2, <2>3, <2>4, <2>5, <2>6
<1> QED
  BY <1>1, <1>2, <1>3, <1>4, HandlerOrNot, HandlerWrites, OthersUntouched, Zenon DEF handlerVars

----------------------------------------------------------------------------
(* The recovery point.                                                     *)

(* Time does not run back, and the newest snapshot of a table is only ever *)
(* replaced by a newer one.                                                *)
LEMMA SidecarKept ==
  ASSUME HandlerTypes, GuardTypes, [Next]_vars, SidecarInv
  PROVE  SidecarInv' /\ now <= now' /\ \A t \in Tables : latest[t] <= latest'[t]
<1>1. now' \in Nat /\ now <= now'
  <2>1. UNCHANGED now \/ \E t \in Clock : now < t /\ now' = t
    BY BehaviorStep, Zenon DEF Behavior!Next, Behavior!CheckQuarantine, Behavior!TakeTime,
       Behavior!ReadState, Behavior!SaveState, Behavior!Tick, behaviorVars
  <2> QED
    BY <2>1, GatewayAssumption DEF GuardTypes
<1>2. ASSUME NEW t \in Tables
      PROVE  /\ latestAt'[t] <= now' /\ (latest'[t] # 0 => latestAt'[t] # Never)
             /\ latest[t] <= latest'[t]
  <2>1. \/ latest'[t] = latest[t] /\ latestAt'[t] = latestAt[t]
        \/ latest'[t] = latest[t] + 1 /\ latestAt'[t] = now
    <3>1. \/ UNCHANGED <<latest, latestAt>>
          \/ \E u \in Tables : Publish(u)
      BY HandlerWrites, Zenon DEF OwnStep, Next, vars, AwaitApproval, ApprovalTimer, ClientGone,
         Operate, SetPaused, Heartbeat, Tick, Crash, Outside, sidecarVars
    <3> QED
      BY <3>1 DEF Publish, GuardTypes
  <2> QED
    BY <1>1, <2>1 DEF SidecarInv, GuardTypes, Never
<1> QED
  BY <1>1, <1>2 DEF SidecarInv

(* Whoever is past the checks of the recovery point has passed them, and   *)
(* nobody takes what was verified away.                                    *)
LEMMA RecoveryKept ==
  ASSUME HandlerTypes, GuardTypes, [Next]_vars, SidecarInv,
         \A r \in Requests : AuditInv(r) /\ RecoveryInv(r)
  PROVE  \A r \in Requests : RecoveryInv(r)'
<1> DEFINE Verified(r) == sent[r] \/ pc[r] \in {"ready", "group", "request", "wait", "execute"}
           FoundReady(r) == sent[r] \/ pc[r] \in {"group", "request", "wait", "execute"}
<1>1. now \in Nat /\ now' \in Nat /\ now <= now'
  BY SidecarKept, GuardTypesKept DEF GuardTypes
<1>2. \A r \in Requests : HasRecoveryTable(query[r]) => query[r].table \in Tables
  BY RecoveryTable DEF HandlerTypes
<1>3. ASSUME NEW r \in Requests, query'[r] = query[r], snapArg'[r] = snapArg[r],
             newest'[r] = newest[r], manifest'[r] = manifest[r], readyAt'[r] = readyAt[r],
             NeedsRecovery(r) /\ Verified(r)' => Verified(r),
             NeedsRecovery(r) /\ FoundReady(r)' => FoundReady(r)
      PROVE  RecoveryInv(r)'
  <2>1. NeedsRecovery(r)' <=> NeedsRecovery(r)
    BY <1>3 DEF NeedsRecovery
  <2>2. manifest'[r] <= now'
    <3>1. manifest[r] <= now /\ manifest[r] \in Nat \cup {-1}
      BY DEF RecoveryInv, GuardTypes, Never
    <3> QED
      BY <1>1, <1>3, <3>1
  <2>3. ASSUME NeedsRecovery(r), Verified(r)
        PROVE  /\ HasRecoveryTable(query'[r])
               /\ snapArg'[r] # 0 /\ snapArg'[r] = newest'[r]
               /\ manifest'[r] # Never
    BY <1>3, <2>3, Zenon DEF RecoveryInv
  <2>4. ASSUME NeedsRecovery(r), FoundReady(r)
        PROVE  /\ readyAt'[r] # Never
               /\ manifest'[r] <= readyAt'[r]
               /\ MaxSnapshotAge > 0 => readyAt'[r] - manifest'[r] <= MaxSnapshotAge
    BY <1>3, <2>4 DEF RecoveryInv
  <2> QED
    BY <1>3, <2>1, <2>2, <2>3, <2>4, Zenon DEF RecoveryInv
<1>4. ASSUME NEW r \in Requests, UNCHANGED handlerVars \/ Crash
      PROVE  RecoveryInv(r)'
  <2>1. /\ UNCHANGED <<query, snapArg, newest, manifest, readyAt, sent>>
        /\ pc'[r] \in {pc[r], "dead"}
    BY <1>4 DEF handlerVars, Crash
  <2> QED
    BY <1>3, <2>1
<1>5. ASSUME NEW d \in Requests, OwnStep(d),
             NEW r \in Requests \ {d}
      PROVE  RecoveryInv(r)'
  <2>1. /\ snapArg'[r] = snapArg[r] /\ newest'[r] = newest[r]
        /\ manifest'[r] = manifest[r] /\ readyAt'[r] = readyAt[r]
    <3>1. /\ UNCHANGED snapArg \/ \E x : snapArg' = [snapArg EXCEPT ![d] = x]
          /\ UNCHANGED newest \/ \E x : newest' = [newest EXCEPT ![d] = x]
          /\ UNCHANGED manifest \/ \E t : manifest' = [manifest EXCEPT ![d] = t]
          /\ UNCHANGED readyAt \/ \E t : readyAt' = [readyAt EXCEPT ![d] = t]
      BY <1>5, HandlerWrites, Zenon
    <3> QED
      BY <3>1 DEF GuardTypes
  <2> QED
    BY <1>3, <1>5, <2>1, OthersUntouched
<1>6. ASSUME NEW r \in Requests, Arrive(r)
      PROVE  RecoveryInv(r)'
  <2>1. ~sent'[r] /\ UNCHANGED manifest
    BY <1>6, Zenon DEF Arrive, AuditInv
  <2>2. pc'[r] \in {"done", "quarantine"}
    BY <1>6, Zenon DEF Arrive, Refuse, Reply, Goto, HandlerTypes
  <2>3. manifest'[r] <= now'
    <3>1. manifest[r] <= now /\ manifest[r] \in Nat \cup {-1}
      BY DEF RecoveryInv, GuardTypes, Never
    <3> QED
      BY <1>1, <2>1, <3>1
  <2> QED
    BY <2>1, <2>2, <2>3 DEF RecoveryInv
<1>7. ASSUME NEW r \in Requests, Quarantine(r)
      PROVE  RecoveryInv(r)'
  <2>1. UNCHANGED <<query, snapArg, newest, manifest, readyAt, sent>>
    BY <1>7 DEF Quarantine
  <2>2. \/ pc'[r] \in {"done", "attempt", "verify"}
        \/ pc'[r] = "execute" /\ ActionOf(r) = "execute"
        \/ pc'[r] = "request" /\ ~NeedsRecovery(r)
    BY <1>7, Zenon DEF Quarantine, CountThenReply, Refuse, Reply, Goto, HandlerTypes
  <2>3. NeedsRecovery(r) => ActionOf(r) = "approve"
    BY DEF NeedsRecovery, RequiresRecovery, ActionOf
  <2> QED
    BY <1>3, <2>1, <2>2, <2>3
<1>8. ASSUME NEW r \in Requests, VerifyLatest(r)
      PROVE  RecoveryInv(r)'
  <2>1. /\ UNCHANGED <<query, snapArg, readyAt, sent, latest, now>>
        /\ ~sent[r]
    BY <1>8, Zenon DEF VerifyLatest, AuditInv, sidecarVars, behaviorVars
  <2>2. CASE pc'[r] = "done" /\ UNCHANGED <<newest, manifest>>
    BY <1>3, <2>1, <2>2
  <2>3. CASE /\ pc'[r] = "ready" /\ HasRecoveryTable(query[r]) /\ snapArg[r] # 0
             /\ latest[query[r].table] = snapArg[r] /\ newest'[r] = latest[query[r].table]
             /\ manifest'[r] = latestAt[query[r].table]
    <3>1. manifest'[r] # Never /\ manifest'[r] <= now
      <4>1. PICK t \in Tables : t = query[r].table
        BY <1>2, <2>3
      <4>2. latestAt[t] # Never /\ latestAt[t] <= now
        BY <2>3, <4>1 DEF SidecarInv
      <4> QED
        BY <2>3, <4>1, <4>2
    <3> QED
      BY <2>1, <2>3, <3>1 DEF RecoveryInv
  <2> QED
    BY <1>8, <2>2, <2>3, Zenon DEF VerifyLatest, Refuse, Reply, Goto, HandlerTypes, GuardTypes
<1>9. ASSUME NEW r \in Requests, CheckReadiness(r)
      PROVE  RecoveryInv(r)'
  <2>1. /\ UNCHANGED <<query, snapArg, newest, manifest, sent, latest, now>>
        /\ ~sent[r] /\ pc[r] = "ready"
    BY <1>9, Zenon DEF CheckReadiness, AuditInv, sidecarVars, behaviorVars
  <2>2. CASE pc'[r] = "done" /\ UNCHANGED readyAt
    BY <1>3, <2>1, <2>2
  <2>3. CASE /\ pc'[r] \in {"group", "request"} /\ readyAt'[r] = now
             /\ MaxSnapshotAge > 0 => now - manifest[r] <= MaxSnapshotAge
    <3>1. now # Never
      BY <1>1 DEF Never
    <3> QED
      BY <2>1, <2>3, <3>1 DEF RecoveryInv, NeedsRecovery
  <2> QED
    BY <1>9, <2>2, <2>3, Zenon DEF CheckReadiness, Ready, Refuse, Reply, Goto,
       HandlerTypes, GuardTypes
<1>10. ASSUME NEW r \in Requests,
              \/ TurnAway(r) \/ InvalidParams(r) \/ CheckGroup(r) \/ RecordRequested(r) \/ NotApproved(r)
              \/ ApprovedWhilePaused(r) \/ Approved(r)
              \/ TakeAttemptTime(r) \/ ReadAttempt(r) \/ SaveAttempt(r)
              \/ SendSQL(r) \/ FinishSQL(r)
       PROVE  RecoveryInv(r)'
  <2>1. UNCHANGED <<query, snapArg, newest, manifest, readyAt>>
    BY <1>10, Zenon DEF TurnAway, InvalidParams, CheckGroup, RecordRequested, NotApproved,
       ApprovedWhilePaused, Approved, TakeAttemptTime, ReadAttempt, SaveAttempt, SendSQL,
       FinishSQL
  <2>2. \/ pc'[r] \in {"done", "attempt", "count", "save"} /\ sent'[r] = sent[r]
        \/ pc[r] = "group" /\ pc'[r] = "request" /\ sent'[r] = sent[r]
        \/ pc[r] = "request" /\ pc'[r] = "wait" /\ sent'[r] = sent[r]
        \/ pc[r] = "wait" /\ pc'[r] = "execute" /\ sent'[r] = sent[r]
        \/ pc[r] = "execute" /\ pc'[r] = "running"
    BY <1>10, Zenon DEF TurnAway, InvalidParams, CheckGroup, RecordRequested, NotApproved,
       ApprovedWhilePaused, Approved, TakeAttemptTime, ReadAttempt, SaveAttempt, SendSQL,
       FinishSQL, Refuse, CountThenReply, Reply, Goto, HandlerTypes
  <2> QED
    BY <1>3, <2>1, <2>2
<1>11. ASSUME NEW r \in Requests, OwnStep(r)
       PROVE  RecoveryInv(r)'
  BY <1>6, <1>7, <1>8, <1>9, <1>10, <1>11 DEF OwnStep, HandlerStep
<1> QED
  BY <1>4, <1>5, <1>11, HandlerOrNot


----------------------------------------------------------------------------
(* Everything together: what the handlers and the guards rely on.          *)

HandlersOK ==
  Engine!EngineInv /\ HandlerTypes /\ \A r \in Requests : HandlerOK(r)

GuardsOK ==
  GuardTypes /\ SidecarInv /\ \A r \in Requests : PauseInv(r) /\ RecoveryInv(r)

(* A gateway that has just started is in order, ...                        *)
LEMMA StartsInOrder ==
  ASSUME Init, Engine!EngineInv
  PROVE  HandlersOK /\ GuardsOK
<1>1. HandlerTypes
  BY DEF Init, HandlerTypes
<1>2. ASSUME NEW r \in Requests PROVE HandlerOK(r)
  BY DEF Init, HandlerOK, AuditInv, VerdictInv, RowInv, Engine!Init, Engine!None
<1>3. GuardTypes /\ SidecarInv
  <2>1. now = 0 /\ GuardTypes
    <3>1. now = 0 /\ paused \in BOOLEAN /\ cleared \subseteq Requests
      BY Zenon DEF Init, Behavior!Init
    <3>3. /\ snapArg \in [Requests -> Nat] /\ newest \in [Requests -> Nat]
          /\ latest \in [Tables -> Nat]
      BY DEF Init
    <3>4. /\ manifest \in [Requests -> Nat \cup {Never}]
          /\ readyAt \in [Requests -> Nat \cup {Never}]
          /\ latestAt \in [Tables -> Nat \cup {Never}]
          /\ health \in [ok : BOOLEAN, at : Nat \cup {Never}]
      BY DEF Init
    <3> QED
      BY <3>1, <3>3, <3>4 DEF GuardTypes
  <2>2. ASSUME NEW t \in Tables PROVE latest[t] = 0 /\ latestAt[t] = -1
    BY <2>2 DEF Init, Never
  <2> QED
    BY <2>1, <2>2 DEF SidecarInv
<1>4. ASSUME NEW r \in Requests PROVE PauseInv(r) /\ RecoveryInv(r)
  <2>1. pc[r] = "new" /\ sent[r] = FALSE /\ manifest[r] = -1 /\ now = 0
    BY Zenon DEF Init, Behavior!Init, Never
  <2> QED
    BY <2>1 DEF PauseInv, PastPauseCheck, RecoveryInv
<1> QED
  BY <1>1, <1>2, <1>3, <1>4 DEF HandlersOK, GuardsOK

(* ... and every step keeps it in order.                                   *)
LEMMA StaysInOrder ==
  ASSUME HandlersOK, GuardsOK, Engine!EngineInv', [Next]_vars
  PROVE  HandlersOK' /\ GuardsOK'
<1>1. HandlerTypes /\ GuardTypes /\ SidecarInv /\ Engine!EngineInv
  BY DEF HandlersOK, GuardsOK
<1>2. \A r \in Requests : HandlerOK(r) /\ EngineFrame(r)
  BY <1>1, EngineFramed DEF HandlersOK, Engine!EngineInv
<1>3. HandlerTypes' /\ GuardTypes' /\ SidecarInv'
  BY <1>1, HandlerTypesKept, GuardTypesKept, SidecarKept
<1>4. \A r \in Requests : HandlerOK(r)'
  BY <1>1, <1>2, HandlerKept
<1>5. \A r \in Requests : PauseInv(r)'
  BY <1>1, PauseKept DEF GuardsOK
<1>6. \A r \in Requests : RecoveryInv(r)'
  BY <1>1, <1>2, RecoveryKept DEF GuardsOK, HandlerOK
<1> QED
  BY <1>3, <1>4, <1>5, <1>6 DEF HandlersOK, GuardsOK

(* A handler's account of its request is a true account of the audit log,  *)
LEMMA AuditFollows == HandlersOK => AuditTellsTheTruth
<1>1. ASSUME NEW r \in Requests, AuditInv(r)
      PROVE  /\ reply[r] \in {"blocked", "denied"} => audit[r] = <<FALSE>> /\ ~sent[r]
             /\ reply[r] \in {"failed", "executed"} => audit[r] = <<TRUE>>
             /\ sent[r] => audit[r] = <<TRUE>>
             /\ Len(audit[r]) <= 1
  <2>1. <<TRUE>> # <<FALSE>>
    OBVIOUS
  <2>2. Len(audit[r]) <= 1
    <3>1. Len(<<>>) <= 1 /\ Len(<<TRUE>>) <= 1 /\ Len(<<FALSE>>) <= 1
      OBVIOUS
    <3> QED
      BY <1>1, <3>1, Zenon DEF AuditInv
  <2> QED
    BY <1>1, <2>1, <2>2, Zenon DEF AuditInv
<1> QED
  BY <1>1, Zenon DEF HandlersOK, HandlerOK, AuditTellsTheTruth

(* and of the row in table approvals.                                      *)
LEMMA RowFollows == HandlersOK => RowTellsTheTruth
<1>1. <<TRUE>> # <<FALSE>>
  OBVIOUS
<1>2. ASSUME NEW r \in Requests, HandlerOK(r)
      PROVE  /\ approvals[r] \in {"denied", "timeout", "paused"} => ~sent[r]
             /\ approvals[r] = "approved" => first[r] = "approve" /\ audit[r] = <<TRUE>>
             /\ approvals[r] = "denied" => first[r] = "deny"
             /\ sent[r] /\ ActionOf(r) = "approve" => approvals[r] \in {"pending", "approved"}
  <2>1. approvals[r] \in {"denied", "timeout", "paused"} => audit[r] = <<FALSE>>
    BY <1>2, Zenon DEF HandlerOK, RowInv
  <2>2. sent[r] => audit[r] = <<TRUE>>
    BY <1>2, Zenon DEF HandlerOK, AuditInv
  <2>3. sent[r] /\ ActionOf(r) = "approve" => approvals[r] \in {"pending", "approved"}
    BY <1>2, Zenon DEF HandlerOK, RowInv
  <2> QED
    BY <1>1, <1>2, <2>1, <2>2, <2>3, Zenon DEF HandlerOK, RowInv
<1> QED
  BY <1>2, Zenon DEF HandlersOK, RowTellsTheTruth

(* SQL goes out from one place, past the pause check.                      *)
LEMMA SendingFollows ==
  ASSUME HandlersOK, GuardsOK, [Next]_vars
  PROVE  \A r \in Requests :
           ~sent[r] /\ sent'[r] /\ BlocksRisk(query[r].risk) => r \in cleared
<1>1. ASSUME NEW r \in Requests, ~sent[r], sent'[r]
      PROVE  pc[r] = "execute"
  <2>1. PICK d \in Requests : OwnStep(d)
    BY <1>1, HandlerOrNot, Zenon DEF handlerVars, Crash
  <2>2. d = r
    BY <1>1, <2>1, OthersUntouched, Zenon DEF HandlersOK, GuardsOK
  <2>3. SendSQL(r)
    BY <1>1, <2>1, <2>2, Zenon DEF OwnStep, TurnAway, InvalidParams, Arrive, HandlerStep,
       Quarantine, VerifyLatest, CheckReadiness, CheckGroup, RecordRequested, NotApproved,
       ApprovedWhilePaused, Approved, TakeAttemptTime, ReadAttempt, SaveAttempt, FinishSQL
  <2> QED
    BY <2>3 DEF SendSQL
<1> QED
  BY <1>1 DEF GuardsOK, PauseInv, PastPauseCheck
=============================================================================
