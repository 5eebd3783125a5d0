-------------------------- MODULE ApprovalContract --------------------------
(***************************************************************************)
(* What the approval engine promises to the handler that waits and to the  *)
(* operators that decide, with no channel, map, timer or goroutine in it.  *)
(*                                                                         *)
(* A request is opened once.  Operators hand in decisions; the first one   *)
(* that is accepted is the verdict.  The request is resolved at most once, *)
(* by the verdict, by its deadline or because its caller went away; a      *)
(* process crash before that loses it for good.                            *)
(***************************************************************************)

CONSTANT Requests       \* approval ids; generateID never hands one out twice

VARIABLES status,       \* what the waiting handler has been told
          verdict       \* the first decision accepted for the request

contractVars == <<status, verdict>>

Decision == {"approve", "deny"}
Resolution == {"approved", "denied", "timeout", "cancelled"}

Init == /\ status = [r \in Requests |-> "unknown"]
        /\ verdict = [r \in Requests |-> "none"]

Open(r) == /\ status[r] = "unknown"
           /\ status' = [status EXCEPT ![r] = "open"]
           /\ UNCHANGED verdict

(* A decision may still be accepted when the request has just been         *)
(* resolved some other way; it then has no effect.                         *)
Accept(r, d) == /\ status[r] # "unknown"
                /\ verdict[r] = "none"
                /\ verdict' = [verdict EXCEPT ![r] = d]
                /\ UNCHANGED status

Resolve(r, s) == /\ status[r] = "open"
                 /\ s = "approved" => verdict[r] = "approve"
                 /\ s = "denied" => verdict[r] = "deny"
                 /\ status' = [status EXCEPT ![r] = s]
                 /\ UNCHANGED verdict

(* A crash of the process forgets every open request at once.              *)
Crash == /\ status' = [r \in Requests |-> IF status[r] = "open" THEN "lost"
                                                             ELSE status[r]]
         /\ UNCHANGED verdict

Next == \/ \E r \in Requests :
             \/ Open(r)
             \/ \E d \in Decision : Accept(r, d)
             \/ \E s \in Resolution : Resolve(r, s)
        \/ Crash

Safety == Init /\ [][Next]_contractVars

(* An open request does not stay open for ever.                            *)
Answered == \A r \in Requests : status[r] = "open" ~> status[r] # "open"

Spec == Safety /\ Answered
=============================================================================
