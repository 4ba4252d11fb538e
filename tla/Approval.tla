------------------------------ MODULE Approval ------------------------------
(***************************************************************************)
(* ApprovalWorker.process_next, and the human side: ApprovalService.approve*)
(* and reject behind the executor's HTTP endpoints.                        *)
(***************************************************************************)
EXTENDS Executor

CONSTANT MaxClicks   \* bound on decisions of human approvers

\* POST /approval/{token}/approve and /reject: any request, at any time.
HumanDecides(r, status) ==
    /\ Len(clicks) < MaxClicks
    /\ DecideApproval(r, status)
    /\ clicks' = Append(clicks, [message_id |-> r.message_id, status |-> status])
    /\ UNCHANGED <<now, tables, traces, messages, evidence, snapshots, candidates, orders,
                   observations, lease, pc, mem, budget, req, sends, accepted, broker>>

Request(w) == RequestOf(Parent(w).message_id)

\* Mutant: a request nobody decided in time counts as approved.
ReadRequest_TimeoutApproves(w) ==
    /\ At(w, "read_request")
    /\ LET r == Request(w)
           call == CASE r.status = "requested" /\ r.expires_at > now -> "wait"
                     [] r.status = "rejected" -> "close"
                     [] OTHER -> "get_order"
       IN GotoWith(w, call, [NoLocals EXCEPT !.status = r.status])
    /\ UNCHANGED <<now, tables, records, env>>

\* The status read here decides the rest of process_next.  The branch for a
\* missing request is left out: see ApprovalJobHasRequest.
ReadRequest(w) ==
    /\ At(w, "read_request")
    /\ LET r == Request(w)
           expired == r.status = "requested" /\ r.expires_at <= now
           call == CASE expired -> "expire"
                     [] r.status = "requested" /\ ~expired -> "wait"
                     [] r.status = "approved" -> "get_order"
                     [] OTHER -> "close"
       IN GotoWith(w, call, [NoLocals EXCEPT !.status = r.status])
    /\ UNCHANGED <<now, tables, records, env>>

\* decide_approval(..., status="expired"): overwrites what was decided since.
ExpireRequest(w) ==
    /\ At(w, "expire")
    /\ DecideApproval(Request(w), "expired")
    /\ GotoWith(w, "close", [NoLocals EXCEPT !.status = "expired"])
    /\ UNCHANGED <<now, tables, traces, messages, evidence, snapshots, candidates, orders,
                   observations, env>>

\* Mutant: the return after complete_job_retry is missing.
WaitForApproval_FallsThrough(w) ==
    /\ At(w, "wait")
    /\ LET left == IF Request(w).expires_at > now THEN Request(w).expires_at - now ELSE 0
       IN CompleteJobRetry(Held(w), left, WaitAttempts)
    /\ Goto(w, "close")
    /\ UNCHANGED <<now, records, env>>

\* Sleep until the request expires; a decision does not wake the job.
WaitForApproval(w) ==
    /\ At(w, "wait")
    /\ LET left == IF Request(w).expires_at > now THEN Request(w).expires_at - now ELSE 0
       IN CompleteJobRetry(Held(w), left, WaitAttempts)
    /\ Leave(w)
    /\ UNCHANGED <<now, budget, records, env>>

\* rejected or expired: the stage ends without an order.
CloseApproval(w) ==
    /\ At(w, "close")
    /\ LET outcome == IF mem[w].status = "expired" THEN "expired" ELSE "cancelled"
       IN CompleteWithOutput(Held(w),
            Decision(w, "approval", ApprovalKey(Parent(w).message_id, mem[w].status), outcome,
                     Parent(w).candidate),
            NoStage, now, outcome)
    /\ Leave(w)
    /\ UNCHANGED <<now, budget, env>>

ApprovalStep(w) == \/ ReadRequest(w) \/ ExpireRequest(w) \/ WaitForApproval(w)
                   \/ CloseApproval(w)
=============================================================================
