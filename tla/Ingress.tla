------------------------------ MODULE Ingress ------------------------------
(***************************************************************************)
(* The webhook between scout and pipeline: HttpJsonWebhookNotifier.send,   *)
(* which posts an alert again after a 5xx, a timeout or a lost connection  *)
(* (scripts/replay_alert.py does so by hand), and handle_alert of          *)
(* ResearcherIngressService, whose three transactions are three steps.     *)
(* receive_alert calls handle_alert inside the event loop, so one request  *)
(* is handled at a time.  Requests that fail authorisation, signature or   *)
(* validation return before any state changes and are no step.             *)
(***************************************************************************)
EXTENDS StageWorker

CONSTANT MaxSends   \* bound on posts of one alert: max_retries + 1, and replays

IngressInit == req = <<>> /\ sends = [a \in Alerts |-> 0] /\ accepted = {}

ingressRest == <<lease, pc, mem, clicks, broker>>

\* A post of alert a arrives.  The scout posts again also when the 202 got lost.
Post(a) ==
    /\ req = <<>> /\ sends[a] < MaxSends
    /\ sends' = [sends EXCEPT ![a] = @ + 1]
    /\ req' = <<[alert |-> a, call |-> "ensure_trace"]>>
    /\ UNCHANGED <<now, tables, records, accepted, budget, ingressRest>>

InCall(c) == req # <<>> /\ req[1].call = c

HandleEnsureTrace ==
    /\ InCall("ensure_trace")
    /\ EnsureTrace(req[1].alert)
    /\ req' = [req EXCEPT ![1].call = "upsert_message"]
    /\ UNCHANGED <<now, tables, messages, evidence, snapshots, candidates, approvals, orders,
                   observations, sends, accepted, budget, ingressRest>>

IngestMessage(a) == Message(<<0, a>>, a, "ingest", None, IngestKey(a), "IngestedAlert", "", None, 0)

\* A message that is already stored skips enqueue_job.
HandleUpsertMessage ==
    /\ InCall("upsert_message")
    /\ LET m == IngestMessage(req[1].alert)
       IN /\ UpsertMessage(m)
          /\ req' = [req EXCEPT ![1].call = IF IsStored(m.idempotency_key) THEN "respond"
                                            ELSE "enqueue_job"]
    /\ UNCHANGED <<now, tables, traces, evidence, snapshots, candidates, approvals, orders,
                   observations, sends, accepted, budget, ingressRest>>

HandleEnqueueJob ==
    /\ InCall("enqueue_job")
    /\ EnqueueJob("research", <<0, req[1].alert>>)
    /\ req' = [req EXCEPT ![1].call = "respond"]
    /\ UNCHANGED <<now, records, sends, accepted, budget, ingressRest>>

Respond202 ==
    /\ InCall("respond")
    /\ accepted' = accepted \cup {req[1].alert}
    /\ req' = <<>>
    /\ UNCHANGED <<now, tables, records, sends, budget, ingressRest>>

\* A transaction raises (500) or the server process dies: the request is over,
\* what was committed stays, and the scout sees a failure.
IngressFault ==
    /\ req # <<>> /\ ~InCall("respond") /\ faults < MaxFaults
    /\ faults' = faults + 1
    /\ req' = <<>>
    /\ UNCHANGED <<now, tables, records, sends, accepted, crashes, ingressRest>>

IngressHandler == \/ HandleEnsureTrace \/ HandleUpsertMessage \/ HandleEnqueueJob \/ Respond202

IngressNext == \/ \E a \in Alerts : Post(a)
               \/ IngressHandler
               \/ IngressFault
=============================================================================
