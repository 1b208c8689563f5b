----------------------------- MODULE HookPolling -----------------------------
(***************************************************************************)
(* extensibility/client.py, call_hook: start a workflow, then ask for its  *)
(* status until it ends or the time is up.  The workflow goes on while the *)
(* client sleeps or waits for an answer.  Time is counted in steps of the  *)
(* poll interval.                                                          *)
(***************************************************************************)
EXTENDS Integers

CONSTANTS
    HookTimeout,  \* hook.timeout
    RequestTime   \* bound: how long one request takes at most

HookAssumption == HookTimeout \in Nat /\ RequestTime \in Nat

VARIABLES
    hookPc,
    elapsed,    \* since the call began
    deadline,   \* the same for the deadline, once it is set
    workflow,   \* its status in the service
    status      \* the status the client has read last

hookVars == <<hookPc, elapsed, deadline, workflow, status>>

Interval == 1   \* _HOOK_POLL_INTERVAL
Running == {"running", "waiting"}           \* and "new", "started"
Terminal == {"error", "canceled", "crashed"}
Statuses == Running \cup Terminal \cup {"success", "unknown"}

Init ==
    /\ hookPc = "returned"
    /\ elapsed = 0 /\ deadline = 0
    /\ workflow \in Statuses /\ status = workflow

\* while time passes, the workflow may end, at any moment before the answer
Passes(n) ==
    /\ elapsed' = elapsed + n
    /\ workflow' \in IF workflow \in Running THEN Statuses ELSE {workflow}

Call ==
    /\ hookPc \in {"returned", "raised"}
    /\ hookPc' = "execute"
    /\ elapsed' = 0 /\ deadline' = 0
    /\ workflow' = "running" /\ status' = "running"

\* execute-workflow: of the terminal statuses, "unknown" counts here only
Execute ==
    /\ hookPc = "execute"
    /\ \E n \in 0..RequestTime : Passes(n)
    /\ status' = workflow'
    /\ IF status' \in Terminal \cup {"unknown"}
       THEN hookPc' = "raised" /\ UNCHANGED deadline
       ELSE hookPc' = "loop" /\ deadline' = elapsed' + HookTimeout

\* mutant: every answer sets a new deadline
LoopAnew ==
    /\ hookPc = "loop"
    /\ hookPc' = "poll" /\ deadline' = elapsed + HookTimeout
    /\ Passes(Interval)
    /\ UNCHANGED status

\* the deadline is tested before the sleep
Loop ==
    /\ hookPc = "loop"
    /\ IF elapsed < deadline THEN hookPc' = "poll" /\ Passes(Interval)
       ELSE hookPc' = "raised" /\ UNCHANGED <<elapsed, workflow>>
    /\ UNCHANGED <<deadline, status>>

Poll ==
    /\ hookPc = "poll"
    /\ \E n \in 0..RequestTime : Passes(n)
    /\ status' = workflow'
    /\ hookPc' = CASE status' = "success"     -> "returned"
                   [] status' \in Terminal     -> "raised"
                   [] OTHER                    -> "loop"
    /\ UNCHANGED deadline

\* a request fails, or the answer cannot be read
RequestFails ==
    /\ hookPc \in {"execute", "poll"}
    /\ hookPc' = "raised"
    /\ \E n \in 0..RequestTime : Passes(n)
    /\ UNCHANGED <<deadline, status>>

Next == Call \/ Execute \/ Loop \/ Poll \/ RequestFails

Spec == Init /\ [][Next]_hookVars

-----------------------------------------------------------------------------
(* Properties *)

TypeOK ==
    /\ hookPc \in {"execute", "loop", "poll", "returned", "raised"}
    /\ elapsed \in Nat /\ deadline \in Nat
    /\ workflow \in Statuses /\ status \in Statuses

\* call_hook takes longer than hook.timeout, but by a known time: the request that
\* starts the workflow, the last sleep, and the last request for the status.  And
\* it returns a message only of a workflow that has succeeded.
CallsEndInTime ==
    /\ hookPc # "execute" => elapsed <= RequestTime + HookTimeout + Interval + RequestTime
    /\ hookPc = "returned" => workflow = "success" \/ elapsed = 0
=============================================================================
