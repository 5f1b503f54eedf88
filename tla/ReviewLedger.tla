----------------------------- MODULE ReviewLedger -----------------------------
(***************************************************************************)
(* What the review tables of the store promise, whatever fails around      *)
(* them: a request is opened once, and every decision is recorded together *)
(* with the status it gives its request, in one step, at most once.        *)
(***************************************************************************)
CONSTANTS Requests, Decisions

VARIABLES status,     \* of each request: "absent" before it is opened
          decisions   \* recorded <<request, decision>>

vars == <<status, decisions>>

Init == status = [r \in Requests |-> "absent"] /\ decisions = {}

Open(r) ==
  /\ status[r] = "absent"
  /\ status' = [status EXCEPT ![r] = "pending"]
  /\ UNCHANGED decisions

\* The status that each kind of decision stands for; d[2] is the kind of decision d.
Meaning(d) ==
  CASE d[2] \in {"approve", "approve_dry_run"} -> "approved"
    [] d[2] = "reject"                         -> "rejected"
    [] d[2] = "request_revision"               -> "revision_requested"
    [] d[2] = "require_rollback_plan"          -> "pending"

Decide(r, d) ==
  /\ status[r] # "absent" /\ <<r, d>> \notin decisions
  /\ status' = [status EXCEPT ![r] = Meaning(d)]
  /\ decisions' = decisions \cup {<<r, d>>}

Next == \E r \in Requests : Open(r) \/ \E d \in Decisions : Decide(r, d)

Spec == Init /\ [][Next]_vars
=============================================================================
