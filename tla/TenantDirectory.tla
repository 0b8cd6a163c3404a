---------------------------- MODULE TenantDirectory ----------------------------
(***************************************************************************)
(* What the tenant component promises its callers: a tenant appears in one *)
(* atomic step, already usable (its schema migrated, its admin able to log *)
(* in), and is switched on or off in one atomic step.  There is no state   *)
(* here for a tenant that is visible and not usable.  TenantProvisioning   *)
(* implements this module, with a state "broken" that would have to be     *)
(* reached for the implementation to fail.                                 *)
(***************************************************************************)

CONSTANTS
    Requests,   \* identities of requests
    Ids,        \* tenant ids
    None        \* no request

VARIABLES
    dir,        \* "absent", "active" or "inactive", for each tenant id
    goal,       \* what each request asks for, None before it arrives
    effect,     \* has the request taken effect?
    verdict     \* how it was answered

dirVars == <<dir, goal, effect, verdict>>

Goals == {"create", "activate", "deactivate", "update"}

Init ==
    /\ dir = [i \in Ids |-> "absent"]
    /\ goal = [r \in Requests |-> None]
    /\ effect = [r \in Requests |-> FALSE]
    /\ verdict = [r \in Requests |-> "none"]

Ask(r) ==
    /\ goal[r] = None
    /\ \E g \in Goals : goal' = [goal EXCEPT ![r] = g]
    /\ UNCHANGED <<dir, effect, verdict>>

Pending(r) == goal[r] # None /\ ~effect[r] /\ verdict[r] = "none"

Create(r) ==
    /\ Pending(r) /\ goal[r] = "create"
    /\ \E i \in Ids : dir[i] = "absent" /\ dir' = [dir EXCEPT ![i] = "active"]
    /\ effect' = [effect EXCEPT ![r] = TRUE]
    /\ UNCHANGED goal

\* Switching to the state the tenant is already in counts as done.
Switch(r) ==
    /\ Pending(r) /\ goal[r] \in {"activate", "deactivate", "update"}
    /\ \E i \in Ids :
          /\ dir[i] # "absent"
          /\ dir' = [dir EXCEPT ![i] = CASE goal[r] = "activate"   -> "active"
                                         [] goal[r] = "deactivate" -> "inactive"
                                         [] OTHER                  -> @]
    /\ effect' = [effect EXCEPT ![r] = TRUE]
    /\ UNCHANGED goal

\* Success is only claimed for what has taken effect.  An error may be answered
\* either way: the caller of a failed creation cannot know.
Answer(r) ==
    /\ goal[r] # None /\ verdict[r] = "none"
    /\ \E v \in {"ok", "notFound", "serverError"} :
          /\ v = "ok" => effect[r]
          /\ v = "notFound" => ~effect[r]
          /\ verdict' = [verdict EXCEPT ![r] = v]
    /\ UNCHANGED <<dir, goal, effect>>

\* Taking effect and learning the answer may coincide.
TakeEffect(r) ==
    /\ Create(r) \/ Switch(r)
    /\ verdict' \in {verdict, [verdict EXCEPT ![r] = "ok"],
                     [verdict EXCEPT ![r] = "serverError"]}

\* The operator may clear the directory.
Clear ==
    /\ dir' = [i \in Ids |-> "absent"]
    /\ UNCHANGED <<goal, effect, verdict>>

Next == Clear \/ \E r \in Requests : Ask(r) \/ TakeEffect(r) \/ Answer(r)

Spec == Init /\ [][Next]_dirVars
================================================================================
