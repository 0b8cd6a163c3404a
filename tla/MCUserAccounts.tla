---------------------------- MODULE MCUserAccounts ----------------------------
\* Instances of UserAccounts for TLC.
EXTENDS UserAccounts, TLC

CONSTANTS e1, e2, p1, p2

RequestSymmetry == Permutations(Requests)

\* Who was there first: one choice, or any.
MCFounders == {[s \in Schemas |-> [email |-> e1, password |-> p1]]}
MCAnyFounders == [Schemas -> [email : Emails, password : Passwords]]

\* An admin with the first one's email, and somebody else.
MCNewUsers ==
    {[email |-> e1, password |-> p1, role |-> "Admin", is_active |-> TRUE],
     [email |-> e2, password |-> p1, role |-> "Sales", is_active |-> TRUE]}

\* Each column on its own, and none of them.
NoPatch == [email |-> None, password |-> None, role |-> None, is_active |-> None]
MCPatches ==
    {NoPatch,
     [NoPatch EXCEPT !.email = e2],
     [NoPatch EXCEPT !.password = p2],
     [NoPatch EXCEPT !.role = "Sales"],
     [NoPatch EXCEPT !.is_active = TRUE]}

\* For the logins: what makes a token or a password stale.
MCStalePatches ==
    {[NoPatch EXCEPT !.password = p2, !.role = "Sales"],
     [NoPatch EXCEPT !.role = "Sales"],
     [NoPatch EXCEPT !.is_active = FALSE]}
================================================================================
