---------------------------- MODULE SingleWriter ----------------------------
(***************************************************************************)
(* What the account coordinator promises to the live engines: at any time  *)
(* at most one requester is entitled to mutate the exchange account, and   *)
(* nobody mutates it on behalf of anybody else.                            *)
(***************************************************************************)
CONSTANTS Requester, Nobody

VARIABLES
  grant,    \* the requester entitled to mutate the account, or Nobody
  writing   \* the requesters on whose behalf a mutation is under way

swVars == <<grant, writing>>

Init == grant = Nobody /\ writing = {}

\* A requester obtains the account and starts to mutate it.
Grant(r) == grant = Nobody /\ grant' = r /\ writing' = {r}

\* The holder waits for an answer: nothing is being mutated meanwhile.
Pause(r) == grant = r /\ writing' = {} /\ UNCHANGED grant

\* The holder, or work it handed to somebody else, mutates the account again.
Resume(r) == grant = r /\ writing' = {r} /\ UNCHANGED grant

\* The holder gives the account back, with nothing under way.
Release(r) == grant = r /\ grant' = Nobody /\ writing' = {}

Next == \E r \in Requester : Grant(r) \/ Pause(r) \/ Resume(r) \/ Release(r)

Spec == Init /\ [][Next]_swVars

\* Only the requester that was granted the account has it mutated on its behalf.
WriterIsGranted == writing \subseteq ({grant} \ {Nobody})
=============================================================================
