------------------------------ MODULE AlertCycle ------------------------------
(***************************************************************************)
(* What the alert evaluator promises of every rule: notifications come in  *)
(* episodes.  An episode opens with one firing notification, closes with   *)
(* one recovery that names the same beginning, and a rule is firing        *)
(* exactly while its last notification says so.  Reminders repeat the      *)
(* firing notification and change nothing.                                 *)
(***************************************************************************)
EXTENDS Naturals

CONSTANTS Rules,
          Nil     \* no notification yet

VARIABLES alerting,  \* rules that are firing
          episode    \* id -> last notification: its kind and its beginning

cycleVars == <<alerting, episode>>

Init ==
    /\ alerting = {}
    /\ episode = [r \in Rules |-> Nil]

Open(r) ==
    /\ r \notin alerting
    /\ alerting' = alerting \cup {r}
    /\ episode'[r] # Nil
    /\ episode'[r].status = "firing"
    /\ episode'[r].startedAt \in Nat
    /\ episode' = [episode EXCEPT ![r] = episode'[r]]

Close(r) ==
    /\ r \in alerting
    /\ alerting' = alerting \ {r}
    /\ episode' = [episode EXCEPT ![r] =
         [status |-> "recovered", startedAt |-> episode[r].startedAt]]

\* Rules are deleted with all their history.
Forget(gone) ==
    /\ alerting' = alerting \ gone
    /\ episode' = [r \in Rules |-> IF r \in gone THEN Nil ELSE episode[r]]

Next == \/ \E r \in Rules : Open(r) \/ Close(r)
        \/ \E gone \in SUBSET Rules : Forget(gone)

Spec == Init /\ [][Next]_cycleVars
===============================================================================
