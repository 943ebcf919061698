------------------------------ MODULE LiveStatus ------------------------------
(***************************************************************************)
(* What the live subsystem promises a reader of /api/servers/status: one   *)
(* status per registered server, changed atomically.  A server that is     *)
(* registered has been heard of never, is online with the time of its last *)
(* report, or is offline with that time.  Only an enabled server reports,  *)
(* and only a server that has been silent for longer than OfflineAfter     *)
(* goes offline.  Module Live shows that the coordinator, the in-memory    *)
(* store and the database implement it.                                    *)
(***************************************************************************)
EXTENDS Integers

CONSTANTS Servers,       \* the server ids the database may hand out
          Names,         \* the names an administrator may give a server
          OfflineAfter   \* how long a server may be silent and stay online

VARIABLES status,        \* what a status read answers for each id
          now            \* the server's clock

statusVars == <<status, now>>

\* The answer for an id that is not registered.
Absent == [seen |-> "absent"]

\* A registered server: its registry row and what is known of its reports.
Known == [seen: {"never", "online", "offline"}, name: Names,
          enabled: BOOLEAN, at: Nat]

StatusInit ==
    /\ status = [s \in Servers |-> Absent]
    /\ now = 0

Register(s, n) ==
    /\ status[s] = Absent
    /\ status' = [status EXCEPT
         ![s] = [seen |-> "never", name |-> n, enabled |-> TRUE, at |-> 0]]
    /\ UNCHANGED now

\* Renaming, enabling and disabling touch neither the time nor the verdict.
Edit(s, n, e) ==
    /\ status[s] # Absent
    /\ status' = [status EXCEPT ![s] = [seen |-> @.seen, name |-> n,
                                       enabled |-> e, at |-> @.at]]
    /\ UNCHANGED now

Remove(s) ==
    /\ status[s] # Absent
    /\ status' = [status EXCEPT ![s] = Absent]
    /\ UNCHANGED now

\* A report received at time t brings an enabled server online.
Report(s, t) ==
    /\ status[s] # Absent
    /\ status[s].enabled
    /\ status' = [status EXCEPT ![s] = [seen |-> "online", name |-> @.name,
                                       enabled |-> @.enabled, at |-> t]]
    /\ UNCHANGED now

\* Every server of S has been silent for too long; all go offline at once.
Expire(S) ==
    /\ \A s \in S : /\ status[s].seen = "online"
                    /\ status[s].at + OfflineAfter < now
    /\ status' = [s \in Servers |->
         IF s \in S THEN [seen |-> "offline", name |-> status[s].name,
                          enabled |-> status[s].enabled, at |-> status[s].at]
         ELSE status[s]]
    /\ UNCHANGED now

\* The process restarts: what was heard is forgotten, the registry is not.
Forget ==
    /\ status' = [s \in Servers |->
         IF status[s] = Absent THEN Absent
         ELSE [seen |-> "never", name |-> status[s].name,
               enabled |-> status[s].enabled, at |-> 0]]
    /\ UNCHANGED now

Advance ==
    /\ now' = now + 1
    /\ UNCHANGED status

StatusNext ==
    \/ \E s \in Servers, n \in Names : Register(s, n)
    \/ \E s \in Servers, n \in Names, e \in BOOLEAN : Edit(s, n, e)
    \/ \E s \in Servers : Remove(s)
    \/ \E s \in Servers, t \in 0..now : Report(s, t)
    \/ \E S \in SUBSET Servers : Expire(S)
    \/ Forget
    \/ Advance

StatusSpec == StatusInit /\ [][StatusNext]_statusVars
===============================================================================
