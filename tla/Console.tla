-------------------------------- MODULE Console --------------------------------
(***************************************************************************)
(* The whole console: behind the door of Session, DashboardRouter with     *)
(* ServerAdmin.  The door never closes again: an expired session shows as  *)
(* requests that fail.                                                     *)
(***************************************************************************)
EXTENDS Session, ServerAdmin

vars == <<sessionVars, adminVars>>

Init == SessionInit /\ AdminInit

App ==
    \/ view # "authenticated" /\ SessionNext /\ UNCHANGED adminVars
    \/ view = "authenticated" /\ AdminNext /\ UNCHANGED sessionVars

Spec == Init /\ [][App]_vars
================================================================================
