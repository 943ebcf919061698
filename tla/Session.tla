-------------------------------- MODULE Session --------------------------------
(***************************************************************************)
(* The door of the console: AuthGate decides from two requests which page  *)
(* the browser shows, SetupPage creates the administrator and LoginPage    *)
(* opens a session.  Other browsers may be setting up the same fresh       *)
(* installation.  A wrong password, a bad form and a broken connection are *)
(* all a request that fails.                                               *)
(***************************************************************************)
EXTENDS Naturals, FiniteSets

CONSTANTS
    Browsers,        \* everyone who may post a setup
    tab              \* the browser whose pages are modelled

ASSUME TabAssumption == tab \in Browsers

VARIABLES
    administrators,  \* the rows of the admins table, by the browser that made them
    setups,          \* what CreateAdmin is doing for every browser
    cookie,          \* the session cookie of tab
    view, setupComplete, \* AuthGate
    resolving,       \* the request resolveAuthView waits for
    submitting, formError \* SetupPage or LoginPage

accounts == <<administrators, setups>>
gate == <<view, setupComplete, resolving>>
entry == <<submitting, formError>>
sessionVars == <<accounts, cookie, gate, entry>>

SetupRequired == administrators = {}

\* A fresh installation, or one set up earlier by another browser.
SessionInit ==
    /\ \/ administrators = {} /\ cookie = "none"
       \/ /\ \E b \in Browsers \ {tab} : administrators = {b}
          /\ cookie \in {"none", "valid", "expired"}
    /\ setups = [b \in Browsers |->
                   IF b \in administrators THEN "created" ELSE "none"]
    /\ view = "loading" /\ setupComplete = FALSE /\ resolving = "status"
    /\ submitting = FALSE /\ formError = FALSE

(***************************************************************************)
(* CreateAdmin: the password is hashed between the check and the insertion.*)
(***************************************************************************)
Post(b) ==
    /\ setups[b] \in {"none", "refused", "created"}
    /\ setups' = [setups EXCEPT ![b] = "posted"]

CheckRequired(b) ==
    /\ setups[b] = "posted"
    /\ setups' = [setups EXCEPT ![b] =
                    IF SetupRequired THEN "checked" ELSE "refused"]
    /\ UNCHANGED <<administrators, cookie, gate, entry>>

\* Variant: the row's key is not fixed, so that a second one fits.
InsertAnother(b) ==
    /\ setups[b] = "checked"
    /\ administrators' = administrators \cup {b}
    /\ setups' = [setups EXCEPT ![b] = "created"]
    /\ UNCHANGED <<cookie, gate, entry>>

\* The key id = 1 lets one row in.
InsertAdmin(b) ==
    /\ setups[b] = "checked"
    /\ \/ /\ administrators = {} /\ administrators' = {b}
          /\ setups' = [setups EXCEPT ![b] = "created"]
       \/ /\ administrators # {} /\ UNCHANGED administrators
          /\ setups' = [setups EXCEPT ![b] = "refused"]
    /\ UNCHANGED <<cookie, gate, entry>>

\* Another browser's submission.
OtherPosts(b) ==
    /\ b # tab /\ Post(b)
    /\ UNCHANGED <<administrators, cookie, gate, entry>>

(***************************************************************************)
(* AuthGate.                                                               *)
(***************************************************************************)
ResolveStatus ==
    /\ resolving = "status"
    /\ \/ SetupRequired /\ view' = "setup" /\ resolving' = "no"
       \/ ~SetupRequired /\ UNCHANGED view /\ resolving' = "me"
    /\ UNCHANGED <<accounts, cookie, setupComplete, entry>>

ResolveMe ==
    /\ resolving = "me" /\ resolving' = "no"
    /\ view' = IF cookie = "valid" THEN "authenticated" ELSE "login"
    /\ setupComplete' = FALSE
    /\ UNCHANGED <<accounts, cookie, entry>>

ResolveFails ==
    /\ resolving # "no" /\ resolving' = "no"
    /\ view' = "error"
    /\ UNCHANGED <<accounts, cookie, setupComplete, entry>>

RetryGate ==
    /\ view = "error" /\ view' = "loading" /\ resolving' = "status"
    /\ UNCHANGED <<accounts, cookie, setupComplete, entry>>

(***************************************************************************)
(* The forms, disabled while they are submitted.                           *)
(***************************************************************************)
SubmitSetup ==
    /\ view = "setup" /\ ~submitting
    /\ Post(tab)
    /\ submitting' = TRUE /\ formError' = FALSE
    /\ UNCHANGED <<administrators, cookie, gate>>

SetupAnswered ==
    /\ view = "setup" /\ submitting
    /\ \/ /\ setups[tab] = "created"
          /\ view' = "login" /\ setupComplete' = TRUE /\ formError' = FALSE
       \/ /\ setups[tab] = "refused"
          /\ formError' = TRUE /\ UNCHANGED <<view, setupComplete>>
    /\ submitting' = FALSE
    /\ UNCHANGED <<accounts, cookie, resolving>>

\* The connection breaks and the backend gives up, unless it was too late.
SetupFails ==
    /\ view = "setup" /\ submitting
    /\ submitting' = FALSE /\ formError' = TRUE
    /\ setups' = [setups EXCEPT ![tab] =
                    IF @ = "created" THEN "created" ELSE "none"]
    /\ UNCHANGED <<administrators, cookie, gate>>

SubmitLogin ==
    /\ view = "login" /\ ~submitting
    /\ submitting' = TRUE /\ formError' = FALSE
    /\ UNCHANGED <<accounts, cookie, gate>>

LoginAnswered ==
    /\ view = "login" /\ submitting /\ submitting' = FALSE
    /\ \/ ~SetupRequired /\ cookie' = "valid" /\ view' = "authenticated"
          /\ UNCHANGED formError
       \/ formError' = TRUE /\ UNCHANGED <<cookie, view>>
    /\ UNCHANGED <<accounts, setupComplete, resolving>>

\* Seven days after the login.
SessionEnds ==
    /\ cookie = "valid" /\ cookie' = "expired"
    /\ UNCHANGED <<accounts, gate, entry>>

SessionNext ==
    \/ \E b \in Browsers : CheckRequired(b) \/ InsertAdmin(b) \/ OtherPosts(b)
    \/ ResolveStatus \/ ResolveMe \/ ResolveFails \/ RetryGate
    \/ SubmitSetup \/ SetupAnswered \/ SetupFails
    \/ SubmitLogin \/ LoginAnswered \/ SessionEnds

\* However many browsers set up a fresh installation at the same time, one is
\* accepted and no other is told that it was (auth/service.go:49).
OneAdministrator ==
    /\ Cardinality(administrators) <= 1
    /\ \A b \in Browsers : setups[b] = "created" => b \in administrators
================================================================================
