----------------------------- MODULE DicSession -----------------------------
(***************************************************************************)
(* The DIC session: who may submit the credentials, and when the session   *)
(* counts as authenticated.                                                *)
(*                                                                         *)
(* Two guarded entrances lead to one login: /bh dic reconnect in the       *)
(* coordinator (application.py) and, below it, reconnect_dic_session of    *)
(* the runtime, which start-up calls too.  Each has a lock and a latch     *)
(* "the outcome of a submission is unknown".  Probes and the login itself  *)
(* run one at a time on the page (module BrowserRuntime) and go on there   *)
(* when the caller is cancelled.                                           *)
(*                                                                         *)
(* Data: a session is "out" or belongs to the "expected" or to an "other"  *)
(* tenant; a page is the route class that auth.py tells apart.             *)
(***************************************************************************)
EXTENDS Integers

CONSTANTS
    Admins,     \* calls of /bh dic reconnect that passed role and flag checks
    Restarts    \* restarts of the process that are looked at

ASSUME SessionAssumption == Restarts \in Nat /\ {"startup", "none"} \cap Admins = {}

VARIABLES
    request,     \* where each reconnect stands
    appLock,     \* _dic_reconnect_lock of the coordinator: its holder
    appLatch,    \* _dic_reconnect_outcome_unknown of the coordinator
    runtimeLock, \* dic_reconnect_lock of the runtime: its holder
    runtimeLatch,\* dic_reconnect_outcome_unknown of the runtime
    page,        \* the operation on the page and its program counter
    web,         \* the tenant of the browser's session, as DIC sees it
    accepting,   \* the identity provider may still accept a submission
    late,        \* a company response of the previous document under way
    vault,       \* the session stored in the encrypted vault
    secretOn,    \* the pages on which the secret was put into the form
    unresolved,  \* a submission was made whose outcome nothing has shown yet
    blind,       \* ... and another one was made after it
    restarts

guardVars == <<request, appLock, appLatch, runtimeLock, runtimeLatch>>
loginVars == <<accepting, secretOn, unresolved, blind>>
sessionVars == <<guardVars, page, web, late, vault, restarts, loginVars>>

Requests == Admins \cup {"startup"}
Tenants == {"out", "expected", "other"}
Routes == {"dic_login", "pending", "email", "password", "password_other", "expired", "app", "foreign"}

NoOperation == [kind |-> "none", pc |-> "idle", owner |-> "none", otherwise |-> "none",
                seen |-> "none", fresh |-> TRUE]

SessionInit(expected) ==
    /\ request = [r \in Requests |-> IF r \in expected THEN "new" ELSE "ended"]
    /\ appLock = "none" /\ appLatch = FALSE
    /\ runtimeLock = "none" /\ runtimeLatch = FALSE
    /\ page = NoOperation
    /\ web = "out"
    /\ accepting = FALSE
    /\ late = "none"
    /\ vault = "none"
    /\ secretOn = {}
    /\ unresolved = FALSE /\ blind = FALSE
    /\ restarts = 0
-----------------------------------------------------------------------------
(* How a reconnect ends, in the runtime and, for an administrator, in the
   coordinator: "authenticated", "unknown", "failed" or "cancelled". *)
KeepsQuiet(r, outcome) == FALSE   \* fault: an unknown outcome does not latch

Latches(r, outcome) == outcome = "unknown"

LeaveRuntime(r, outcome) ==
    /\ runtimeLock' = IF runtimeLock = r THEN "none" ELSE runtimeLock
    /\ runtimeLatch' = (runtimeLatch \/ Latches(r, outcome))

LeaveCoordinator(r, outcome) ==
    /\ request' = [request EXCEPT ![r] = "ended"]
    /\ appLock' = IF appLock = r THEN "none" ELSE appLock
    /\ appLatch' = IF r = "startup" THEN appLatch
                   ELSE CASE outcome \in {"unknown", "cancelled"} -> TRUE
                          [] outcome = "authenticated" -> FALSE
                          [] OTHER -> appLatch

Leave(r, outcome) == LeaveRuntime(r, outcome) /\ LeaveCoordinator(r, outcome)

GoTo(r, pc) ==
    /\ request' = [request EXCEPT ![r] = pc]
    /\ UNCHANGED <<appLock, appLatch, runtimeLock, runtimeLatch>>

(* reconnect_dic: a second administrator is refused, not queued. *)
EnterReconnect(r) ==
    /\ request[r] = "new"
    /\ \/ /\ r = "startup"
          /\ GoTo(r, "firstHealth")
       \/ /\ r # "startup" /\ appLock # "none"
          /\ GoTo(r, "ended")
       \/ /\ r # "startup" /\ appLock = "none"
          /\ appLock' = r
          /\ request' = [request EXCEPT ![r] = "firstHealth"]
          /\ UNCHANGED <<appLatch, runtimeLock, runtimeLatch>>
    /\ UNCHANGED <<page, web, late, vault, restarts, loginVars>>

(* A failing "started" audit event leaves the coordinator as it was. *)
AfterFirstHealth(r, alive) ==
    \/ /\ alive
       /\ Leave(r, "authenticated")
    \/ /\ ~alive /\ r # "startup" /\ appLatch
       /\ Leave(r, "failed")
    \/ /\ ~alive /\ (r = "startup" \/ ~appLatch)
       /\ GoTo(r, "lock")
    \/ /\ ~alive /\ r # "startup" /\ ~appLatch
       /\ Leave(r, "failed")

EnterRuntime(r) ==
    /\ request[r] = "lock" /\ runtimeLock = "none"
    /\ runtimeLock' = r
    /\ request' = [request EXCEPT ![r] = "health"]
    /\ UNCHANGED <<appLock, appLatch, runtimeLatch, page, web, late, vault, restarts, loginVars>>

(* ensure_authenticated probes once more; health() turns every error into
   "not authenticated", session_status() does not. *)
AfterStatus(r, result) ==
    CASE request[r] = "firstHealth" -> AfterFirstHealth(r, result = "yes")
      [] request[r] = "health" ->
            IF result = "yes" THEN GoTo(r, "confirm")
            ELSE IF runtimeLatch THEN Leave(r, "unknown")
            ELSE GoTo(r, "ensure")
      [] request[r] = "confirm" ->
            IF result = "yes" THEN Leave(r, "authenticated")
            ELSE IF result = "error" \/ r = "startup" THEN Leave(r, "failed")
            ELSE LeaveRuntime(r, "failed") /\ LeaveCoordinator(r, "unknown")
      [] request[r] = "ensure" ->
            IF result = "yes" THEN GoTo(r, "persist")
            ELSE IF result = "error" THEN Leave(r, "failed")
            ELSE GoTo(r, "login")

AfterLogin(r, result) ==
    IF result = "authenticated" THEN GoTo(r, "persist") ELSE Leave(r, result)

(* session_manager.persist, outside the page's queue; any failure after a
   login is an unknown outcome. *)
Persist(r) ==
    /\ request[r] = "persist"
    /\ \/ vault' = web /\ unresolved' = FALSE /\ Leave(r, "authenticated")
       \/ Leave(r, "unknown") /\ UNCHANGED <<vault, unresolved>>
    /\ UNCHANGED <<page, web, late, restarts, accepting, secretOn, blind>>

CancelSeen(r) == "cancelled"    \* fault: the caller just sees the cancellation

(* A cancelled caller: during the login and its persistence the outcome is
   unknown; before the handler is called nothing has happened. *)
CancelOutcome(r) ==
    CASE request[r] \in {"login", "persist"} -> "unknown"
      [] request[r] = "firstHealth" -> "failed"
      [] OTHER -> "cancelled"

CancelRequest(r) ==
    /\ request[r] \notin {"new", "ended"}
    /\ Leave(r, CancelOutcome(r))
    /\ page' = IF page.owner = r THEN [page EXCEPT !.owner = "none"] ELSE page
    /\ UNCHANGED <<web, late, vault, restarts, loginVars>>
-----------------------------------------------------------------------------
(* Operations on the page, one at a time.  "otherwise" is where a login goes
   on when its probe finds no session. *)
StartStatus(r) ==
    /\ page.kind = "none"
    /\ request[r] \in {"firstHealth", "health", "confirm", "ensure"}
    /\ page' = [NoOperation EXCEPT !.kind = "status", !.pc = "reset", !.owner = r]
    /\ UNCHANGED <<guardVars, web, late, vault, restarts, loginVars>>

(* /bh status, and every read of DIC, begin with the same probe. *)
StartOtherStatus ==
    /\ page.kind = "none"
    /\ page' = [NoOperation EXCEPT !.kind = "status", !.pc = "reset"]
    /\ UNCHANGED <<guardVars, web, late, vault, restarts, loginVars>>

StartLogin(r) ==
    /\ page.kind = "none"
    /\ request[r] = "login"
    /\ page' = [NoOperation EXCEPT !.kind = "login", !.pc = "open", !.owner = r]
    /\ UNCHANGED <<guardVars, web, late, vault, restarts, loginVars>>

(* The page keeps loading after the operation: its company response may
   still be under way when the next one starts. *)
EndStatus(result) ==
    /\ page' = NoOperation
    /\ late' \in {"none", web}
    /\ IF page.owner = "none" THEN UNCHANGED guardVars ELSE AfterStatus(page.owner, result)

EndLogin(result) ==
    /\ page' = NoOperation
    /\ late' \in {"none", web}
    /\ IF page.owner = "none" THEN UNCHANGED guardVars ELSE AfterLogin(page.owner, result)

Submitted == page.pc \in {"complete", "reset", "probe", "attest"} /\ page.otherwise = "unknown"

(* An error or a time-out: harmless before the submission, unknown after. *)
FailOperation ==
    /\ page.kind # "none"
    /\ IF page.kind = "status" THEN EndStatus("error")
       ELSE EndLogin(IF Submitted THEN "unknown" ELSE "failed")
    /\ UNCHANGED <<web, vault, restarts, loginVars>>

KeepOldDocument == late    \* fault: the old document is not left first

(* _probe_authenticated_session: about:blank ends the old document's
   requests before the capture is installed. *)
AfterReset == "none"

ResetDocument ==
    /\ page.pc = "reset"
    /\ late' = AfterReset
    /\ page' = [page EXCEPT !.pc = "probe"]
    /\ UNCHANGED <<guardVars, web, vault, restarts, loginVars>>

(* The first company response the capture sees is the only one it keeps. *)
CaptureCompany ==
    /\ page.pc = "probe"
    /\ \E old \in BOOLEAN, tenant \in ({web, late} \cap Tenants) :
         /\ tenant = IF old THEN late ELSE web
         /\ page' = [page EXCEPT !.pc = "attest", !.seen = tenant, !.fresh = ~old]
    /\ UNCHANGED <<guardVars, web, late, vault, restarts, loginVars>>

AnyTenant(seen) == seen # "out"    \* fault: any company response attests

Attested(seen) == seen = "expected"

(* The status read inside ensure_authenticated does not store the session:
   the login path does that itself. *)
Stores == page.owner \in Requests => request[page.owner] # "ensure"

(* Marker and attestation hold: the session counts as authenticated, and a
   status read stores it; failing to is an error of the read. *)
ConfirmSession ==
    /\ page.pc = "attest" /\ Attested(page.seen)
    /\ IF page.kind = "login"
       THEN EndLogin("authenticated") /\ UNCHANGED <<vault, unresolved>>
       ELSE /\ unresolved' = FALSE
            /\ \/ Stores /\ vault' = web /\ EndStatus("yes")
               \/ Stores /\ UNCHANGED vault /\ EndStatus("error")
               \/ ~Stores /\ UNCHANGED vault /\ EndStatus("yes")
    /\ UNCHANGED <<web, restarts, accepting, secretOn, blind>>

(* The page is redirected to a login route: no session. *)
FindNoSession ==
    /\ page.pc = "attest" /\ web = "out"
    /\ IF page.kind = "status" THEN EndStatus("no")
       ELSE IF page.otherwise = "unknown" THEN EndLogin("unknown")
       ELSE /\ page' = [page EXCEPT !.pc = page.otherwise, !.seen = "none"]
            /\ UNCHANGED <<guardVars, late>>
    /\ UNCHANGED <<web, vault, restarts, loginVars>>
-----------------------------------------------------------------------------
(* _authenticate_flow.  The page moves as it likes: each step finds it at some
   route, whatever route the step before it saw. *)
Attest(otherwise) == [page EXCEPT !.pc = "reset", !.otherwise = otherwise]

LoginStep(from, to) ==
    /\ page.kind = "login" /\ page.pc = from
    /\ page' = to
    /\ UNCHANGED <<guardVars, web, late, vault, restarts, loginVars>>

At(pc) == [page EXCEPT !.pc = pc]

OpenLogin(route) ==
    \/ LoginStep("open", At("entered"))
    \/ route = "dic_login" /\ LoginStep("entered", At("dicEmail"))
    \/ route = "app" /\ LoginStep("entered", Attest("entry"))
    \/ route \notin {"dic_login", "app", "expired"} /\ LoginStep("entered", At("entry"))
    \/ route = "dic_login" /\ LoginStep("dicEmail", At("dicSubmit"))
    \/ route = "dic_login" /\ LoginStep("dicSubmit", At("entry"))

(* _wait_for_teamsystem_entry_route, up to three times. *)
FindEntry(route) ==
    \/ route \in {"pending", "dic_login"} /\ \E pc \in {"entry", "entry2", "entry3"} : LoginStep(pc, At(pc))
    \/ route \in {"password", "password_other"}
         /\ \E pc \in {"entry", "entry2", "entry3"} : LoginStep(pc, At("bind"))
    \/ route = "email" /\ \E pc \in {"entry", "entry2"} : LoginStep(pc, At("email"))
    \/ route = "app" /\ LoginStep("entry", Attest("entry2"))
    \/ route = "app" /\ LoginStep("entry2", Attest("entry3"))

(* The e-mail form may disappear while it is looked for or filled. *)
EnterEmail(route) ==
    \/ route = "email" /\ LoginStep("email", At("emailSubmit"))
    \/ route = "email" /\ LoginStep("emailSubmit", At("emailSent"))
    \/ \E pc \in {"email", "emailSubmit", "emailSent"} :
         \/ route \in {"password", "password_other"} /\ LoginStep(pc, At("bind"))
         \/ route = "app" /\ LoginStep(pc, Attest("entry3"))
         \/ route \in {"pending", "dic_login"} /\ LoginStep(pc, At(pc))
    \/ route = "email" /\ LoginStep("emailSent", At("emailSent"))

(* _verify_teamsystem_account_binding, then the wait for the control. *)
BindAccount(route) ==
    \/ route = "password" /\ LoginStep("bind", At("control"))
    \/ route \in {"password", "password_other"} /\ LoginStep("control", At("fill"))
    \/ route = "email" /\ LoginStep("control", At("control"))

SamePage(route) == TRUE    \* fault: the script trusts the check made before it

(* The scripts check route and account again in the JavaScript task that
   fills or submits. *)
TrustedForm(route) == route = "password"

FillSecret(route) ==
    /\ page.pc = "fill" /\ TrustedForm(route)
    /\ page' = At("submitControl")
    /\ secretOn' = secretOn \cup {route}
    /\ UNCHANGED <<guardVars, web, late, vault, restarts, accepting, unresolved, blind>>

FindSubmit(route) ==
    route \in {"password", "password_other"} /\ LoginStep("submitControl", At("submit"))

(* The dispatch; the script's answer may be lost, then nobody knows. *)
Dispatch ==
    /\ blind' = (blind \/ unresolved)
    /\ unresolved' = TRUE
    /\ accepting' = TRUE

SubmitSecret(route) ==
    /\ page.pc = "submit"
    /\ \/ /\ TrustedForm(route) /\ Dispatch
          /\ page' = [page EXCEPT !.pc = "complete", !.otherwise = "unknown"]
          /\ UNCHANGED <<guardVars, late>>
       \/ /\ TrustedForm(route) /\ Dispatch
          /\ EndLogin("unknown")
       \/ /\ EndLogin("unknown")
          /\ UNCHANGED <<blind, unresolved, accepting>>
    /\ UNCHANGED <<web, vault, restarts, secretOn>>

(* _wait_for_auth_completion: CAPTCHA, MFA and an expired password are known
   outcomes, everything else that is not an application route is not. *)
CompleteLogin(route) ==
    /\ page.pc = "complete"
    /\ \/ /\ route \in {"password", "pending"}
          /\ LoginStep("complete", At("complete"))
       \/ /\ route = "app"
          /\ LoginStep("complete", Attest("unknown"))
       \/ /\ route \in {"password", "password_other", "expired"}
          /\ EndLogin("failed")
          /\ unresolved' = FALSE
          /\ accepting' = FALSE
          /\ UNCHANGED <<web, vault, restarts, secretOn, blind>>

Login ==
    \E route \in Routes :
        \/ OpenLogin(route) \/ FindEntry(route) \/ EnterEmail(route) \/ BindAccount(route)
        \/ FillSecret(route) \/ FindSubmit(route) \/ SubmitSecret(route) \/ CompleteLogin(route)
-----------------------------------------------------------------------------
(* The identity provider accepts a submission, early, late or never; DIC
   opens the session in the account's tenant. *)
Accept ==
    /\ accepting
    /\ accepting' = FALSE
    /\ web' \in {"expected", "other"}
    /\ UNCHANGED <<guardVars, page, late, vault, restarts, secretOn, unresolved, blind>>

Expire ==
    /\ web # "out"
    /\ web' = "out"
    /\ UNCHANGED <<guardVars, page, late, vault, restarts, loginVars>>

(* on_ready calls start-up again while its notice could not be sent. *)
StartupAgain ==
    /\ request["startup"] = "ended" /\ restarts > 0
    /\ request' = [request EXCEPT !["startup"] = "new"]
    /\ UNCHANGED <<appLock, appLatch, runtimeLock, runtimeLatch, page, web, late, vault, restarts, loginVars>>

(* The process dies and comes back with the session of the vault, or without
   one if the vault is empty, expired or unreadable. *)
Restart ==
    /\ restarts < Restarts
    /\ restarts' = restarts + 1
    /\ request' = [r \in Requests |-> IF r = "startup" \/ request[r] = "new" THEN "new" ELSE "ended"]
    /\ appLock' = "none" /\ appLatch' = FALSE
    /\ runtimeLock' = "none" /\ runtimeLatch' = FALSE
    /\ page' = NoOperation
    /\ web' \in {"out"} \cup ({vault} \cap Tenants)
    /\ accepting' = FALSE /\ late' = "none"
    /\ unresolved' = FALSE
    /\ UNCHANGED <<vault, secretOn, blind>>

SessionNext ==
    \/ \E r \in Requests :
         \/ EnterReconnect(r) \/ EnterRuntime(r) \/ Persist(r) \/ CancelRequest(r)
         \/ StartStatus(r) \/ StartLogin(r)
    \/ StartOtherStatus \/ FailOperation \/ ResetDocument \/ CaptureCompany \/ ConfirmSession \/ FindNoSession
    \/ Login \/ Accept \/ Expire \/ StartupAgain \/ Restart
-----------------------------------------------------------------------------
SessionTypeOK ==
    /\ request \in [Requests -> {"new", "firstHealth", "lock", "health", "confirm", "ensure",
                                 "login", "persist", "ended"}]
    /\ {appLock, runtimeLock, page.owner} \subseteq Requests \cup {"none"}
    /\ {appLatch, runtimeLatch, accepting, unresolved, blind} \subseteq BOOLEAN
    /\ page.kind \in {"none", "status", "login"} /\ page.seen \in Tenants \cup {"none"}
    /\ secretOn \subseteq Routes
    /\ web \in Tenants /\ late \in Tenants \cup {"none"} /\ vault \in Tenants \cup {"none"}
    /\ restarts \in 0..Restarts

(* "nessun tentativo viene ripetuto dopo un esito incerto": whatever is
   cancelled, fails or is lost, and whichever entrance is used, one process
   never submits the credentials again before a status read or a stored
   session has shown how the last submission ended. *)
NeverSubmittedBlindly == ~blind

(* Authenticated means: DIC told the document the probe has just opened, not
   an earlier one, and told it of the configured tenant.  So the vault only
   ever keeps sessions of that tenant (or ended ones), also when a login ends
   in another tenant or a submission is accepted after all. *)
OnlyVerifiedSessions ==
    /\ page.pc = "attest" => page.fresh
    /\ vault # "other"

(* The secret is only ever put into the password form of the configured
   account, although the page may move between the checks and the filling. *)
SecretOnTrustedForm == secretOn \subseteq {"password"}

(* _authenticate_flow: the credentials go to the configured account's form
   only, and not again while the outcome of a submission is unknown. *)
CredentialsAreGuarded == NeverSubmittedBlindly /\ SecretOnTrustedForm
=============================================================================
