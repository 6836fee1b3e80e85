---- MODULE Settings ----
(***************************************************************************)
(* Signing in, the Settings page and the AI switch.  Sessions are signed   *)
(* cookies that only the browser keeps, so a session outlives a change of  *)
(* the credential, and a restart too if SESSION_SECRET is set.  A          *)
(* credential set in Settings replaces the one of .env until the process   *)
(* is started with DASHBOARD_PASSWORD_RESET.                               *)
(***************************************************************************)
EXTENDS Handlers

CONSTANTS
    Browser,
    User, Password,
    DashboardUser,       \* dashboard_user of .env
    DashboardPasswords,  \* what dashboard_password may be set to between restarts
    Blank,               \* the empty dashboard_password
    Offer,               \* the credentials analysts post in Settings
    None                 \* no row, no cookie

Credential == [user : User, password : Password]

ASSUME SettingsBounds ==
    /\ DashboardUser \in User
    /\ DashboardPasswords \subseteq Password \cup {Blank}
    /\ Blank \notin Password
    /\ Offer \subseteq Credential
    /\ None \notin User \cup Credential \cup BOOLEAN

VARIABLES
    credential,  \* the Credential row, or None
    password,    \* settings.dashboard_password of the running process
    cookie,      \* [Browser -> User \cup {None}], whose valid session a browser has
    setting      \* the SystemSetting row's ai_triage_enabled, or None without the row

settingsVars == <<credential, password, cookie, setting>>

SettingsInit ==
    /\ credential = None
    /\ password \in DashboardPasswords
    /\ cookie = [b \in Browser |-> None]
    /\ setting = None

----
\* auth_enabled
AuthOn == password # Blank \/ credential # None

\* check_login: a Settings credential replaces the one of .env.
Accepts(c) ==
    IF credential # None THEN c = credential
    ELSE password # Blank /\ c = [user |-> DashboardUser, password |-> password]

\* The gate every page and every form but the login's passes.  (A form of an earlier
\* session is refused for its token; here it is let through.)
MayUse(b) == ~AuthOn \/ cookie[b] # None

CurrentUser(b) == IF cookie[b] # None THEN cookie[b] ELSE DashboardUser

Login(b, c) ==
    /\ AuthOn /\ Accepts(c)
    /\ cookie' = [cookie EXCEPT ![b] = c.user]
    /\ UNCHANGED <<credential, password, setting, handlerVars>>

\* POST /logout, or twelve hours have passed.
SessionEnds(b) ==
    /\ cookie[b] # None
    /\ cookie' = [cookie EXCEPT ![b] = None]
    /\ UNCHANGED <<credential, password, setting, handlerVars>>

----
\* POST /settings/credentials: the current password is checked, with the name in the
\* session.  (Anything but the right one leaves all as it is.)
BeginChange(r, b, offer) ==
    /\ Free(r) /\ MayUse(b)
    /\ \E p \in Password : Accepts([user |-> CurrentUser(b), password |-> p])
    /\ Enter(r, [at |-> "load", browser |-> b, offer |-> offer])
    /\ UNCHANGED settingsVars

\* set_credential reads the row.
LoadCredential(r) ==
    /\ request[r].at = "load"
    /\ Enter(r, [at |-> "store", browser |-> request[r].browser, offer |-> request[r].offer,
                 loaded |-> credential])
    /\ UNCHANGED settingsVars

\* Mutant: the user name is set only when the row is created.
StoredFirstName(offer, loaded) ==
    [user |-> IF loaded # None THEN credential.user ELSE offer.user, password |-> offer.password]

\* What the commit makes of the row: the session updates the columns that differ
\* from the loaded ones, and the salted hash always does.
Stored(offer, loaded) ==
    [user |-> IF loaded # None /\ offer.user = loaded.user THEN credential.user ELSE offer.user,
     password |-> offer.password]

\* The commit; two first inserts collide on the primary key and the second fails.
StoreCredential(r) ==
    LET q == request[r]
    IN  /\ q.at = "store"
        /\ IF q.loaded = None /\ credential # None THEN UNCHANGED <<credential, cookie>>
           ELSE /\ credential' = Stored(q.offer, q.loaded)
                /\ cookie' = [cookie EXCEPT ![q.browser] = q.offer.user]
        /\ Commit(r, At({"store"}))
        /\ UNCHANGED <<password, setting>>

----
\* ai_triage_enabled
AiOn == IF setting = None THEN TRUE ELSE setting

\* POST /settings/ai-detection/toggle reads the switch and means to set the opposite.
BeginToggle(r, b) ==
    /\ Free(r) /\ MayUse(b)
    /\ Enter(r, [at |-> "flip", value |-> ~AiOn])
    /\ UNCHANGED settingsVars

\* set_ai_triage_enabled reads the row again.
LoadSetting(r) ==
    /\ request[r].at = "flip"
    /\ Enter(r, [at |-> "set", value |-> request[r].value, loaded |-> setting])
    /\ UNCHANGED settingsVars

\* Mutant: without a row the switch counts as off when it is saved.
SaveOnlyUpdates(r) ==
    LET q == request[r]
    IN  /\ q.at = "set"
        /\ setting' = IF q.loaded = None THEN TRUE ELSE q.value
        /\ Commit(r, At({"flip", "set"}))
        /\ UNCHANGED <<credential, password, cookie>>

\* The commit: an insert that may collide, or an update if the value differs.
SaveSetting(r) ==
    LET q == request[r]
    IN  /\ q.at = "set"
        /\ setting' = IF \/ q.loaded = None /\ setting # None
                         \/ q.value = q.loaded
                      THEN setting ELSE q.value
        /\ Commit(r, At({"flip", "set"}))
        /\ UNCHANGED <<credential, password, cookie>>

----
\* Mutant: the reset flag is looked at only if there is no .env password.
WipedIfBlank(reset, pw) == reset /\ pw = Blank

\* Whether startup deletes the credential row.
Wiped(reset, pw) == reset

\* The process dies and starts with another .env; sessions survive if it has kept its
\* SESSION_SECRET.
Restart(pw, reset, keeps) ==
    /\ password' = pw
    /\ credential' = IF Wiped(reset, pw) THEN None ELSE credential
    /\ cookie' = IF keeps THEN cookie ELSE [b \in Browser |-> None]
    /\ HandlersRestart
    /\ UNCHANGED setting

SettingsNext ==
    \/ \E b \in Browser : SessionEnds(b)
    \/ \E b \in Browser, c \in Offer \cup [user : {DashboardUser}, password : DashboardPasswords] :
        Login(b, c)
    \/ \E r \in Request, b \in Browser, offer \in Offer : BeginChange(r, b, offer)
    \/ \E r \in Request, b \in Browser : BeginToggle(r, b)
    \/ \E r \in Request : LoadCredential(r) \/ StoreCredential(r) \/ LoadSetting(r) \/ SaveSetting(r)
====
