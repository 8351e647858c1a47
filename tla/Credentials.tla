----------------------------- MODULE Credentials -----------------------------
(***************************************************************************)
(* Credentials (pkg/auth, the auth commands, the token sources of the      *)
(* Codex and Claude providers): a file of one credential per provider,     *)
(* which turns of the gateway and commands read and write without a lock,  *)
(* and the server that exchanges refresh tokens.                           *)
(***************************************************************************)
EXTENDS Naturals, FiniteSets

CONSTANTS
    Callers,        \* that read or write the file
    Commands,       \* those of them that run auth commands too, not turns only
    MaxTokens,      \* bound: tokens issued
    MaxAuthFaults   \* bound: answers lost, writes that fail, processes that die

ASSUME CredentialsAssumption ==
    Commands \subseteq Callers /\ MaxTokens \in Nat /\ MaxAuthFaults \in Nat

LoginProviders == {"openai", "anthropic"}
Tokens == 1 .. MaxTokens
NoCred == [token |-> 0, refresh |-> 0, method |-> "none"]
Creds == [token : 0 .. MaxTokens, refresh : 0 .. MaxTokens, method : {"none", "oauth", "token"}]
NoErrand == [kind |-> "none", step |-> "none", for |-> "openai", cred |-> NoCred,
             store |-> [v \in LoginProviders |-> NoCred], stale |-> FALSE]

VARIABLES
    authFile,   \* form "none", "torn" or "whole", and a credential for each provider
    errand,     \* of each caller
    issued,     \* tokens the server has issued
    due,        \* access tokens that expire within five minutes
    valid,      \* refresh tokens the server takes
    authFaults, \* bound
    loggedIn,   \* history: the last command for the provider that saved was a login
    renewable,  \* history: that login brought a refresh token
    crossed     \* history: a save took the place of one it had not read, or failed

credentialVars == <<authFile, errand, issued, due, valid, authFaults,
                    loggedIn, renewable, crossed>>
serverVars == <<issued, due, valid>>
historyVars == <<loggedIn, renewable, crossed>>

CredentialsInit ==
    /\ authFile = [form |-> "none", creds |-> [v \in LoginProviders |-> NoCred]]
    /\ errand = [p \in Callers |-> NoErrand]
    /\ issued = 0 /\ due = {} /\ valid = {} /\ authFaults = 0
    /\ loggedIn = [v \in LoginProviders |-> FALSE] /\ renewable = FALSE /\ crossed = FALSE

AuthFault == authFaults < MaxAuthFaults /\ authFaults' = authFaults + 1

Becomes(p, e) == errand' = [errand EXCEPT ![p] = e]
Ends(p) == Becomes(p, NoErrand)

\* What the others read before p saves is stale.
Overtaken(p) ==
    [q \in Callers |-> IF q = p \/ errand[q].kind = "none" THEN errand[q]
                       ELSE [errand[q] EXCEPT !.stale = TRUE]]

\* IsZero of ExpiresAt: a token that was pasted, or issued without a time, never needs a refresh.
NeedsRefresh(cred) == cred.method = "oauth" /\ cred.token \in due

TimePasses ==
    /\ LET t == authFile.creds["openai"].token
       IN t # 0 /\ t \notin due /\ due' = due \cup {t}
    /\ UNCHANGED <<authFile, errand, issued, valid, authFaults>>
    /\ UNCHANGED historyVars

-----------------------------------------------------------------------------
\* A turn asks the token source of Codex, which refreshes a credential that is due if it
\* came with a refresh token.  In the other cases, and always with Claude, the turn gets
\* the token as it is, or an error (no credential, a torn file); nothing changes.
GetToken(p) ==
    /\ errand[p] = NoErrand
    /\ LET cred == authFile.creds["openai"]
       IN /\ authFile.form = "whole" /\ NeedsRefresh(cred) /\ cred.refresh # 0
          /\ Becomes(p, [NoErrand EXCEPT !.kind = "refresh", !.step = "refresh", !.cred = cred])
    /\ UNCHANGED <<authFile, authFaults>>
    /\ UNCHANGED serverVars /\ UNCHANGED historyVars

\* Mutant of Refreshed: an answer without a refresh token leaves none.
RefreshedBare(cred, token, refresh) == [token |-> token, refresh |-> refresh, method |-> "oauth"]

\* What an answer makes of a credential: the refresh token it lacks is kept.
Refreshed(cred, token, refresh) ==
    [token |-> token, refresh |-> IF refresh = 0 THEN cred.refresh ELSE refresh, method |-> "oauth"]

\* The server may give a new refresh token, and takes the old one no longer.
RefreshAccessToken(p) ==
    LET e == errand[p]
    IN /\ e.step = "refresh"
       /\ \/ /\ e.cred.refresh \in valid /\ issued < MaxTokens /\ issued' = issued + 1
             /\ \E refresh \in {0, issued'} :
                  /\ valid' = IF refresh = 0 THEN valid ELSE (valid \ {e.cred.refresh}) \cup {refresh}
                  /\ \/ /\ Becomes(p, [e EXCEPT !.step = "load",
                                               !.cred = Refreshed(e.cred, issued', refresh)])
                        /\ UNCHANGED <<authFaults, crossed>>
                     \/ AuthFault /\ Ends(p) /\ crossed' = TRUE     \* the answer is lost
             /\ UNCHANGED due
          \/ /\ e.cred.refresh \notin valid                       \* refused: the turn fails
             /\ Ends(p) /\ UNCHANGED <<authFaults, crossed>> /\ UNCHANGED serverVars
    /\ UNCHANGED <<authFile, loggedIn, renewable>>

-----------------------------------------------------------------------------
\* The commands.

\* What login begins with; a login that fails or times out changes nothing.

Login(v, step, cred) == [NoErrand EXCEPT !.kind = "login", !.for = v, !.step = step, !.cred = cred]

\* exchangeCodeForTokens: a token, with a refresh token or without.
Exchanged(p) ==
    /\ issued < MaxTokens /\ issued' = issued + 1
    /\ \E refresh \in {0, issued'} :
         /\ valid' = valid \cup ({refresh} \ {0})
         /\ Becomes(p, Login("openai", "load",
                             [token |-> issued', refresh |-> refresh, method |-> "oauth"]))
    /\ UNCHANGED due

\* The callback has the state of this login and a code, within five minutes.
LoginBrowser(p) ==
    /\ errand[p] = NoErrand /\ Exchanged(p)
    /\ UNCHANGED <<authFile, authFaults>> /\ UNCHANGED historyVars

LoginDeviceCode(p) ==
    /\ errand[p] = NoErrand /\ Becomes(p, Login("openai", "poll", NoCred))
    /\ UNCHANGED <<authFile, authFaults>> /\ UNCHANGED serverVars /\ UNCHANGED historyVars

\* Every error means "not yet", for fifteen minutes.
PollDeviceCode(p) ==
    /\ errand[p].step = "poll"
    /\ \/ Exchanged(p)
       \/ Ends(p) /\ UNCHANGED serverVars
    /\ UNCHANGED <<authFile, authFaults>> /\ UNCHANGED historyVars

\* A key that never needs a refresh: which one does not matter.
LoginPasteToken(p) ==
    /\ errand[p] = NoErrand
    /\ Becomes(p, Login("anthropic", "load", [NoCred EXCEPT !.method = "token"]))
    /\ UNCHANGED <<authFile, authFaults>> /\ UNCHANGED serverVars /\ UNCHANGED historyVars

AuthLogout(p, v) ==
    /\ errand[p] = NoErrand
    /\ Becomes(p, [NoErrand EXCEPT !.kind = "logout", !.step = "load", !.for = v])
    /\ UNCHANGED <<authFile, authFaults>>
    /\ UNCHANGED serverVars /\ UNCHANGED historyVars

\* Without a provider: the file is removed, whatever its form.
AuthLogoutAll(p) ==
    /\ errand[p] = NoErrand
    /\ authFile' = [form |-> "none", creds |-> [v \in LoginProviders |-> NoCred]]
    /\ errand' = Overtaken(p)
    /\ loggedIn' = [v \in LoginProviders |-> FALSE] /\ renewable' = FALSE
    /\ crossed' = (crossed \/ \E q \in Callers : errand[q].step = "write")
    /\ UNCHANGED authFaults /\ UNCHANGED serverVars

-----------------------------------------------------------------------------
\* SetCredential and DeleteCredential: load, change and write the whole file.

LoadStore(p) ==
    LET e == errand[p]
    IN /\ e.step = "load"
       /\ \/ /\ authFile.form # "torn"
             /\ Becomes(p, [e EXCEPT !.step = "truncate",
                                     !.store = [authFile.creds EXCEPT ![e.for] = e.cred],
                                     !.stale = @ /\ e.kind = "refresh"])
             /\ UNCHANGED crossed
          \/ authFile.form = "torn" /\ Ends(p) /\ crossed' = TRUE
    /\ UNCHANGED <<authFile, authFaults, loggedIn, renewable>>
    /\ UNCHANGED serverVars

\* os.WriteFile empties the file, and then writes it.
Truncate(p) ==
    LET e == errand[p]
    IN /\ e.step = "truncate"
       /\ authFile' = [form |-> "torn", creds |-> [v \in LoginProviders |-> NoCred]]
       /\ crossed' = (crossed \/ e.stale)
       /\ errand' = [Overtaken(p) EXCEPT ![p] = [e EXCEPT !.step = "write"]]
    /\ UNCHANGED <<authFaults, loggedIn, renewable>> /\ UNCHANGED serverVars

WriteStore(p) ==
    LET e == errand[p]
    IN /\ e.step = "write"
       /\ authFile' = [form |-> "whole", creds |-> e.store]
       /\ Ends(p)
       /\ loggedIn' = [loggedIn EXCEPT ![e.for] = (@ /\ e.kind = "refresh") \/ e.kind = "login"]
       /\ renewable' = IF e.for # "openai" \/ e.kind = "refresh" THEN renewable ELSE e.cred.refresh # 0
    /\ UNCHANGED <<authFaults, crossed>> /\ UNCHANGED serverVars

CallerDies(p) ==
    /\ errand[p].step \in {"load", "truncate", "write"} /\ AuthFault /\ Ends(p)
    /\ crossed' = TRUE
    /\ UNCHANGED <<authFile, loggedIn, renewable>> /\ UNCHANGED serverVars

CredentialsNext ==
    \/ TimePasses
    \/ \E p \in Callers :
         \/ GetToken(p)
         \/ /\ p \in Commands
            /\ \/ LoginBrowser(p) \/ LoginDeviceCode(p) \/ LoginPasteToken(p)
               \/ (\E v \in LoginProviders : AuthLogout(p, v)) \/ AuthLogoutAll(p)
         \/ PollDeviceCode(p) \/ RefreshAccessToken(p) \/ LoadStore(p) \/ Truncate(p) \/ WriteStore(p)
         \/ CallerDies(p)

CredentialsSpec == CredentialsInit /\ [][CredentialsNext]_credentialVars

-----------------------------------------------------------------------------
CredentialsTypeOK ==
    /\ authFile.form \in {"none", "torn", "whole"}
    /\ authFile.creds \in [LoginProviders -> Creds]
    /\ \A p \in Callers : errand[p].step \in {"none", "refresh", "poll", "load", "truncate", "write"}
    /\ issued \in 0 .. MaxTokens /\ due \subseteq Tokens /\ valid \subseteq Tokens

\* As long as nobody saves the file over what somebody else saved since he read it, and no
\* save is cut short, a login lasts until the logout, through every refresh: the file has
\* the credential, a login that brought a refresh token can be refreshed, and the refresh
\* token the file has is one the server takes.
LoginLasts ==
    \/ crossed
    \/ \E p \in Callers : errand[p].step = "write"
    \/ \E p \in Callers : errand[p].kind = "refresh" /\ errand[p].step \in {"load", "truncate"}
    \/ \A v \in LoginProviders :
         LET cred == authFile.creds[v]
         IN /\ loggedIn[v] = (cred # NoCred)
            /\ cred.refresh \in valid \cup {0}
            /\ v = "openai" /\ loggedIn[v] /\ renewable => cred.refresh # 0
=============================================================================
