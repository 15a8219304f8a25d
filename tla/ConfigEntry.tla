----------------------------- MODULE ConfigEntry -----------------------------
(***************************************************************************)
(* The config entry and everything that reads and writes its credentials:  *)
(* the runtime built from it (__init__.py), the options and reauthen-      *)
(* tication flows (config_flow.py), and Home Assistant's setup, reload and *)
(* unload of it.                                                           *)
(*                                                                         *)
(* A refresh token is a login and a generation in it; the server accepts   *)
(* one generation per login.  The access token travels with it.  The other *)
(* values are numbers: the analytics session id, which the client keeps    *)
(* like its tokens, and the options (venues, maps), which the entities     *)
(* read when the platforms are set up.  What happens between calls that    *)
(* share one client is the subject of WoltApi; here each client (the       *)
(* runtime's, and the temporary one of a flow) is a single user of its     *)
(* token, and the point is that there are several.                         *)
(*                                                                         *)
(* Home Assistant itself is external: one lock serialises setup and unload *)
(* of an entry, update listeners are called only when something changed    *)
(* and run up to their first await at once, unloading cancels the poll in  *)
(* progress, and a poll that fails authentication is not rescheduled.      *)
(***************************************************************************)
EXTENDS Naturals

CONSTANTS Login,         \* logins the user has tokens of
          FirstLogin,    \* the one the entry was created with
          Nothing,       \* no snapshot, runtime, answer, submission; nothing read
          MaxGeneration, \* bound: rotations of one login
          MaxSessionId,  \* bound: analytics session ids, 0 is a blank one
          MaxOptions,    \* bound: values of the options
          MaxReloads,    \* bound: reloads waiting for the entry's lock
          UserActs       \* which of Act the run's user does

\* Which tokens the forms are given, and when options are saved.
Act == {"new_login",           \* a working token of a login nobody else uses
        "access_token_only",   \* options: the refresh token field left blank
        "known_login",         \* options: any token of a login that is in use
        "repeat_credentials",  \* reauthentication: any token of a login in use
        "both_forms",          \* even of the one the other form has been given
        "save_while_starting"} \* options are saved during the first refresh

Token == [login : Login, gen : 1 .. MaxGeneration]

SessionId == 0 .. MaxSessionId
Options   == 0 .. MaxOptions

\* entry.data and entry.options
Values == [token : Token, sessionId : SessionId, options : Options]

\* The client's part, and the entities', who have read nothing at first.
Runtime == [token : Token, sessionId : SessionId, options : Options \cup {Nothing}]

\* What a flow has submitted and its temporary client has reached.
Submission == [stage : {"validating", "refreshing", "retrying"},
               token : Token, sessionId : SessionId, options : Options]

ASSUME ConstantsAssumption ==
    /\ FirstLogin \in Login
    /\ MaxGeneration \in Nat \ {0}
    /\ MaxSessionId \in Nat /\ MaxOptions \in Nat
    /\ MaxReloads \in Nat \ {0}
    /\ UserActs \subseteq Act

ASSUME NothingAssumption ==
    Nothing \notin Token \cup Values \cup Runtime \cup Submission \cup Options

VARIABLES
    data,      \* the stored entry
    snapshot,  \* hass.data[DOMAIN][entry_id]
    runtime,   \* what the running WoltApi and its entities work with
    state,     \* entry.state
    listener,  \* async_reload_entry is registered as update listener
    reloads,   \* reloads waiting for the entry's lock
    polling,   \* the coordinator schedules another poll
    reauth,    \* a reauthentication flow is open
    answer,    \* replacement on its way to the runtime's client
    flow,      \* each flow's submission
    live       \* the generation the server accepts in each login

ha   == <<state, listener>>
vars == <<data, snapshot, runtime, ha, reloads, polling, reauth, answer, flow, live>>

Flow == {"options", "reauth"}

State == {"not_loaded", "setup_in_progress", "setup_retry", "setup_error",
          "loaded", "unload_in_progress"}

TypeOK ==
    /\ data \in Values
    /\ snapshot \in Values \cup {Nothing}
    /\ runtime \in Runtime \cup {Nothing}
    /\ state \in State
    /\ listener \in BOOLEAN
    /\ reloads \in 0 .. MaxReloads
    /\ polling \in BOOLEAN
    /\ reauth \in BOOLEAN
    /\ answer \in Token \cup {Nothing}
    /\ flow \in [Flow -> Submission \cup {Nothing}]
    /\ live \in [Login -> 1 .. MaxGeneration]

Usable(token) == token.gen = live[token.login]

(* The server consumes a token and issues the next of its login.           *)
Replace(token) ==
    /\ Usable(token) /\ token.gen < MaxGeneration
    /\ live' = [live EXCEPT ![token.login] = @ + 1]

Replacement(token) == [token EXCEPT !.gen = @ + 1]

(* The user step stores what its validation left, which works; the YAML    *)
(* import stores a token unseen, which may have been replaced long ago.    *)
Init ==
    /\ \E gen \in 1 .. MaxGeneration, sessionId \in SessionId :
          /\ data = [token |-> [login |-> FirstLogin, gen |-> gen],
                     sessionId |-> sessionId, options |-> 0]
          /\ \E newest \in gen .. MaxGeneration :
                live = [s \in Login |-> IF s = FirstLogin THEN newest ELSE 1]
    /\ snapshot = Nothing /\ runtime = Nothing
    /\ state = "not_loaded" /\ listener = FALSE /\ reloads = 0
    /\ polling = FALSE /\ reauth = FALSE /\ answer = Nothing
    /\ flow = [f \in Flow |-> Nothing]

\* Mutant: nobody is told of the change.
WriteQuietly(values, known, extra) ==
    /\ data' = values
    /\ snapshot' = known
    /\ reloads' = reloads + extra
    /\ reloads' <= MaxReloads

(* async_update_entry with new values and the snapshot `known': listeners  *)
(* hear of a change only, and async_reload_entry compares at once.  `extra' *)
(* reloads are asked for by the caller.                                    *)
Write(values, known, extra) ==
    /\ data' = values
    /\ snapshot' = known
    /\ reloads' = extra + IF listener /\ values # data /\ known # values
                          THEN reloads + 1 ELSE reloads
    /\ reloads' <= MaxReloads

-----------------------------------------------------------------------------
(* Setup, reload and unload.                                               *)

\* The runtime of the values before its platforms have read their options.
ClientOf(values) == [values EXCEPT !.options = Nothing]

(* async_setup_entry up to the first refresh: the client is built.         *)
BeginSetup ==
    /\ state \in {"not_loaded", "setup_retry"}
    /\ state' = "setup_in_progress"
    /\ snapshot' = data
    /\ runtime' = ClientOf(data)
    /\ polling' = TRUE
    /\ UNCHANGED <<data, listener, reloads, reauth, answer, flow, live>>

FirstRefreshing == state = "setup_in_progress" /\ ~listener

(* The first refresh succeeds: register the update listener.               *)
FirstRefreshSucceeds ==
    /\ FirstRefreshing /\ answer = Nothing
    /\ listener' = TRUE
    /\ UNCHANGED <<data, snapshot, runtime, state, reloads, polling, reauth, answer,
                   flow, live>>

(* The platforms read the options and schedule the coordinator.            *)
SetUpPlatforms ==
    /\ state = "setup_in_progress" /\ listener /\ runtime.options = Nothing
    /\ runtime' = [runtime EXCEPT !.options = data.options]
    /\ UNCHANGED <<data, snapshot, ha, reloads, polling, reauth, answer, flow, live>>

(* The entities have been added, after the venues' first update.           *)
SetupDone ==
    /\ state = "setup_in_progress" /\ listener /\ runtime.options # Nothing
    /\ state' = "loaded"
    /\ UNCHANGED <<data, snapshot, runtime, listener, reloads, polling, reauth, answer,
                   flow, live>>

(* The first refresh raises: the snapshot is dropped, and Home Assistant   *)
(* tries again later or, after an authentication error, asks the user.     *)
SetupFails(authFailed) ==
    /\ FirstRefreshing
    /\ state' = IF authFailed THEN "setup_error" ELSE "setup_retry"
    /\ reauth' = (reauth \/ authFailed)
    /\ snapshot' = Nothing /\ runtime' = Nothing /\ answer' = Nothing
    /\ polling' = FALSE
    /\ UNCHANGED <<data, listener, reloads, flow, live>>

(* A waiting reload gets the lock.                                         *)
BeginReload ==
    /\ reloads > 0
    /\ state \notin {"setup_in_progress", "unload_in_progress"}
    /\ reloads' = reloads - 1
    /\ state' = IF state = "loaded" THEN "unload_in_progress" ELSE "not_loaded"
    /\ UNCHANGED <<data, snapshot, runtime, listener, polling, reauth, answer, flow, live>>

(* async_unload_entry's platforms are gone: the snapshot is popped, and    *)
(* Home Assistant drops the listener and cancels the poll in progress.     *)
UnloadDone ==
    /\ state = "unload_in_progress"
    /\ state' = "not_loaded"
    /\ snapshot' = Nothing /\ runtime' = Nothing /\ answer' = Nothing
    /\ listener' = FALSE /\ polling' = FALSE
    /\ UNCHANGED <<data, reloads, reauth, flow, live>>

(* The user asks for a reload.                                             *)
UserReload ==
    /\ reloads < MaxReloads /\ state = "loaded"
    /\ reloads' = reloads + 1
    /\ UNCHANGED <<data, snapshot, runtime, ha, polling, reauth, answer, flow, live>>

(* Home Assistant restarts: only the stored entry survives.                *)
Restart ==
    /\ state' = "not_loaded" /\ listener' = FALSE /\ reloads' = 0
    /\ snapshot' = Nothing /\ runtime' = Nothing /\ answer' = Nothing
    /\ polling' = FALSE /\ reauth' = FALSE
    /\ flow' = [f \in Flow |-> Nothing]
    /\ UNCHANGED <<data, live>>

-----------------------------------------------------------------------------
(* The runtime's polls.                                                    *)

\* The coordinator has listeners, from the setup of the platforms on.
Scheduled ==
    /\ state \in {"setup_in_progress", "loaded", "unload_in_progress"}
    /\ runtime.options # Nothing

PollMayRun == FirstRefreshing \/ (Scheduled /\ polling)

(* A poll meets 401 and posts the client's refresh token.                  *)
PollRefreshes ==
    /\ PollMayRun /\ answer = Nothing
    /\ Replace(runtime.token)
    /\ answer' = Replacement(runtime.token)
    /\ UNCHANGED <<data, snapshot, runtime, ha, reloads, polling, reauth, flow>>

\* Mutant: the snapshot stays behind.
PollStoresForgetsSnapshot ==
    /\ PollMayRun /\ answer # Nothing
    /\ Write([data EXCEPT !.token = answer], snapshot, 0)
    /\ runtime' = [runtime EXCEPT !.token = answer]
    /\ answer' = Nothing
    /\ UNCHANGED <<ha, polling, reauth, flow, live>>

\* Mutant: an answer without a refresh token is stored all the same.
PollStoresAnything ==
    /\ PollMayRun
    /\ LET values == [data EXCEPT !.token = answer]
       IN  Write(values, IF snapshot = Nothing THEN Nothing ELSE values, 0)
    /\ runtime' = [runtime EXCEPT !.token = answer]
    /\ answer' = Nothing
    /\ UNCHANGED <<ha, polling, reauth, flow, live>>

(* persist_tokens: the rest of the entry is read now, not when the client  *)
(* was built, and the snapshot is moved along so that nothing reloads.     *)
PollStores ==
    /\ PollMayRun /\ answer # Nothing
    /\ LET values == [data EXCEPT !.token = answer]
       IN  Write(values, IF snapshot = Nothing THEN Nothing ELSE values, 0)
    /\ runtime' = [runtime EXCEPT !.token = answer]
    /\ answer' = Nothing
    /\ UNCHANGED <<ha, polling, reauth, flow, live>>

(* The answer never arrives; the poll fails and the next one is scheduled. *)
PollLosesAnswer ==
    /\ Scheduled /\ answer # Nothing
    /\ answer' = Nothing
    /\ UNCHANGED <<data, snapshot, runtime, ha, reloads, polling, reauth, flow, live>>

(* Wolt refuses the credentials, for good or (403) for now: polling stops  *)
(* and reauthentication starts.                                            *)
PollRejected ==
    /\ Scheduled /\ polling /\ answer = Nothing
    /\ polling' = FALSE
    /\ reauth' = TRUE
    /\ UNCHANGED <<data, snapshot, runtime, ha, reloads, answer, flow, live>>

-----------------------------------------------------------------------------
(* The flows.  A submission with credentials is validated by a client of   *)
(* its own, whose rotations stay in the submission until it is saved.      *)

\* A working token of a login that neither the entry, the runtime nor a form has.
NewLogin(token) ==
    /\ "new_login" \in UserActs
    /\ Usable(token)
    /\ token.login \notin {data.token.login}
           \cup {flow[f].token.login : f \in {g \in Flow : flow[g] # Nothing}}
    /\ runtime # Nothing => token.login # runtime.token.login

\* Any token there has been, used up or not: typed in again, or copied from
\* where another login of the user is in use.
KnownToken(f, token) ==
    /\ token.gen <= live[token.login]
    /\ \/ "both_forms" \in UserActs
       \/ \A g \in Flow \ {f} : flow[g] # Nothing => token.login # flow[g].token.login

MaySave == FirstRefreshing => "save_while_starting" \in UserActs

Submit(f, token, sessionId, options) ==
    /\ flow[f] = Nothing
    /\ flow' = [flow EXCEPT ![f] =
           [stage |-> "validating", token |-> token, sessionId |-> sessionId,
            options |-> options]]
    /\ UNCHANGED <<data, snapshot, runtime, ha, reloads, polling, reauth, answer, live>>

\* Mutant: the form moves the snapshot along, as persist_tokens does.
SaveSettingsAndSnapshot(sessionId, options) ==
    /\ MaySave
    /\ LET values == [data EXCEPT !.sessionId = sessionId, !.options = options]
       IN  Write(values, IF snapshot = Nothing THEN Nothing ELSE values, 0)
    /\ UNCHANGED <<runtime, ha, polling, reauth, answer, flow, live>>

(* Options with both token fields blank: saved at once, and a session id   *)
(* field left blank saves a blank one.                                     *)
SaveSettings(sessionId, options) ==
    /\ MaySave
    /\ Write([data EXCEPT !.sessionId = sessionId, !.options = options], snapshot, 0)
    /\ UNCHANGED <<runtime, ha, polling, reauth, answer, flow, live>>

(* Options with credentials: the entry is read now, a blank refresh token  *)
(* means the saved one, and what was read is what will be written.         *)
SubmitOptions(token, sessionId, options) ==
    /\ \/ NewLogin(token)
       \/ "access_token_only" \in UserActs /\ token = data.token
       \/ "known_login" \in UserActs /\ KnownToken("options", token)
    /\ Submit("options", token, sessionId, options)

(* A blank session id means the saved one; reauthentication has no options *)
(* and its submission's are not used.                                      *)
SubmitReauth(token, sessionId) ==
    /\ reauth
    /\ \/ NewLogin(token)
       \/ "repeat_credentials" \in UserActs /\ KnownToken("reauth", token)
    /\ Submit("reauth", token, IF sessionId = 0 THEN data.sessionId ELSE sessionId,
              data.options)

\* Mutant: the rotated token stays in the temporary client.
ValidationDropsToken(f) ==
    /\ flow[f] # Nothing /\ flow[f].stage = "refreshing"
    /\ flow' = [flow EXCEPT ![f].stage = "retrying"]
    /\ UNCHANGED <<data, snapshot, runtime, ha, reloads, polling, reauth, answer, live>>

ValidationRefreshes(f) ==
    /\ flow[f] # Nothing /\ flow[f].stage = "validating"
    /\ Replace(flow[f].token)
    /\ flow' = [flow EXCEPT ![f].stage = "refreshing"]
    /\ UNCHANGED <<data, snapshot, runtime, ha, reloads, polling, reauth, answer>>

ValidationStores(f) ==
    /\ flow[f] # Nothing /\ flow[f].stage = "refreshing"
    /\ flow' = [flow EXCEPT ![f].stage = "retrying", ![f].token = Replacement(@)]
    /\ UNCHANGED <<data, snapshot, runtime, ha, reloads, polling, reauth, answer, live>>

(* fetch_orders raises: the form is shown again and `validated' is gone.   *)
ValidationFails(f) ==
    /\ flow[f] # Nothing
    /\ flow' = [flow EXCEPT ![f] = Nothing]
    /\ UNCHANGED <<data, snapshot, runtime, ha, reloads, polling, reauth, answer, live>>

Validated(f) == flow[f] # Nothing /\ flow[f].stage \in {"validating", "retrying"}

(* Everything read at submission is written back.                          *)
SaveOptions ==
    /\ MaySave /\ Validated("options")
    /\ Write([token |-> flow["options"].token, sessionId |-> flow["options"].sessionId,
              options |-> flow["options"].options], snapshot, 0)
    /\ flow' = [flow EXCEPT !["options"] = Nothing]
    /\ UNCHANGED <<runtime, ha, polling, reauth, answer, live>>

\* Mutant: reauthentication moves the snapshot along.
SaveReauthAndSnapshot ==
    /\ Validated("reauth")
    /\ LET values == [data EXCEPT !.token = flow["reauth"].token,
                                 !.sessionId = flow["reauth"].sessionId]
       IN  Write(values, IF snapshot = Nothing THEN Nothing ELSE values,
                 IF state = "loaded" THEN 0 ELSE 1)
    /\ flow' = [flow EXCEPT !["reauth"] = Nothing]
    /\ reauth' = FALSE
    /\ UNCHANGED <<runtime, ha, polling, answer, live>>

(* Only the credentials are merged into the entry.  A loaded entry leaves  *)
(* the reload to its listener; otherwise the flow asks for it.             *)
SaveReauth ==
    /\ Validated("reauth")
    /\ Write([data EXCEPT !.token = flow["reauth"].token,
                          !.sessionId = flow["reauth"].sessionId],
             snapshot, IF state = "loaded" THEN 0 ELSE 1)
    /\ flow' = [flow EXCEPT !["reauth"] = Nothing]
    /\ reauth' = FALSE
    /\ UNCHANGED <<runtime, ha, polling, answer, live>>

-----------------------------------------------------------------------------
Lifecycle ==
    \/ BeginSetup \/ FirstRefreshSucceeds \/ SetUpPlatforms \/ SetupDone
    \/ \E authFailed \in BOOLEAN : SetupFails(authFailed)
    \/ BeginReload \/ UnloadDone \/ UserReload \/ Restart

Poll == PollRefreshes \/ PollStores \/ PollLosesAnswer \/ PollRejected

Forms ==
    \/ \E sessionId \in SessionId, options \in Options :
          \/ SaveSettings(sessionId, options)
          \/ \E token \in Token : SubmitOptions(token, sessionId, options)
    \/ \E token \in Token, sessionId \in SessionId : SubmitReauth(token, sessionId)
    \/ \E f \in Flow : ValidationRefreshes(f) \/ ValidationStores(f) \/ ValidationFails(f)
    \/ SaveOptions \/ SaveReauth

Next == Lifecycle \/ Poll \/ Forms

Spec == Init /\ [][Next]_vars

(* Home Assistant runs the reloads it has queued, and requests time out;   *)
(* users and the server owe nothing.                                       *)
FairSpec ==
    /\ Spec
    /\ WF_vars(BeginSetup) /\ WF_vars(SetUpPlatforms) /\ WF_vars(SetupDone)
    /\ WF_vars(FirstRefreshSucceeds \/ SetupFails(TRUE) \/ SetupFails(FALSE))
    /\ WF_vars(BeginReload) /\ WF_vars(UnloadDone)

-----------------------------------------------------------------------------
(* Properties.                                                             *)

(* A loaded entry with no reload to come runs with the stored credentials  *)
(* and options: every edit reaches client and entities, and rotation is in *)
(* step (CHANGELOG.md:99).                                                 *)
LoadedRuntimeIsCurrent ==
    state = "loaded" /\ reloads = 0 => runtime = data

(* Storing a rotated token reloads nothing, also while an edit waits for   *)
(* its own reload.                                                         *)
RotationNeverReloads == [][PollStores => UNCHANGED reloads]_vars

(* A loaded entry that has stopped polling is waiting for the user or      *)
(* about to be reloaded.                                                   *)
PollingStopsOnlyForReauth ==
    state = "loaded" /\ ~polling /\ reloads = 0 => reauth

(* Saving the options form never replaces a refresh token that works by    *)
(* one that has been used up.                                              *)
EditKeepsToken ==
    [][SaveOptions /\ Usable(data.token) => Usable(data.token)']_vars

(* A rotation stores the next token of the login the user chose last.      *)
RotationKeepsLogin ==
    [][PollStores => data'.token.login = data.token.login]_vars

(* A replacement for the stored token that a form's client received ends   *)
(* up in the entry when the form is done with, whatever its outcome.       *)
ReplacementRetained ==
    [][\A f \in Flow :
         /\ flow[f] # Nothing /\ flow'[f] = Nothing /\ ~Restart
         /\ flow[f].stage = "retrying"
         /\ flow[f].token.login = data.token.login
         => data'.token = flow[f].token]_vars

(* A runtime that no longer matches the entry does not stay.               *)
StaleRuntimeGoes ==
    (runtime # Nothing /\ runtime # data) ~> (runtime = Nothing \/ runtime = data)

=============================================================================
