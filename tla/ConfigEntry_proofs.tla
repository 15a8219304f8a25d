------------------------- MODULE ConfigEntry_proofs -------------------------
(***************************************************************************)
(* Proofs about ConfigEntry for any logins and any bounds.  Of the acts of *)
(* the user a theorem about the runtime or a form excludes only those with *)
(* which TLC finds a counterexample.                                       *)
(***************************************************************************)
EXTENDS ConfigEntry, TLAPS

Running == state \in {"setup_in_progress", "loaded", "unload_in_progress"}

(* The listener exists from the end of the first refresh to the end of the *)
(* unload, a runtime and its snapshot exist as long as there is anything   *)
(* to poll for, and both were built or rotated with the same token; the    *)
(* platforms read the options after the first refresh.                     *)
LifecycleInv ==
    /\ state \in {"loaded", "unload_in_progress"} => listener
    /\ listener => Running
    /\ Running => snapshot # Nothing /\ runtime # Nothing /\ snapshot.token = runtime.token
    /\ ~Running => snapshot = Nothing /\ runtime = Nothing /\ answer = Nothing
    /\ FirstRefreshing => polling /\ runtime.options = Nothing
    /\ state \in {"loaded", "unload_in_progress"} => runtime.options # Nothing

(* A form's token that is being replaced has a successor within the bound. *)
RefreshingInv ==
    \A f \in Flow : flow[f] # Nothing /\ flow[f].stage = "refreshing" =>
        flow[f].token.gen < MaxGeneration

(* The answer on its way replaces the token the runtime still uses.        *)
AnswerInv ==
    answer # Nothing =>
        answer = Replacement(runtime.token) /\ runtime.token.gen < MaxGeneration

IInv == TypeOK /\ LifecycleInv /\ RefreshingInv /\ AnswerInv

-----------------------------------------------------------------------------
(* Lemmas about the operators.                                             *)

(* A rotation yields a token of the same login within the bound.           *)
LEMMA ReplaceTyped ==
    ASSUME NEW token \in Token, live \in [Login -> 1 .. MaxGeneration], Replace(token)
    PROVE  /\ Replacement(token) \in Token
           /\ live' \in [Login -> 1 .. MaxGeneration]
<1> USE ConstantsAssumption
<1>1. token.login \in Login /\ token.gen \in 1 .. MaxGeneration
  BY DEF Token
<1>2. token.gen + 1 \in 1 .. MaxGeneration
  BY <1>1 DEF Replace
<1>3. Replacement(token) = [login |-> token.login, gen |-> token.gen + 1]
  BY DEF Token, Replacement
<1>4. live[token.login] = token.gen
  BY DEF Replace, Usable
<1> QED
  BY <1>1, <1>2, <1>3, <1>4 DEF Replace, Token

(* Writing typed values keeps the entry, snapshot and queue typed.         *)
LEMMA WriteTyped ==
    ASSUME reloads \in 0 .. MaxReloads,
           NEW values \in Values, NEW known \in Values \cup {Nothing}, NEW extra \in {0, 1},
           Write(values, known, extra)
    PROVE  /\ data' \in Values
           /\ snapshot' \in Values \cup {Nothing}
           /\ reloads' \in 0 .. MaxReloads
<1>1. reloads' \in Nat /\ reloads' <= MaxReloads
  BY ConstantsAssumption DEF Write
<1> QED
  BY <1>1, ConstantsAssumption DEF Write

(* After a write no reload waits only if none did before and the listener, *)
(* if there is one, was not told of a difference.                          *)
LEMMA WriteQueues ==
    ASSUME reloads \in 0 .. MaxReloads,
           NEW values, NEW known, NEW extra \in {0, 1},
           Write(values, known, extra), reloads' = 0
    PROVE  /\ reloads = 0 /\ extra = 0
           /\ listener => values = data \/ known = values
BY ConstantsAssumption DEF Write

-----------------------------------------------------------------------------
(* The invariant that no act of the user disturbs.                         *)

LEMMA InitIInv == Init => IInv
<1> SUFFICES ASSUME Init PROVE IInv
  OBVIOUS
<1> USE ConstantsAssumption DEF Init
<1>1. data \in Values
  <2>1. PICK gen \in 1 .. MaxGeneration, sessionId \in SessionId :
           data = [token |-> [login |-> FirstLogin, gen |-> gen],
                   sessionId |-> sessionId, options |-> 0]
    OBVIOUS
  <2> QED
    BY <2>1 DEF Values, Token, Options
<1>2. TypeOK
  <2>1. live \in [Login -> 1 .. MaxGeneration] /\ reloads \in 0 .. MaxReloads
    OBVIOUS
  <2>2. flow \in [Flow -> Submission \cup {Nothing}]
    OBVIOUS
  <2>3. listener \in BOOLEAN /\ polling \in BOOLEAN /\ reauth \in BOOLEAN
    OBVIOUS
  <2>4. data \in Values /\ state \in State /\ snapshot = Nothing /\ runtime = Nothing
        /\ answer = Nothing
    BY <1>1 DEF State
  <2> QED
    BY <2>1, <2>2, <2>3, <2>4 DEF TypeOK
<1>3. LifecycleInv /\ AnswerInv
  BY DEF LifecycleInv, Running, FirstRefreshing, AnswerInv
<1>4. RefreshingInv
  BY DEF RefreshingInv
<1> QED
  BY <1>2, <1>3, <1>4 DEF IInv

(* The runtime that setup builds has the entry's token and no options yet. *)
LEMMA ClientTyped ==
    ASSUME NEW values \in Values
    PROVE  /\ ClientOf(values) \in Runtime
           /\ ClientOf(values).token = values.token
           /\ ClientOf(values).options = Nothing
BY DEF ClientOf, Values, Runtime

(* The platforms add the stored options to it.                             *)
LEMMA PlatformsRead ==
    ASSUME IInv, SetUpPlatforms
    PROVE  /\ runtime \in Runtime /\ runtime' \in Runtime
           /\ runtime' = [runtime EXCEPT !.options = data.options]
           /\ runtime'.token = runtime.token
           /\ runtime'.options # Nothing
<1>1. runtime \in Runtime /\ data.options \in Options /\ data.options # Nothing
  BY NothingAssumption DEF IInv, TypeOK, LifecycleInv, Running, SetUpPlatforms, Values
<1> QED
  BY <1>1 DEF SetUpPlatforms, Runtime

(* The lifecycle's own steps.                                              *)
LEMMA LifecycleIInv == IInv /\ Lifecycle => IInv'
<1> SUFFICES ASSUME IInv, Lifecycle PROVE IInv'
  OBVIOUS
<1> USE ConstantsAssumption, NothingAssumption
    DEF IInv, TypeOK, State, ha, Running, FirstRefreshing, LifecycleInv, RefreshingInv,
        AnswerInv
<1>1. CASE BeginSetup
  <2>1. /\ runtime' \in Runtime /\ runtime'.token = data.token
        /\ runtime'.options = Nothing /\ data # Nothing
    BY <1>1, ClientTyped DEF BeginSetup
  <2> QED
    BY <1>1, <2>1 DEF BeginSetup
<1>2. CASE FirstRefreshSucceeds
  BY <1>2 DEF FirstRefreshSucceeds
<1>3. CASE SetupDone
  BY <1>3 DEF SetupDone
<1>4. ASSUME NEW authFailed \in BOOLEAN, SetupFails(authFailed) PROVE IInv'
  BY <1>4 DEF SetupFails
<1>5. CASE BeginReload
  BY <1>5 DEF BeginReload
<1>6. CASE UnloadDone
  BY <1>6 DEF UnloadDone
<1>7. CASE UserReload
  BY <1>7 DEF UserReload
<1>8. CASE Restart
  <2>1. flow' \in [Flow -> Submission \cup {Nothing}]
    BY <1>8 DEF Restart
  <2>2. reloads' \in 0 .. MaxReloads
    BY <1>8 DEF Restart
  <2>3. /\ data' = data /\ live' = live /\ state' = "not_loaded" /\ listener' = FALSE
        /\ snapshot' = Nothing /\ runtime' = Nothing /\ answer' = Nothing
    BY <1>8 DEF Restart
  <2>4. listener' \in BOOLEAN /\ polling' \in BOOLEAN /\ reauth' \in BOOLEAN
    BY <1>8, Zenon DEF Restart
  <2>5. \A f \in Flow : flow'[f] = Nothing
    BY <1>8 DEF Restart
  <2> QED
    BY <2>1, <2>2, <2>3, <2>4, <2>5
<1>9. CASE SetUpPlatforms
  <2>1. /\ runtime' \in Runtime /\ runtime'.token = runtime.token
        /\ runtime'.options # Nothing
    BY <1>9, PlatformsRead
  <2> QED
    BY <1>9, <2>1 DEF SetUpPlatforms
<1> QED
  BY <1>1, <1>2, <1>3, <1>4, <1>5, <1>6, <1>7, <1>8, <1>9 DEF Lifecycle

(* A poll has a runtime, a snapshot, and tokens of the right type.         *)
LEMMA PollHasRuntime ==
    ASSUME IInv, PollMayRun
    PROVE  /\ Running
           /\ runtime \in Runtime /\ runtime.token \in Token
           /\ snapshot \in Values /\ snapshot # Nothing /\ runtime # Nothing
           /\ answer # Nothing => answer \in Token
BY DEF IInv, TypeOK, LifecycleInv, Running, PollMayRun, FirstRefreshing, Scheduled, Runtime

(* What storing a rotation writes: the same token to entry, snapshot and   *)
(* runtime.                                                                *)
LEMMA StoresEverywhere ==
    ASSUME IInv, PollStores
    PROVE  /\ [data EXCEPT !.token = answer] \in Values
           /\ Write([data EXCEPT !.token = answer], [data EXCEPT !.token = answer], 0)
           /\ data' = [data EXCEPT !.token = answer] /\ snapshot' = data'
           /\ data'.token = answer
           /\ runtime' = [runtime EXCEPT !.token = answer] /\ runtime' \in Runtime
           /\ runtime'.token = answer /\ runtime'.options = runtime.options
           /\ reloads' = reloads
<1>1. /\ runtime \in Runtime /\ snapshot # Nothing /\ answer \in Token
      /\ data \in Values /\ reloads \in Nat
  BY PollHasRuntime DEF PollStores, IInv, TypeOK
<1>2. Write([data EXCEPT !.token = answer], [data EXCEPT !.token = answer], 0)
  BY <1>1 DEF PollStores
<1>3. [data EXCEPT !.token = answer] \in Values /\ runtime' \in Runtime
  BY <1>1 DEF PollStores, Values, Runtime
<1>4. reloads' = 0 + reloads
  BY <1>2 DEF Write
<1>5. data' = [data EXCEPT !.token = answer] /\ snapshot' = data'
  BY <1>2 DEF Write
<1>6. runtime' = [runtime EXCEPT !.token = answer]
  BY DEF PollStores
<1> QED
  BY <1>1, <1>2, <1>3, <1>4, <1>5, <1>6 DEF Values, Runtime

(* The runtime's polls.                                                    *)
LEMMA PollIInv == IInv /\ Poll => IInv'
<1> SUFFICES ASSUME IInv, Poll PROVE IInv'
  OBVIOUS
<1>1. CASE PollRefreshes
  <2>1. runtime \in Runtime /\ runtime.token \in Token /\ Running
    BY <1>1, PollHasRuntime DEF PollRefreshes
  <2>2. answer' \in Token /\ live' \in [Login -> 1 .. MaxGeneration]
    BY <1>1, <2>1, ReplaceTyped DEF IInv, TypeOK, PollRefreshes
  <2>3. AnswerInv'
    BY <1>1 DEF AnswerInv, PollRefreshes, Replace, Replacement
  <2> QED
    BY <1>1, <2>1, <2>2, <2>3 DEF IInv, TypeOK, LifecycleInv, Running, FirstRefreshing,
       RefreshingInv, PollRefreshes, ha
<1>2. CASE PollStores
  <2>1. /\ data' \in Values /\ snapshot' \in Values /\ runtime' \in Runtime
        /\ reloads' = reloads /\ snapshot'.token = runtime'.token
        /\ runtime'.options = runtime.options
    BY <1>2, StoresEverywhere
  <2>2. TypeOK'
    BY <1>2, <2>1 DEF IInv, TypeOK, PollStores, ha
  <2>3. LifecycleInv'
    BY <1>2, <2>1, NothingAssumption, PollHasRuntime
    DEF IInv, LifecycleInv, Running, FirstRefreshing, PollStores, ha
  <2> QED
    BY <1>2, <2>2, <2>3 DEF IInv, RefreshingInv, AnswerInv, PollStores
<1>3. CASE PollLosesAnswer
  BY <1>3 DEF IInv, TypeOK, LifecycleInv, Running, FirstRefreshing, RefreshingInv,
     AnswerInv, Scheduled, PollLosesAnswer, ha
<1>4. CASE PollRejected
  BY <1>4 DEF IInv, TypeOK, LifecycleInv, Running, FirstRefreshing, RefreshingInv,
     AnswerInv, Scheduled, PollRejected, ha
<1> QED
  BY <1>1, <1>2, <1>3, <1>4 DEF Poll

(* A form that writes typed values and is done with.                       *)
LEMMA FlowWrite ==
    ASSUME IInv,
           NEW values \in Values, NEW extra \in {0, 1}, Write(values, snapshot, extra),
           UNCHANGED <<runtime, state, listener, polling, answer, live>>,
           reauth' \in BOOLEAN,
           NEW f \in Flow, flow' \in {flow, [flow EXCEPT ![f] = Nothing]}
    PROVE  IInv'
<1>1. data' \in Values /\ snapshot' \in Values \cup {Nothing} /\ reloads' \in 0 .. MaxReloads
  BY WriteTyped DEF IInv, TypeOK
<1>2. snapshot' = snapshot /\ data' = values
  BY DEF Write
<1>3. flow' \in [Flow -> Submission \cup {Nothing}]
  BY DEF IInv, TypeOK
<1>4. TypeOK'
  BY <1>1, <1>3 DEF IInv, TypeOK
<1>5. ASSUME NEW g \in Flow PROVE flow'[g] \in {flow[g], Nothing}
  BY DEF IInv, TypeOK
<1>6. RefreshingInv'
  BY <1>5 DEF IInv, RefreshingInv
<1>7. LifecycleInv' /\ AnswerInv'
  BY <1>2 DEF IInv, LifecycleInv, Running, FirstRefreshing, AnswerInv
<1> QED
  BY <1>4, <1>6, <1>7 DEF IInv

(* Validation changes submissions and the server only.                     *)
LEMMA FlowChanges ==
    ASSUME IInv, UNCHANGED <<data, snapshot, runtime, ha, reloads, polling, reauth, answer>>,
           live' \in [Login -> 1 .. MaxGeneration],
           flow' \in [Flow -> Submission \cup {Nothing}], RefreshingInv'
    PROVE  IInv'
BY DEF IInv, TypeOK, LifecycleInv, Running, FirstRefreshing, AnswerInv, ha

(* What a validation that stores a replacement leaves in its form.         *)
LEMMA StoresInForm ==
    ASSUME IInv, NEW f \in Flow, ValidationStores(f)
    PROVE  /\ flow' \in [Flow -> Submission \cup {Nothing}]
           /\ flow'[f].stage = "retrying"
           /\ flow'[f].token = Replacement(flow[f].token)
           /\ flow'[f].token.login = flow[f].token.login
           /\ flow'[f].token.gen = flow[f].token.gen + 1
           /\ \A g \in Flow : g # f => flow'[g] = flow[g]
<1>1. flow[f] \in Submission /\ flow[f].token \in Token /\ flow[f].token.gen < MaxGeneration
  BY DEF ValidationStores, IInv, TypeOK, RefreshingInv, Submission
<1>2. Replacement(flow[f].token) = [login |-> flow[f].token.login,
                                    gen |-> flow[f].token.gen + 1]
  BY <1>1 DEF Token, Replacement
<1>3. Replacement(flow[f].token) \in Token
  BY <1>1, <1>2, ConstantsAssumption DEF Token
<1>4. flow' = [flow EXCEPT ![f] =
          [flow[f] EXCEPT !.stage = "retrying", !.token = Replacement(flow[f].token)]]
  BY <1>1 DEF ValidationStores, IInv, TypeOK, Submission
<1>5. [flow[f] EXCEPT !.stage = "retrying", !.token = Replacement(flow[f].token)]
          \in [stage : {"retrying"}, token : {Replacement(flow[f].token)},
              sessionId : SessionId, options : Options]
  BY <1>1 DEF Submission
<1>6. flow'[f] \in [stage : {"retrying"}, token : {Replacement(flow[f].token)},
                   sessionId : SessionId, options : Options]
  BY <1>4, <1>5 DEF IInv, TypeOK
<1>7. flow'[f] \in Submission
  BY <1>3, <1>6 DEF Submission
<1> QED
  BY <1>2, <1>4, <1>6, <1>7 DEF IInv, TypeOK

(* The flows' steps.                                                       *)
LEMMA FormsIInv == IInv /\ Forms => IInv'
<1> SUFFICES ASSUME IInv, Forms PROVE IInv'
  OBVIOUS
<1>1. ASSUME NEW sessionId \in SessionId, NEW options \in Options,
             SaveSettings(sessionId, options)
      PROVE IInv'
  <2>1. [data EXCEPT !.sessionId = sessionId, !.options = options] \in Values
    BY DEF IInv, TypeOK, Values
  <2>2. /\ Write([data EXCEPT !.sessionId = sessionId, !.options = options], snapshot, 0)
        /\ UNCHANGED <<runtime, state, listener, polling, answer, live>>
        /\ reauth' \in BOOLEAN /\ flow' = flow /\ "options" \in Flow
    BY <1>1 DEF SaveSettings, ha, IInv, TypeOK, Flow
  <2> QED
    BY <2>1, <2>2, FlowWrite
<1>2. ASSUME NEW f \in Flow, NEW token \in Token, NEW sessionId \in SessionId,
             NEW options \in Options, Submit(f, token, sessionId, options)
      PROVE  IInv'
  <2>1. [stage |-> "validating", token |-> token, sessionId |-> sessionId,
         options |-> options] \in Submission
    BY DEF Submission
  <2>2. flow' \in [Flow -> Submission \cup {Nothing}] /\ live' = live
    BY <1>2, <2>1 DEF Submit, IInv, TypeOK
  <2>3. RefreshingInv'
    BY <1>2 DEF Submit, IInv, TypeOK, RefreshingInv
  <2> QED
    BY <1>2, <2>2, <2>3, FlowChanges DEF Submit, IInv, TypeOK
<1>3. ASSUME NEW f \in Flow, ValidationRefreshes(f) PROVE IInv'
  <2>1. flow[f] \in Submission /\ flow[f].token \in Token
    BY <1>3 DEF ValidationRefreshes, IInv, TypeOK, Submission
  <2>2. live' \in [Login -> 1 .. MaxGeneration]
    BY <1>3, <2>1, ReplaceTyped DEF ValidationRefreshes, IInv, TypeOK
  <2>3. [flow[f] EXCEPT !.stage = "refreshing"] \in Submission
    BY <2>1 DEF Submission
  <2>4. flow' \in [Flow -> Submission \cup {Nothing}]
    BY <1>3, <2>3 DEF ValidationRefreshes, IInv, TypeOK
  <2>5. RefreshingInv'
    <3>1. flow'[f].token.gen < MaxGeneration
      BY <1>3, <2>1 DEF ValidationRefreshes, Replace, IInv, TypeOK
    <3>2. ASSUME NEW g \in Flow, g # f PROVE flow'[g] = flow[g]
      BY <1>3, <3>2 DEF ValidationRefreshes, IInv, TypeOK
    <3> QED
      BY <3>1, <3>2 DEF IInv, RefreshingInv
  <2> QED
    BY <1>3, <2>2, <2>4, <2>5, FlowChanges DEF ValidationRefreshes
<1>4. ASSUME NEW f \in Flow, ValidationStores(f) PROVE IInv'
  <2>1. RefreshingInv'
    BY <1>4, StoresInForm DEF IInv, RefreshingInv
  <2> QED
    BY <1>4, <2>1, StoresInForm, FlowChanges DEF ValidationStores, IInv, TypeOK
<1>5. ASSUME NEW f \in Flow, ValidationFails(f) PROVE IInv'
  <2>1. flow' \in [Flow -> Submission \cup {Nothing}] /\ RefreshingInv'
    BY <1>5 DEF ValidationFails, IInv, TypeOK, RefreshingInv
  <2> QED
    BY <1>5, <2>1, FlowChanges DEF ValidationFails, IInv, TypeOK
<1>6. CASE SaveOptions
  <2>1. flow["options"] \in Submission
    BY <1>6 DEF SaveOptions, Validated, IInv, TypeOK, Flow
  <2>2. [token |-> flow["options"].token, sessionId |-> flow["options"].sessionId,
         options |-> flow["options"].options] \in Values
    BY <2>1 DEF Submission, Values
  <2>3. /\ Write([token |-> flow["options"].token, sessionId |-> flow["options"].sessionId,
         options |-> flow["options"].options],
                 snapshot, 0)
        /\ UNCHANGED <<runtime, state, listener, polling, answer, live>>
        /\ reauth' \in BOOLEAN
        /\ flow' = [flow EXCEPT !["options"] = Nothing] /\ "options" \in Flow
    BY <1>6 DEF SaveOptions, ha, IInv, TypeOK, Flow
  <2> QED
    BY <2>2, <2>3, FlowWrite
<1>7. CASE SaveReauth
  <2>1. flow["reauth"] \in Submission
    BY <1>7 DEF SaveReauth, Validated, IInv, TypeOK, Flow
  <2>2. [data EXCEPT !.token = flow["reauth"].token,
                     !.sessionId = flow["reauth"].sessionId] \in Values
    BY <2>1 DEF Submission, Values, IInv, TypeOK
  <2> DEFINE extra == IF state = "loaded" THEN 0 ELSE 1
  <2>3. /\ Write([data EXCEPT !.token = flow["reauth"].token,
                     !.sessionId = flow["reauth"].sessionId], snapshot, extra)
        /\ UNCHANGED <<runtime, state, listener, polling, answer, live>>
        /\ reauth' \in BOOLEAN /\ extra \in {0, 1}
        /\ flow' = [flow EXCEPT !["reauth"] = Nothing] /\ "reauth" \in Flow
    BY <1>7 DEF SaveReauth, ha, IInv, TypeOK, Flow
  <2> HIDE DEF extra
  <2> QED
    BY <2>2, <2>3, FlowWrite
<1>8. ASSUME NEW token \in Token, NEW sessionId \in SessionId, NEW options \in Options,
             SubmitOptions(token, sessionId, options)
      PROVE  IInv'
  BY <1>2, <1>8 DEF SubmitOptions, Flow
<1>9. ASSUME NEW token \in Token, NEW sessionId \in SessionId,
             SubmitReauth(token, sessionId)
      PROVE  IInv'
  <2>1. data.options \in Options /\ data.sessionId \in SessionId
    BY DEF IInv, TypeOK, Values
  <2> QED
    BY <1>2, <1>9, <2>1 DEF SubmitReauth, Flow
<1> QED
  BY <1>1, <1>3, <1>4, <1>5, <1>6, <1>7, <1>8, <1>9 DEF Forms

LEMMA Invariance == Spec => []IInv
<1>1. IInv /\ UNCHANGED vars => IInv'
  BY DEF vars, ha, IInv, TypeOK, LifecycleInv, Running, FirstRefreshing, RefreshingInv,
     AnswerInv
<1>2. IInv /\ [Next]_vars => IInv'
  BY <1>1, LifecycleIInv, PollIInv, FormsIInv DEF Next
<1> QED
  BY <1>2, InitIInv, PTL DEF Spec

(* The entry, the runtime and the flows keep their types, whatever the     *)
(* user does.                                                              *)
THEOREM TypeCorrect == Spec => []TypeOK
<1>1. IInv => TypeOK
  BY DEF IInv
<1> QED
  BY <1>1, Invariance, PTL

(* Persisting a rotation (__init__.py:93-104) never queues a reload,       *)
(* whatever the user edits meanwhile.                                      *)
THEOREM RotationIsQuiet == Spec => RotationNeverReloads
<1>1. IInv /\ [Next]_vars => [PollStores => UNCHANGED reloads]_vars
  BY StoresEverywhere
<1> QED
  BY <1>1, Invariance, PTL DEF Spec, RotationNeverReloads

-----------------------------------------------------------------------------
(* The runtime is current, as long as nothing is saved during a first      *)
(* refresh.                                                                *)

(* Stored, remembered and running values are the same from the start of    *)
(* setup on, as far as the platforms have read them, unless a reload waits *)
(* to make them so.                                                        *)
CurrentInv ==
    state \in {"setup_in_progress", "loaded"} /\ reloads = 0 =>
        snapshot = data /\ runtime \in {data, ClientOf(data)}

LEMMA LifecycleCurrent == IInv /\ CurrentInv /\ Lifecycle => CurrentInv'
<1> SUFFICES ASSUME IInv, CurrentInv, Lifecycle PROVE CurrentInv'
  OBVIOUS
<1> USE DEF CurrentInv, ha
<1>0. CASE SetUpPlatforms
  <2>1. data \in Values /\ (runtime \in {data, ClientOf(data)} => runtime' = data)
    BY <1>0, PlatformsRead DEF IInv, TypeOK, SetUpPlatforms, ClientOf, Values
  <2> QED
    BY <1>0, <2>1 DEF SetUpPlatforms
<1>1. CASE BeginSetup \/ FirstRefreshSucceeds \/ SetupDone
  BY <1>1 DEF BeginSetup, FirstRefreshSucceeds, FirstRefreshing, SetupDone
<1>2. CASE (\E authFailed \in BOOLEAN : SetupFails(authFailed)) \/ UnloadDone \/ Restart
  BY <1>2 DEF SetupFails, UnloadDone, Restart
<1>3. CASE BeginReload \/ UserReload
  BY <1>3, ConstantsAssumption DEF BeginReload, UserReload, IInv, TypeOK
<1> QED
  BY <1>0, <1>1, <1>2, <1>3 DEF Lifecycle

LEMMA PollCurrent == IInv /\ CurrentInv /\ Poll => CurrentInv'
<1> SUFFICES ASSUME IInv, CurrentInv, Poll PROVE CurrentInv'
  OBVIOUS
<1>1. CASE PollStores
  <2>1. /\ data' = [data EXCEPT !.token = answer] /\ snapshot' = data'
        /\ runtime' = [runtime EXCEPT !.token = answer] /\ reloads' = reloads /\ state' = state
    BY <1>1, StoresEverywhere DEF PollStores, ha
  <2>2. runtime \in {data, ClientOf(data)} => runtime' \in {data', ClientOf(data')}
    BY <2>1 DEF ClientOf, IInv, TypeOK, Values
  <2> QED
    BY <2>1, <2>2 DEF CurrentInv
<1>2. CASE PollRefreshes \/ PollLosesAnswer \/ PollRejected
  BY <1>2 DEF CurrentInv, PollRefreshes, PollLosesAnswer, PollRejected, ha
<1> QED
  BY <1>1, <1>2 DEF Poll

(* A form's write is seen by the listener, or its form asks for a reload.  *)
LEMMA WriteCurrent ==
    ASSUME IInv, CurrentInv,
           NEW values \in Values, NEW extra \in {0, 1}, Write(values, snapshot, extra),
           FirstRefreshing => extra = 1, UNCHANGED <<runtime, state, listener>>
    PROVE  CurrentInv'
<1> SUFFICES ASSUME state' \in {"setup_in_progress", "loaded"}, reloads' = 0
             PROVE  snapshot' = data' /\ runtime' \in {data', ClientOf(data')}
  BY DEF CurrentInv
<1>1. reloads = 0 /\ extra = 0 /\ (listener => values = data \/ snapshot = values)
  BY WriteQueues DEF IInv, TypeOK
<1>2. snapshot = data /\ runtime \in {data, ClientOf(data)}
  BY <1>1 DEF CurrentInv
<1>3. listener
  BY <1>1 DEF IInv, LifecycleInv, FirstRefreshing
<1> QED
  BY <1>1, <1>2, <1>3 DEF Write

LEMMA FormsCurrent ==
    ASSUME "save_while_starting" \notin UserActs, IInv, CurrentInv, Forms
    PROVE  CurrentInv'
<1>1. MaySave => ~FirstRefreshing
  BY DEF MaySave
<1>2. ASSUME NEW sessionId \in SessionId, NEW options \in Options,
             SaveSettings(sessionId, options)
      PROVE CurrentInv'
  <2>1. [data EXCEPT !.sessionId = sessionId, !.options = options] \in Values
    BY DEF IInv, TypeOK, Values
  <2> QED
    BY <1>1, <1>2, <2>1, WriteCurrent DEF SaveSettings, ha
<1>3. CASE SaveOptions
  <2>1. [token |-> flow["options"].token, sessionId |-> flow["options"].sessionId,
         options |-> flow["options"].options] \in Values
    BY <1>3 DEF SaveOptions, Validated, IInv, TypeOK, Flow, Submission, Values
  <2> QED
    BY <1>1, <1>3, <2>1, WriteCurrent DEF SaveOptions, ha
<1>4. CASE SaveReauth
  <2>1. [data EXCEPT !.token = flow["reauth"].token,
                     !.sessionId = flow["reauth"].sessionId] \in Values
    BY <1>4 DEF SaveReauth, Validated, IInv, TypeOK, Flow, Submission, Values
  <2> DEFINE extra == IF state = "loaded" THEN 0 ELSE 1
  <2>2. /\ Write([data EXCEPT !.token = flow["reauth"].token,
                     !.sessionId = flow["reauth"].sessionId], snapshot, extra)
        /\ FirstRefreshing => extra = 1
        /\ extra \in {0, 1}
        /\ UNCHANGED <<runtime, state, listener>>
    BY <1>4 DEF SaveReauth, FirstRefreshing, ha
  <2> HIDE DEF extra
  <2> QED
    BY <2>1, <2>2, WriteCurrent
<1>5. CASE \/ \E sessionId \in SessionId, options \in Options, token \in Token :
                 SubmitOptions(token, sessionId, options)
           \/ \E token \in Token, sessionId \in SessionId : SubmitReauth(token, sessionId)
           \/ \E f \in Flow : ValidationRefreshes(f) \/ ValidationStores(f) \/ ValidationFails(f)
  <2>1. UNCHANGED <<data, snapshot, runtime, state, reloads>>
    BY <1>5 DEF SubmitOptions, SubmitReauth, Submit, ValidationRefreshes, ValidationStores,
       ValidationFails, ha
  <2> QED
    BY <2>1 DEF CurrentInv
<1> QED
  BY <1>2, <1>3, <1>4, <1>5 DEF Forms

LEMMA CurrentInvariance ==
    ASSUME "save_while_starting" \notin UserActs
    PROVE  Spec => [](IInv /\ CurrentInv)
<1>1. Init => CurrentInv
  BY DEF Init, CurrentInv
<1>2. IInv /\ CurrentInv /\ [Next]_vars => CurrentInv'
  <2>1. CurrentInv /\ UNCHANGED vars => CurrentInv'
    BY DEF vars, ha, CurrentInv
  <2> QED
    BY <2>1, LifecycleCurrent, PollCurrent, FormsCurrent DEF Next
<1> QED
  BY <1>1, <1>2, Invariance, PTL DEF Spec

(* A loaded entry without a waiting reload has a client of the stored      *)
(* credentials and entities of the stored options: every edit after the    *)
(* first refresh reaches the listener (__init__.py:75-90).  An edit during *)
(* it does not, the subject of the run saved_while_starting.               *)
THEOREM LoadedIsCurrent ==
    ASSUME "save_while_starting" \notin UserActs
    PROVE  Spec => []LoadedRuntimeIsCurrent
<1>1. IInv /\ CurrentInv => LoadedRuntimeIsCurrent
  BY ClientTyped DEF IInv, TypeOK, LifecycleInv, CurrentInv, LoadedRuntimeIsCurrent
<1> QED
  BY <1>1, CurrentInvariance, PTL

(* Unless its runtime is about to go, a rotation stores the successor of   *)
(* the very token that is stored (__init__.py:50-61): it overwrites no     *)
(* credentials of the user.  So the run old_rotation shows the only way    *)
(* there is: the runtime that polls on between an edit and its reload.     *)
RotationIsNext ==
    [][PollStores /\ reloads = 0 /\ state # "unload_in_progress" =>
           data'.token = Replacement(data.token)]_vars

(* In step with the entry, the runtime only ever moves it to the next      *)
(* generation (__init__.py:50-61).                                         *)
THEOREM RotationStoresTheNext ==
    ASSUME "save_while_starting" \notin UserActs
    PROVE  Spec => RotationIsNext
<1>1. IInv /\ CurrentInv /\ [Next]_vars =>
          [PollStores /\ reloads = 0 /\ state # "unload_in_progress" =>
               data'.token = Replacement(data.token)]_vars
  <2> SUFFICES ASSUME IInv, CurrentInv, PollStores, reloads = 0, state # "unload_in_progress"
               PROVE  data'.token = Replacement(data.token)
    OBVIOUS
  <2>1. Running /\ data'.token = answer /\ answer # Nothing
    BY PollHasRuntime, StoresEverywhere DEF PollStores
  <2>2. runtime.token = data.token
    BY <2>1, ClientTyped DEF CurrentInv, Running, IInv, TypeOK
  <2> QED
    BY <2>1, <2>2 DEF IInv, AnswerInv
<1> QED
  BY <1>1, CurrentInvariance, PTL DEF Spec, RotationIsNext

-----------------------------------------------------------------------------
(* Forms that are only given a working token of a login that neither the   *)
(* entry, the runtime nor the other form uses.  The other form may be      *)
(* given any token of any other login.                                     *)

LoginForms ==
    {f \in Flow : /\ "both_forms" \notin UserActs
                  /\ f = "options" => {"access_token_only", "known_login"} \cap UserActs = {}
                  /\ f = "reauth" => "repeat_credentials" \notin UserActs}

\* The token of such a form's submission is of a login nobody else uses ...
ApartInv ==
    \A f \in LoginForms : flow[f] # Nothing =>
        /\ flow[f].token.login # data.token.login
        /\ runtime # Nothing => flow[f].token.login # runtime.token.login
        /\ \A g \in Flow : g # f /\ flow[g] # Nothing =>
              flow[f].token.login # flow[g].token.login

\* ... so it works until the submission itself uses it.
FreshInv ==
    \A f \in LoginForms : flow[f] # Nothing =>
        live[flow[f].token.login] =
            flow[f].token.gen + IF flow[f].stage = "refreshing" THEN 1 ELSE 0

LoginInv == ApartInv /\ FreshInv

LEMMA LifecycleLogin == IInv /\ LoginInv /\ Lifecycle => LoginInv'
<1> SUFFICES ASSUME IInv, LoginInv, Lifecycle PROVE LoginInv'
  OBVIOUS
<1> USE DEF LoginInv, ApartInv, FreshInv, ha, LoginForms
<1>1. CASE BeginSetup
  <2>1. runtime'.token = data.token
    BY <1>1, ClientTyped DEF BeginSetup, IInv, TypeOK
  <2> QED
    BY <1>1, <2>1 DEF BeginSetup
<1>2. CASE \/ FirstRefreshSucceeds \/ SetupDone \/ BeginReload \/ UserReload \/ UnloadDone
           \/ \E authFailed \in BOOLEAN : SetupFails(authFailed)
  BY <1>2 DEF FirstRefreshSucceeds, SetupDone, SetupFails, BeginReload, UserReload, UnloadDone
<1>3. CASE Restart
  BY <1>3 DEF Restart
<1>4. CASE SetUpPlatforms
  <2>1. runtime # Nothing /\ runtime'.token = runtime.token
    BY <1>4, PlatformsRead, NothingAssumption
  <2> QED
    BY <1>4, <2>1 DEF SetUpPlatforms
<1> QED
  BY <1>1, <1>2, <1>3, <1>4 DEF Lifecycle

(* A poll rotates the runtime's login, which is no submission's.           *)
LEMMA PollLogin == IInv /\ LoginInv /\ Poll => LoginInv'
<1> SUFFICES ASSUME IInv, LoginInv, Poll PROVE LoginInv'
  OBVIOUS
<1> USE DEF LoginInv, ApartInv, FreshInv, LoginForms
<1>1. CASE PollRefreshes
  <2>1. runtime # Nothing /\ runtime.token \in Token
    BY <1>1, PollHasRuntime DEF PollRefreshes
  <2>2. live' = [live EXCEPT ![runtime.token.login] = @ + 1]
    BY <1>1 DEF PollRefreshes, Replace
  <2>3. \A f \in LoginForms : flow[f] # Nothing =>
            live'[flow[f].token.login] = live[flow[f].token.login]
    BY <2>1, <2>2 DEF IInv, TypeOK
  <2> QED
    BY <1>1, <2>3 DEF PollRefreshes
<1>2. CASE PollStores
  <2>1. /\ runtime # Nothing /\ runtime.token \in Token /\ answer # Nothing
        /\ answer = Replacement(runtime.token)
    BY <1>2, PollHasRuntime DEF PollStores, IInv, AnswerInv
  <2>2. answer.login = runtime.token.login
    BY <2>1 DEF Replacement, Token
  <2>3. data'.token = answer /\ runtime'.token = answer /\ flow' = flow /\ live' = live
    BY <1>2, StoresEverywhere DEF PollStores
  <2> QED
    BY <2>1, <2>2, <2>3
<1>3. CASE PollLosesAnswer \/ PollRejected
  BY <1>3 DEF PollLosesAnswer, PollRejected
<1> QED
  BY <1>1, <1>2, <1>3 DEF Poll

(* What a form that is no LoginForm may be given besides new logins: the   *)
(* stored token, or any token of a login the other form has not.           *)
KnownLogin(f, token) ==
    f \notin LoginForms /\ (token = data.token \/ KnownToken(f, token))

(* A submission leaves the LoginForms' apart from all others.              *)
LEMMA SubmitLogin ==
    ASSUME IInv, LoginInv, NEW f \in Flow, NEW token \in Token,
           NEW sessionId, NEW options,
           NewLogin(token) \/ KnownLogin(f, token),
           Submit(f, token, sessionId, options)
    PROVE  LoginInv'
<1>1. /\ flow'[f] = [stage |-> "validating", token |-> token, sessionId |-> sessionId,
         options |-> options]
      /\ \A g \in Flow : g # f => flow'[g] = flow[g]
  BY DEF Submit, IInv, TypeOK
<1>2. flow'[f].token = token /\ flow'[f].stage = "validating"
  BY <1>1
<1>3. UNCHANGED <<data, runtime, live>>
  BY DEF Submit
<1>4. \A g \in Flow : flow[g] # Nothing /\ (f \in LoginForms \/ g \in LoginForms) =>
          token.login # flow[g].token.login
  BY DEF NewLogin, LoginInv, ApartInv, KnownLogin, KnownToken, Submit, LoginForms
<1>5. f \in LoginForms =>
          /\ token.login # data.token.login
          /\ runtime # Nothing => token.login # runtime.token.login
          /\ live[token.login] = token.gen
  BY DEF NewLogin, Usable, KnownLogin
<1>6. ApartInv'
  <2> SUFFICES ASSUME NEW h \in LoginForms, flow'[h] # Nothing
               PROVE  /\ flow'[h].token.login # data.token.login
                      /\ runtime # Nothing => flow'[h].token.login # runtime.token.login
                      /\ \A g \in Flow : g # h /\ flow'[g] # Nothing =>
                            flow'[h].token.login # flow'[g].token.login
    BY <1>3 DEF ApartInv
  <2>1. CASE h = f
    BY <1>1, <1>2, <1>4, <1>5, <2>1
  <2>2. CASE h # f
    <3>1. flow'[h] = flow[h] /\ flow[h] # Nothing /\ h \in Flow
      BY <1>1, <2>2 DEF LoginForms
    <3> QED
      BY <1>1, <1>2, <1>4, <3>1 DEF LoginInv, ApartInv
  <2> QED
    BY <2>1, <2>2
<1>7. FreshInv'
  <2>1. token.gen + 0 = token.gen
    BY ConstantsAssumption DEF Token
  <2> SUFFICES ASSUME NEW h \in LoginForms, flow'[h] # Nothing
               PROVE  live[flow'[h].token.login] =
                   flow'[h].token.gen + IF flow'[h].stage = "refreshing" THEN 1 ELSE 0
    BY <1>3 DEF FreshInv
  <2>2. CASE h = f
    BY <1>2, <1>5, <2>1, <2>2
  <2>3. CASE h # f
    BY <1>1, <2>3 DEF LoginInv, FreshInv, LoginForms
  <2> QED
    BY <2>2, <2>3
<1> QED
  BY <1>6, <1>7 DEF LoginInv

(* A validation uses up the token of its own submission only.              *)
LEMMA RefreshesLogin ==
    ASSUME IInv, LoginInv, NEW f \in Flow, ValidationRefreshes(f) PROVE LoginInv'
<1>1. flow[f] \in Submission /\ flow[f].token \in Token /\ flow[f] # Nothing
  BY DEF ValidationRefreshes, IInv, TypeOK, Submission
<1>2. /\ flow'[f].token = flow[f].token /\ flow'[f].stage = "refreshing"
      /\ \A g \in Flow : g # f => flow'[g] = flow[g]
  <2>1. flow' = [flow EXCEPT ![f] = [flow[f] EXCEPT !.stage = "refreshing"]]
    BY DEF ValidationRefreshes
  <2>2. [flow[f] EXCEPT !.stage = "refreshing"]
          \in [stage : {"refreshing"}, token : {flow[f].token},
              sessionId : SessionId, options : Options]
    BY <1>1 DEF Submission
  <2> QED
    BY <2>1, <2>2 DEF IInv, TypeOK
<1>3. /\ live'[flow[f].token.login] = live[flow[f].token.login] + 1
      /\ \A s \in Login : s # flow[f].token.login => live'[s] = live[s]
  BY <1>1 DEF ValidationRefreshes, Replace, IInv, TypeOK, Token
<1>4. live[flow[f].token.login] = flow[f].token.gen
  BY DEF ValidationRefreshes, Replace, Usable
<1>5. UNCHANGED <<data, runtime>>
  BY DEF ValidationRefreshes
<1>6. ApartInv'
  <2>1. \A g \in Flow : (flow'[g] # Nothing => flow[g] # Nothing)
                        /\ (flow'[g] # Nothing => flow'[g].token = flow[g].token)
    BY <1>1, <1>2
  <2> QED
    BY <1>5, <2>1 DEF LoginInv, ApartInv, LoginForms
<1>7. ASSUME NEW h \in LoginForms, flow'[h] # Nothing
      PROVE  live'[flow'[h].token.login] =
                 flow'[h].token.gen + IF flow'[h].stage = "refreshing" THEN 1 ELSE 0
  <2>1. CASE h = f
    BY <1>2, <1>3, <1>4, <2>1
  <2>2. CASE h # f
    <3>1. flow'[h] = flow[h] /\ h \in Flow
      BY <1>2, <2>2 DEF LoginForms
    <3>2. flow[h].token.login \in Login
          /\ flow[h].token.login # flow[f].token.login
      BY <1>1, <1>7, <2>2, <3>1 DEF LoginInv, ApartInv, IInv, TypeOK, Submission, Token
    <3>3. live'[flow[h].token.login] = live[flow[h].token.login]
      BY <1>3, <3>2
    <3> QED
      BY <1>7, <3>1, <3>3 DEF LoginInv, FreshInv
  <2> QED
    BY <2>1, <2>2
<1>8. FreshInv'
  BY <1>7 DEF FreshInv
<1> QED
  BY <1>6, <1>8 DEF LoginInv

LEMMA StoresLogin ==
    ASSUME IInv, LoginInv, NEW f \in Flow, ValidationStores(f) PROVE LoginInv'
<1>1. /\ flow'[f].stage = "retrying"
      /\ flow'[f].token.login = flow[f].token.login
      /\ flow'[f].token.gen = flow[f].token.gen + 1
      /\ \A g \in Flow : g # f => flow'[g] = flow[g]
      /\ flow[f] # Nothing /\ flow[f].stage = "refreshing"
      /\ UNCHANGED <<data, runtime, live>>
  BY StoresInForm DEF ValidationStores
<1>2. flow[f].token.gen \in Nat
  BY <1>1, ConstantsAssumption DEF IInv, TypeOK, Submission, Token
<1>3. ApartInv'
  <2>1. \A g \in Flow : flow'[g] # Nothing =>
            flow[g] # Nothing /\ flow'[g].token.login = flow[g].token.login
    BY <1>1
  <2> QED
    BY <1>1, <2>1 DEF LoginInv, ApartInv, LoginForms
<1>4. ASSUME NEW h \in LoginForms, flow'[h] # Nothing
      PROVE  live'[flow'[h].token.login] =
                 flow'[h].token.gen + IF flow'[h].stage = "refreshing" THEN 1 ELSE 0
  <2>1. CASE h = f
    BY <1>1, <1>2, <2>1 DEF LoginInv, FreshInv
  <2>2. CASE h # f
    BY <1>1, <1>4, <2>2 DEF LoginInv, FreshInv, LoginForms
  <2> QED
    BY <2>1, <2>2
<1> QED
  BY <1>3, <1>4 DEF LoginInv, FreshInv

(* A form that is done with leaves: its token may become the entry's.      *)
LEMMA DoneLogin ==
    ASSUME IInv, LoginInv, NEW f \in Flow, flow[f] # Nothing,
           flow' = [flow EXCEPT ![f] = Nothing],
           data'.token = data.token \/ data'.token = flow[f].token,
           UNCHANGED <<runtime, live>>
    PROVE  LoginInv'
<1>1. flow'[f] = Nothing /\ \A g \in Flow : g # f => flow'[g] = flow[g]
  BY DEF IInv, TypeOK
<1>2. FreshInv'
  BY <1>1 DEF LoginInv, FreshInv, LoginForms
<1>3. ApartInv'
  <2> SUFFICES ASSUME NEW h \in LoginForms, flow'[h] # Nothing
               PROVE  /\ flow'[h].token.login # data'.token.login
                      /\ runtime # Nothing => flow'[h].token.login # runtime.token.login
                      /\ \A g \in Flow : g # h /\ flow'[g] # Nothing =>
                            flow'[h].token.login # flow'[g].token.login
    BY DEF ApartInv
  <2>1. h # f /\ flow'[h] = flow[h] /\ h \in Flow
    BY <1>1 DEF LoginForms
  <2> QED
    BY <1>1, <2>1 DEF LoginInv, ApartInv
<1> QED
  BY <1>2, <1>3 DEF LoginInv

LEMMA FormsLogin == IInv /\ LoginInv /\ Forms => LoginInv'
<1> SUFFICES ASSUME IInv, LoginInv, Forms PROVE LoginInv'
  OBVIOUS
<1>1. ASSUME NEW sessionId \in SessionId, NEW options \in Options,
             SaveSettings(sessionId, options)
      PROVE LoginInv'
  <2>1. data'.token = data.token /\ UNCHANGED <<flow, runtime, live>>
    BY <1>1 DEF SaveSettings, Write, IInv, TypeOK, Values
  <2> QED
    BY <2>1 DEF LoginInv, ApartInv, FreshInv
<1>2. ASSUME NEW token \in Token, NEW sessionId \in SessionId, NEW options \in Options,
             SubmitOptions(token, sessionId, options)
      PROVE  LoginInv'
  <2>1. "options" \in Flow
    BY DEF Flow
  <2>2. NewLogin(token) \/ KnownLogin("options", token)
    BY <1>2 DEF SubmitOptions, LoginForms, KnownLogin
  <2> QED
    BY <1>2, <2>1, <2>2, SubmitLogin DEF SubmitOptions
<1>3. ASSUME NEW token \in Token, NEW sessionId \in SessionId,
             SubmitReauth(token, sessionId)
      PROVE  LoginInv'
  <2>1. "reauth" \in Flow
    BY DEF Flow
  <2>2. NewLogin(token) \/ KnownLogin("reauth", token)
    BY <1>3 DEF SubmitReauth, LoginForms, KnownLogin
  <2> QED
    BY <1>3, <2>1, <2>2, SubmitLogin DEF SubmitReauth
<1>4. ASSUME NEW f \in Flow, ValidationFails(f) PROVE LoginInv'
  BY <1>4, DoneLogin DEF ValidationFails
<1>5. CASE SaveOptions
  <2>1. /\ "options" \in Flow /\ flow["options"] # Nothing
        /\ data'.token = flow["options"].token
    BY <1>5 DEF SaveOptions, Validated, Write, Flow
  <2> QED
    BY <1>5, <2>1, DoneLogin DEF SaveOptions
<1>6. CASE SaveReauth
  <2>1. /\ "reauth" \in Flow /\ flow["reauth"] # Nothing
        /\ data'.token = flow["reauth"].token
    BY <1>6 DEF SaveReauth, Validated, Write, Flow, IInv, TypeOK, Values
  <2> QED
    BY <1>6, <2>1, DoneLogin DEF SaveReauth
<1> QED
  BY <1>1, <1>2, <1>3, <1>4, <1>5, <1>6, RefreshesLogin, StoresLogin DEF Forms

LEMMA LoginInvariance == Spec => [](IInv /\ LoginInv)
<1>1. Init => LoginInv
  BY DEF Init, LoginInv, ApartInv, FreshInv, LoginForms
<1>2. IInv /\ LoginInv /\ [Next]_vars => LoginInv'
  <2>1. LoginInv /\ UNCHANGED vars => LoginInv'
    BY DEF vars, LoginInv, ApartInv, FreshInv
  <2> QED
    BY <2>1, LifecycleLogin, PollLogin, FormsLogin DEF Next
<1> QED
  BY <1>1, <1>2, Invariance, PTL DEF Spec

(* An options form that is given a working token of a login which neither  *)
(* the entry, the runtime nor the reauthentication form uses at that       *)
(* moment (config_flow.py:190-233) writes a token that works: what the     *)
(* others do during its validation, edits, reloads, rotations, another     *)
(* login, uses up no token of it.  This is all the form can promise: a     *)
(* blank refresh token (the run blank_refresh), the stored or running      *)
(* login's token typed in, and the login of the other form all share a     *)
(* token that a poll or the other validation may replace meanwhile.        *)
THEOREM EditKeepsWorkingToken ==
    ASSUME {"access_token_only", "known_login", "both_forms"} \cap UserActs = {}
    PROVE  Spec => EditKeepsToken
<1>0. "options" \in LoginForms
  BY DEF LoginForms, Flow
<1>1. IInv /\ LoginInv /\ [Next]_vars =>
          [SaveOptions /\ Usable(data.token) => Usable(data.token)']_vars
  <2> SUFFICES ASSUME IInv, LoginInv, SaveOptions PROVE Usable(data.token)'
    OBVIOUS
  <2>1. /\ flow["options"] \in Submission /\ flow["options"] # Nothing
        /\ flow["options"].stage # "refreshing" /\ "options" \in Flow
    BY DEF SaveOptions, Validated, Flow, IInv, TypeOK
  <2>2. live[flow["options"].token.login] = flow["options"].token.gen
    BY <1>0, <2>1, ConstantsAssumption DEF LoginInv, FreshInv, Submission, Token
  <2>3. data'.token = flow["options"].token /\ live' = live
    BY DEF SaveOptions, Write
  <2> QED
    BY <2>2, <2>3 DEF Usable
<1> QED
  BY <1>1, LoginInvariance, PTL DEF Spec, EditKeepsToken

-----------------------------------------------------------------------------
(* Polling stops for reauthentication only.                                *)

(* Reauthentication with a new login is a change that the listener sees.   *)
LEMMA ReauthReloads ==
    ASSUME "reauth" \in LoginForms, IInv, LoginInv, SaveReauth, state = "loaded"
    PROVE  reloads' # 0
<1> DEFINE values == [data EXCEPT !.token = flow["reauth"].token,
                     !.sessionId = flow["reauth"].sessionId]
           extra == IF state = "loaded" THEN 0 ELSE 1
<1>1. /\ flow["reauth"] # Nothing /\ values.token = flow["reauth"].token
      /\ values \in Values
  BY DEF SaveReauth, Validated, Flow, IInv, TypeOK, Values, Submission
<1>2. /\ values.token.login # data.token.login
      /\ values.token.login # runtime.token.login
  BY <1>1 DEF LoginInv, ApartInv, IInv, LifecycleInv, Running
<1>3. values # data /\ snapshot # values /\ listener
  BY <1>2 DEF IInv, LifecycleInv, Running
<1>4. Write(values, snapshot, extra) /\ extra \in {0, 1}
  BY DEF SaveReauth
<1> HIDE DEF values, extra
<1> QED
  BY <1>1, <1>3, <1>4, WriteQueues DEF IInv, TypeOK

(* An entry that is not loaded is left to no listener.                     *)
LEMMA SaveReauthQueues ==
    ASSUME IInv, SaveReauth, state # "loaded"
    PROVE  reloads' # 0
BY ConstantsAssumption DEF SaveReauth, Write, IInv, TypeOK

(* The same while the platforms are set up, when polls may fail already.   *)
StoppedInv ==
    state \in {"setup_in_progress", "loaded"} /\ ~polling /\ reloads = 0 => reauth

LEMMA StepStopped ==
    ASSUME "reauth" \in LoginForms, IInv, LoginInv, StoppedInv, [Next]_vars
    PROVE  StoppedInv'
<1> USE DEF StoppedInv, ha
<1>1. CASE Lifecycle
  <2>1. CASE SetupDone
    BY <2>1 DEF SetupDone
  <2>2. CASE \/ BeginSetup \/ FirstRefreshSucceeds \/ UnloadDone \/ Restart
             \/ \E authFailed \in BOOLEAN : SetupFails(authFailed)
    BY <2>2 DEF BeginSetup, FirstRefreshSucceeds, FirstRefreshing, UnloadDone, Restart, SetupFails
  <2>3. CASE BeginReload \/ UserReload
    BY <2>3, ConstantsAssumption DEF BeginReload, UserReload, IInv, TypeOK
  <2>4. CASE SetUpPlatforms
    BY <2>4 DEF SetUpPlatforms
  <2> QED
    BY <1>1, <2>1, <2>2, <2>3, <2>4 DEF Lifecycle
<1>2. CASE Poll
  <2>1. CASE PollStores
    BY <2>1, StoresEverywhere DEF PollStores
  <2>2. CASE PollRefreshes \/ PollLosesAnswer \/ PollRejected
    BY <2>2 DEF PollRefreshes, PollLosesAnswer, PollRejected
  <2> QED
    BY <1>2, <2>1, <2>2 DEF Poll
<1>3. CASE SaveReauth
  <2>1. state' = state
    BY <1>3 DEF SaveReauth
  <2> QED
    BY <1>3, <2>1, ReauthReloads, SaveReauthQueues
<1>4. CASE \/ \E sessionId \in SessionId, options \in Options :
                 SaveSettings(sessionId, options)
           \/ SaveOptions
  <2>1. UNCHANGED <<state, polling, reauth>>
    BY <1>4, Zenon DEF SaveSettings, SaveOptions
  <2>2. \E values : Write(values, snapshot, 0)
    BY <1>4, Zenon DEF SaveSettings, SaveOptions
  <2>3. reloads' = 0 => reloads = 0
    BY <2>2, WriteQueues DEF IInv, TypeOK
  <2> QED
    BY <2>1, <2>3
<1>5. CASE \/ \E sessionId \in SessionId, options \in Options, token \in Token :
                 SubmitOptions(token, sessionId, options)
           \/ \E token \in Token, sessionId \in SessionId : SubmitReauth(token, sessionId)
           \/ \E f \in Flow : ValidationRefreshes(f) \/ ValidationStores(f) \/ ValidationFails(f)
  BY <1>5 DEF SubmitOptions, SubmitReauth, Submit, ValidationRefreshes, ValidationStores,
     ValidationFails
<1>6. CASE UNCHANGED vars
  BY <1>6 DEF vars
<1> QED
  BY <1>1, <1>2, <1>3, <1>4, <1>5, <1>6 DEF Next, Forms

(* When reauthentication is given a working token of a login that neither  *)
(* the entry, the runtime nor the options form uses at that moment, the    *)
(* loaded entry it leaves (config_flow.py:147-160) is polled again or      *)
(* about to be reloaded, also when the options form is used at the same    *)
(* time: the update listener always sees a change.  With the saved         *)
(* credentials there may be none (the run repeated_credentials), and the   *)
(* login of the other form may have been saved by it already.              *)
THEOREM PollingStopsForReauthOnly ==
    ASSUME {"repeat_credentials", "both_forms"} \cap UserActs = {}
    PROVE  Spec => []PollingStopsOnlyForReauth
<1>1. "reauth" \in LoginForms
  BY DEF LoginForms, Flow
<1>2. Init => StoppedInv
  BY DEF Init, StoppedInv
<1>3. IInv /\ LoginInv /\ StoppedInv /\ [Next]_vars => StoppedInv'
  BY <1>1, StepStopped
<1>4. StoppedInv => PollingStopsOnlyForReauth
  BY DEF StoppedInv, PollingStopsOnlyForReauth
<1> QED
  BY <1>2, <1>3, <1>4, LoginInvariance, PTL DEF Spec

-----------------------------------------------------------------------------
(* Without any credentials entered after the import.                       *)

\* The generation the server accepts, until a poll deals with its answer.
Accepted == IF answer # Nothing THEN data.token.gen ELSE live[FirstLogin]

EntryCredential == INSTANCE Credential WITH held <- data.token.gen, live <- Accepted

(* The entry alone holds the login, its runtime works with the stored      *)
(* token, and an answer on its way is the only replacement there is.       *)
HeldInv ==
    /\ data.token.login = FirstLogin
    /\ \A f \in Flow : flow[f] = Nothing
    /\ runtime # Nothing => runtime.token = data.token
    /\ data.token.gen <= live[FirstLogin]
    /\ answer # Nothing => live[FirstLogin] = data.token.gen + 1

(* Storing writes the generation the server accepts.                       *)
LEMMA StoresAccepted ==
    ASSUME IInv, HeldInv, PollStores
    PROVE  /\ data'.token.login = FirstLogin
           /\ data'.token.gen = data.token.gen + 1
           /\ data'.token.gen = live[FirstLogin]
           /\ runtime'.token = data'.token
           /\ answer' = Nothing /\ UNCHANGED <<flow, live>>
<1>1. /\ runtime # Nothing /\ runtime.token \in Token /\ answer # Nothing
      /\ answer = Replacement(runtime.token)
  BY PollHasRuntime DEF PollStores, IInv, AnswerInv
<1>2. answer.login = runtime.token.login /\ answer.gen = runtime.token.gen + 1
  BY <1>1 DEF Replacement, Token
<1>3. data'.token = answer /\ runtime'.token = answer
  BY StoresEverywhere
<1> QED
  BY <1>1, <1>2, <1>3 DEF HeldInv, PollStores

(* A poll uses up the generation that is held.                             *)
LEMMA RefreshesHeld ==
    ASSUME IInv, HeldInv, PollRefreshes
    PROVE  /\ answer = Nothing /\ answer' # Nothing /\ UNCHANGED <<data, flow, runtime>>
           /\ live[FirstLogin] = data.token.gen
           /\ live'[FirstLogin] = data.token.gen + 1
<1>1. runtime # Nothing /\ runtime.token = data.token /\ runtime.token \in Token
  BY PollHasRuntime DEF PollRefreshes, HeldInv
<1>2. answer' \in Token
  BY <1>1, ReplaceTyped DEF PollRefreshes, IInv, TypeOK
<1>3. data.token.login = FirstLogin
  BY DEF HeldInv
<1> QED
  BY <1>1, <1>2, <1>3, ConstantsAssumption, NothingAssumption
  DEF PollRefreshes, Replace, Usable, IInv, TypeOK

(* What every step does to the credential: keep it, exchange it or lose    *)
(* the answer.                                                             *)
LEMMA StepHeld ==
    ASSUME UserActs \subseteq {"save_while_starting"}, IInv, HeldInv, [Next]_vars
    PROVE  HeldInv' /\ [EntryCredential!Next]_(EntryCredential!vars)
<1> USE DEF Accepted
<1>1. data.token.gen \in Nat /\ live[FirstLogin] \in Nat
  BY ConstantsAssumption DEF IInv, TypeOK, Values, Token
<1>2. ASSUME data'.token = data.token, UNCHANGED live,
             answer' \in {answer, Nothing},
             runtime' # Nothing => runtime'.token = data.token,
             \A f \in Flow : flow'[f] = Nothing
      PROVE  HeldInv' /\ [EntryCredential!Next]_(EntryCredential!vars)
  <2>1. HeldInv'
    BY <1>2 DEF HeldInv
  <2>2. CASE answer' = answer
    <3>1. data.token.gen' = data.token.gen /\ Accepted' = Accepted
      BY <1>2, <2>2
    <3> QED
      BY <2>1, <3>1 DEF EntryCredential!vars
  <2>3. CASE answer' = Nothing /\ answer # Nothing
    BY <1>1, <1>2, <2>1, <2>3 DEF HeldInv, EntryCredential!Next, EntryCredential!Lose
  <2> QED
    BY <1>2, <2>1, <2>2, <2>3
<1>3. \A token : ~NewLogin(token)
  BY DEF NewLogin
<1>4. CASE Lifecycle
  <2>1. /\ data' = data /\ live' = live /\ answer' \in {answer, Nothing}
        /\ flow' = flow \/ \A f \in Flow : flow'[f] = Nothing
    BY <1>4 DEF Lifecycle, BeginSetup, FirstRefreshSucceeds, SetUpPlatforms, SetupDone,
       SetupFails, BeginReload, UnloadDone, UserReload, Restart
  <2>2. runtime' \in {runtime, ClientOf(data), Nothing} \/ SetUpPlatforms
    BY <1>4 DEF Lifecycle, BeginSetup, FirstRefreshSucceeds, SetupDone, SetupFails,
       BeginReload, UnloadDone, UserReload, Restart
  <2>3. runtime' # Nothing => runtime'.token = data.token
    BY <2>2, ClientTyped, PlatformsRead, NothingAssumption DEF HeldInv, IInv, TypeOK
  <2> QED
    BY <1>2, <2>1, <2>3 DEF HeldInv
<1>5. CASE PollRefreshes
  <2>1. HeldInv'
    BY <1>1, <1>5, RefreshesHeld DEF HeldInv
  <2> QED
    BY <1>5, <2>1, RefreshesHeld DEF EntryCredential!vars
<1>6. CASE PollStores
  <2>1. HeldInv'
    BY <1>1, <1>6, StoresAccepted DEF HeldInv
  <2>2. /\ Accepted = data.token.gen /\ Accepted' = data.token.gen + 1
        /\ data'.token.gen = data.token.gen + 1
    BY <1>6, StoresAccepted DEF PollStores
  <2> QED
    BY <2>1, <2>2 DEF EntryCredential!Next, EntryCredential!Exchange
<1>7. CASE PollLosesAnswer \/ PollRejected
  BY <1>2, <1>7 DEF PollLosesAnswer, PollRejected, HeldInv
<1>8. ASSUME NEW sessionId \in SessionId, NEW options \in Options,
             SaveSettings(sessionId, options)
     
      PROVE  HeldInv' /\ [EntryCredential!Next]_(EntryCredential!vars)
  <2>1. data'.token = data.token /\ UNCHANGED <<runtime, answer, flow, live>>
    BY <1>8 DEF SaveSettings, Write, IInv, TypeOK, Values
  <2> QED
    BY <1>2, <2>1 DEF HeldInv
<1>9. /\ \A token, sessionId, options : ~SubmitOptions(token, sessionId, options)
      /\ \A token, sessionId : ~SubmitReauth(token, sessionId)
      /\ \A f \in Flow : /\ ~ValidationRefreshes(f) /\ ~ValidationStores(f)
                        /\ ~ValidationFails(f)
      /\ ~SaveOptions /\ ~SaveReauth
  BY <1>3 DEF SubmitOptions, SubmitReauth, ValidationRefreshes, ValidationStores,
     ValidationFails, SaveOptions, SaveReauth, Validated, HeldInv, Flow
<1>10. CASE UNCHANGED vars
  BY <1>2, <1>10 DEF vars, HeldInv
<1>11. ASSUME Forms
       PROVE  \E sessionId \in SessionId, options \in Options :
                 SaveSettings(sessionId, options)
  BY <1>9, <1>11 DEF Forms
<1> HIDE DEF Accepted
<1> QED
  BY <1>4, <1>5, <1>6, <1>7, <1>8, <1>10, <1>11 DEF Next, Poll

(* The entry as a whole treats its login as Credential says, the promise   *)
(* the client alone keeps by ImplementsCredential of WoltApi_proofs: every *)
(* generation the server replaces is stored (__init__.py:50-61), or its    *)
(* answer is lost on the way, by a request that fails, an unload or a      *)
(* restart that cancels the poll.  Setup, reload and unload, and edits of  *)
(* the options at any time, put no older token back.                      *)
THEOREM EntryImplementsCredential ==
    ASSUME UserActs \subseteq {"save_while_starting"}
    PROVE  Spec => EntryCredential!Spec
<1>1. Init => HeldInv /\ EntryCredential!Init
  <2> SUFFICES ASSUME Init PROVE HeldInv /\ EntryCredential!Init
    OBVIOUS
  <2>1. PICK gen \in 1 .. MaxGeneration, sessionId \in SessionId :
            \E newest \in gen .. MaxGeneration :
            /\ data = [token |-> [login |-> FirstLogin, gen |-> gen],
                       sessionId |-> sessionId, options |-> 0]
            /\ live = [s \in Login |-> IF s = FirstLogin THEN newest ELSE 1]
    BY DEF Init
  <2>2. PICK newest \in gen .. MaxGeneration :
            /\ data.token.login = FirstLogin /\ data.token.gen = gen
            /\ live[FirstLogin] = newest
    BY <2>1, ConstantsAssumption
  <2>3. runtime = Nothing /\ answer = Nothing /\ \A f \in Flow : flow[f] = Nothing
    BY DEF Init
  <2> QED
    BY <2>2, <2>3, ConstantsAssumption DEF HeldInv, EntryCredential!Init, Accepted
<1>2. IInv /\ HeldInv /\ [Next]_vars =>
          HeldInv' /\ [EntryCredential!Next]_(EntryCredential!vars)
  BY StepHeld
<1> QED
  BY <1>1, <1>2, Invariance, PTL DEF Spec, EntryCredential!Spec

-----------------------------------------------------------------------------
(* A stale runtime does not stay.                                          *)

Stale == runtime # Nothing /\ runtime # data

(* Home Assistant's steps can be taken when their guards hold.  A prover   *)
(* of ENABLED is not at hand: this is a hypothesis of the theorem, which   *)
(* TLC evaluates in the states of the run entry.                           *)
EnabledAsGuarded ==
    /\ FirstRefreshing =>
          ENABLED <<FirstRefreshSucceeds \/ SetupFails(TRUE) \/ SetupFails(FALSE)>>_vars
    /\ state = "setup_in_progress" /\ listener =>
          IF runtime.options = Nothing THEN ENABLED <<SetUpPlatforms>>_vars
                                       ELSE ENABLED <<SetupDone>>_vars
    /\ reloads > 0 /\ state = "loaded" => ENABLED <<BeginReload>>_vars
    /\ state = "unload_in_progress" => ENABLED <<UnloadDone>>_vars

\* What no step of the flows or of a poll changes.
Apart ==
    /\ UNCHANGED <<state, listener>>
    /\ runtime' # Nothing => runtime # Nothing /\ runtime'.options = runtime.options

LEMMA FormsApart == Forms => Apart
BY DEF Forms, SaveSettings, SubmitOptions, SubmitReauth, Submit, ValidationRefreshes,
   ValidationStores, ValidationFails, SaveOptions, SaveReauth, Apart, ha

LEMMA PollApart == IInv /\ Poll => Apart
BY PollHasRuntime, StoresEverywhere
DEF Poll, PollRefreshes, PollStores, PollLosesAnswer, PollRejected, Apart, ha

\* Its platforms have not read the options, or have.
Unread == state = "setup_in_progress" /\ listener /\ runtime.options = Nothing
Read   == state = "setup_in_progress" /\ listener /\ runtime.options # Nothing

LEMMA StaleStep ==
    ASSUME IInv, CurrentInv, Stale, [Next]_vars
    PROVE  /\ FirstRefreshing => (FirstRefreshing \/ Unread)' \/ ~Stale'
           /\ Unread => (Unread \/ Read)' \/ ~Stale'
           /\ Read => Read' \/ (state = "loaded")' \/ ~Stale'
           /\ state = "loaded" =>
                 (state = "loaded")' \/ (state = "unload_in_progress")' \/ ~Stale'
           /\ state = "unload_in_progress" => (state = "unload_in_progress")' \/ ~Stale'
<1> USE DEF FirstRefreshing, Unread, Read
<1>1. CASE Apart
  BY <1>1 DEF Apart, Stale
<1>2. CASE SetUpPlatforms
  BY <1>2, PlatformsRead DEF SetUpPlatforms, ha
<1>3. CASE Lifecycle /\ ~SetUpPlatforms
  BY <1>3 DEF Lifecycle, BeginSetup, FirstRefreshSucceeds, SetupDone, SetupFails,
     BeginReload, UnloadDone, UserReload, Restart, Stale, ha, IInv, LifecycleInv
<1>4. CASE UNCHANGED vars
  BY <1>4 DEF vars, ha, Stale
<1> QED
  BY <1>1, <1>2, <1>3, <1>4, FormsApart, PollApart DEF Next

\* A stale runtime is in one of the five phases ahead of its end; a loaded
\* one has its reload waiting.
LEMMA StalePhases ==
    ASSUME IInv, CurrentInv, Stale
    PROVE  /\ \/ FirstRefreshing \/ Unread \/ Read
              \/ state = "loaded" \/ state = "unload_in_progress"
           /\ state = "loaded" => reloads > 0
<1>1. CASE state = "loaded"
  <2>1. CASE reloads = 0
    BY <1>1, <2>1, ClientTyped DEF CurrentInv, IInv, TypeOK, LifecycleInv, Stale
  <2> QED
    BY <1>1, <2>1, ConstantsAssumption DEF IInv, TypeOK
<1>2. CASE state # "loaded"
  BY <1>2 DEF IInv, TypeOK, LifecycleInv, Running, Stale, FirstRefreshing, Unread, Read
<1> QED
  BY <1>1, <1>2

(* A runtime that no longer matches the entry (edited during its setup,    *)
(* while it ran, or while it is unloaded) is replaced or dropped: its      *)
(* setup ends, the waiting reload gets the lock, and the unload ends.      *)
THEOREM StaleRuntimesGo ==
    ASSUME "save_while_starting" \notin UserActs
    PROVE  FairSpec /\ []EnabledAsGuarded => StaleRuntimeGoes
<1> DEFINE S1 == FirstRefreshing /\ Stale
           S2 == Unread /\ Stale
           S3 == Read /\ Stale
           S4 == state = "loaded" /\ Stale
           S5 == state = "unload_in_progress" /\ Stale
           Inv == IInv /\ CurrentInv /\ EnabledAsGuarded
           Refreshed == FirstRefreshSucceeds \/ SetupFails(TRUE) \/ SetupFails(FALSE)
<1>1. Inv => (Stale => S1 \/ S2 \/ S3 \/ S4 \/ S5)
  BY StalePhases
<1>2. /\ Inv /\ S1 /\ [Next]_vars => S1' \/ S2' \/ ~Stale'
      /\ Inv /\ S2 /\ [Next]_vars => S2' \/ S3' \/ ~Stale'
      /\ Inv /\ S3 /\ [Next]_vars => S3' \/ S4' \/ ~Stale'
      /\ Inv /\ S4 /\ [Next]_vars => S4' \/ S5' \/ ~Stale'
      /\ Inv /\ S5 /\ [Next]_vars => S5' \/ ~Stale'
  BY StaleStep
<1>3. /\ Inv /\ S1 /\ <<Refreshed>>_vars => S2' \/ ~Stale'
      /\ Inv /\ S2 /\ <<SetUpPlatforms>>_vars => S3' \/ ~Stale'
      /\ Inv /\ S3 /\ <<SetupDone>>_vars => S4' \/ ~Stale'
      /\ Inv /\ S4 /\ <<BeginReload>>_vars => S5' \/ ~Stale'
      /\ Inv /\ S5 /\ <<UnloadDone>>_vars => ~Stale'
  <2>1. Inv /\ S2 /\ SetUpPlatforms => S3' \/ ~Stale'
    BY PlatformsRead DEF SetUpPlatforms, Unread, Read, ha
  <2> QED
    BY <2>1 DEF FirstRefreshSucceeds, SetupFails, SetupDone, BeginReload, UnloadDone,
       FirstRefreshing, Unread, Read, Stale, IInv, LifecycleInv
<1>4. /\ Inv /\ S1 => ENABLED <<Refreshed>>_vars
      /\ Inv /\ S2 => ENABLED <<SetUpPlatforms>>_vars
      /\ Inv /\ S3 => ENABLED <<SetupDone>>_vars
      /\ Inv /\ S4 => ENABLED <<BeginReload>>_vars
      /\ Inv /\ S5 => ENABLED <<UnloadDone>>_vars
  BY StalePhases DEF EnabledAsGuarded, Unread, Read
<1>5. ~Stale => runtime = Nothing \/ runtime = data
  BY DEF Stale
<1>6. (runtime # Nothing /\ runtime # data) => Stale
  BY DEF Stale
<1>7. Spec => [](IInv /\ CurrentInv)
  BY CurrentInvariance
<1> HIDE DEF S1, S2, S3, S4, S5
<1> QED
  BY <1>1, <1>2, <1>3, <1>4, <1>5, <1>6, <1>7, PTL DEF FairSpec, Spec, StaleRuntimeGoes
=============================================================================
