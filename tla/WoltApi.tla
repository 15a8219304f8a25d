------------------------------- MODULE WoltApi -------------------------------
(***************************************************************************)
(* One WoltApi object (api.py) shared by any number of authenticated calls *)
(* of _request.  A call is the path of one coroutine:                      *)
(*                                                                         *)
(*   idle -> first -> waiting -> refreshing -> retry -> done               *)
(*     \________________/   \____________________/                         *)
(*      no access token yet   another call refreshed meanwhile             *)
(*                                                                         *)
(* A step is what runs between two awaits that can suspend.  Storing new   *)
(* tokens, the update callback, the release of the lock and the headers of *)
(* the retry are one step, because neither callback in the source suspends *)
(* and releasing an asyncio.Lock does not.                                 *)
(*                                                                         *)
(* The account server is external: it accepts one refresh token, may       *)
(* replace it when it is used, and may handle a POST whose sender gave up. *)
(***************************************************************************)
EXTENDS Naturals

CONSTANTS Call,     \* the calls of _request(auth=True), each made once
          NoCall    \* nobody holds _refresh_lock

ASSUME NoCallAssumption == NoCall \notin Call

VARIABLES
    access,         \* _access_token
    refresh,        \* _refresh_token
    stored,         \* what _token_update_callback was last given
    lock,           \* the holder of _refresh_lock
    pc,             \* where each call is
    rejected,       \* rejected_access_token, or Blank on the no-token path
    sent,           \* the access token in the headers of the call's GET
    posted,         \* the refresh token in the call's POST
    reply,          \* the server's answer to that POST
    result,         \* how the call ended
    serverRefresh,  \* the refresh token the server accepts
    issued,         \* how many access tokens the server has issued
    valid           \* the access tokens it still accepts

client == <<access, refresh, stored, lock>>
calls  == <<pc, rejected, sent, posted, result>>
server == <<serverRefresh, issued, valid>>
vars   == <<access, refresh, stored, lock, pc, rejected, sent, posted, reply,
            result, serverRefresh, issued, valid>>

Blank   == 0        \* the empty access token
NoToken == 0        \* no refresh token: none posted, none in the answer

NoReply == [kind |-> "none",    access |-> Blank, refresh |-> NoToken]
Refusal == [kind |-> "refused", access |-> Blank, refresh |-> NoToken]
Tokens(a, t) == [kind |-> "tokens", access |-> a, refresh |-> t]

Reply == [kind : {"none", "refused", "tokens"}, access : Nat, refresh : Nat]

TypeOK ==
    /\ access \in Nat
    /\ refresh \in Nat \ {NoToken}
    /\ stored \in [access : Nat, refresh : Nat \ {NoToken}]
    /\ lock \in Call \cup {NoCall}
    /\ pc \in [Call -> {"idle", "first", "waiting", "refreshing", "retry", "done"}]
    /\ rejected \in [Call -> Nat]
    /\ sent \in [Call -> Nat]
    /\ posted \in [Call -> Nat]
    /\ reply \in [Call -> Reply]
    /\ result \in [Call -> {"none", "ok", "auth", "refused", "error"}]
    /\ serverRefresh \in Nat \ {NoToken}
    /\ issued \in Nat
    /\ valid \in SUBSET (1 .. issued)

-----------------------------------------------------------------------------
(* The client is built from an entry: a refresh token is required, an      *)
(* access token is not.  Either may be worthless already.                  *)

Init ==
    /\ access \in {Blank, 1}
    /\ refresh = 1
    /\ stored = [access |-> access, refresh |-> refresh]
    /\ lock = NoCall
    /\ pc = [c \in Call |-> "idle"]
    /\ rejected = [c \in Call |-> Blank]
    /\ sent = [c \in Call |-> Blank]
    /\ posted = [c \in Call |-> NoToken]
    /\ reply = [c \in Call |-> NoReply]
    /\ result = [c \in Call |-> "none"]
    /\ serverRefresh \in {1, 2}
    /\ issued = 1
    /\ valid \in {{}, {1}}

(* A call ends with an outcome and leaves the shared tokens alone.         *)
End(c, outcome) ==
    /\ pc' = [pc EXCEPT ![c] = "done"]
    /\ result' = [result EXCEPT ![c] = outcome]
    /\ UNCHANGED <<access, refresh, stored, rejected, sent, posted, reply, server>>

(* No access token yet: go straight to the lock.                           *)
StartBlank(c) ==
    /\ pc[c] = "idle" /\ access = Blank
    /\ pc' = [pc EXCEPT ![c] = "waiting"]
    /\ rejected' = [rejected EXCEPT ![c] = Blank]
    /\ UNCHANGED <<client, sent, posted, reply, result, server>>

(* Remember the token and send the first GET with it.                      *)
StartWithToken(c) ==
    /\ pc[c] = "idle" /\ access # Blank
    /\ pc' = [pc EXCEPT ![c] = "first"]
    /\ rejected' = [rejected EXCEPT ![c] = access]
    /\ sent' = [sent EXCEPT ![c] = access]
    /\ UNCHANGED <<client, posted, reply, result, server>>

GetSucceeds(c) ==
    /\ pc[c] \in {"first", "retry"} /\ sent[c] \in valid
    /\ End(c, "ok") /\ UNCHANGED lock

(* 401 on the first GET: queue for the lock.                               *)
FirstRejected(c) ==
    /\ pc[c] = "first" /\ sent[c] \notin valid
    /\ pc' = [pc EXCEPT ![c] = "waiting"]
    /\ UNCHANGED <<client, rejected, sent, posted, reply, result, server>>

(* 401 on the retry is final.                                              *)
RetryRejected(c) ==
    /\ pc[c] = "retry" /\ sent[c] \notin valid
    /\ End(c, "auth") /\ UNCHANGED lock

(* 403 is an authentication error that is never retried; 429, other        *)
(* statuses, bad JSON, a timeout and a cancelled task end the call too.    *)
GetFails(c) ==
    /\ pc[c] \in {"first", "retry"}
    /\ \E outcome \in {"auth", "error"} : End(c, outcome)
    /\ UNCHANGED lock

(* The task is cancelled in the queue of the lock.                         *)
CancelledWaiting(c) ==
    /\ pc[c] = "waiting"
    /\ End(c, "error") /\ UNCHANGED lock

-----------------------------------------------------------------------------
(* Inside `async with self._refresh_lock'.                                 *)

\* Mutant: the retry repeats the headers of the first GET.
ReuseOldHeaders(c) ==
    /\ pc[c] = "waiting" /\ lock = NoCall
    /\ access # rejected[c]
    /\ pc' = [pc EXCEPT ![c] = "retry"]
    /\ UNCHANGED <<client, rejected, sent, posted, reply, result, server>>

(* Another call replaced the rejected token while this one was queued: the *)
(* lock is taken and released at once and the retry uses the new token.    *)
AcquireAndReuse(c) ==
    /\ pc[c] = "waiting" /\ lock = NoCall
    /\ access # rejected[c]
    /\ pc' = [pc EXCEPT ![c] = "retry"]
    /\ sent' = [sent EXCEPT ![c] = access]
    /\ UNCHANGED <<client, rejected, posted, reply, result, server>>

\* Mutant: refresh without comparing the tokens again under the lock.
RefreshUnchecked(c) ==
    /\ pc[c] = "waiting" /\ lock = NoCall
    /\ pc' = [pc EXCEPT ![c] = "refreshing"]
    /\ lock' = c
    /\ posted' = [posted EXCEPT ![c] = refresh]
    /\ UNCHANGED <<access, refresh, stored, rejected, sent, reply, result, server>>

\* Mutant: refresh without taking the lock.
RefreshUnlocked(c) ==
    /\ pc[c] = "waiting"
    /\ access = rejected[c]
    /\ pc' = [pc EXCEPT ![c] = "refreshing"]
    /\ posted' = [posted EXCEPT ![c] = refresh]
    /\ UNCHANGED <<client, rejected, sent, reply, result, server>>

(* The token is still the rejected one: POST the current refresh token and *)
(* keep the lock until the answer is dealt with.                           *)
AcquireAndRefresh(c) ==
    /\ pc[c] = "waiting" /\ lock = NoCall
    /\ access = rejected[c]
    /\ pc' = [pc EXCEPT ![c] = "refreshing"]
    /\ lock' = c
    /\ posted' = [posted EXCEPT ![c] = refresh]
    /\ UNCHANGED <<access, refresh, stored, rejected, sent, reply, result, server>>

\* Mutant: an answer without a refresh token blanks the one in use.
StoreBlankRefresh(c) ==
    /\ pc[c] = "refreshing" /\ reply[c].kind = "tokens"
    /\ access' = reply[c].access
    /\ refresh' = reply[c].refresh
    /\ stored' = [access |-> access', refresh |-> refresh']
    /\ lock' = NoCall
    /\ pc' = [pc EXCEPT ![c] = "retry"]
    /\ sent' = [sent EXCEPT ![c] = access']
    /\ UNCHANGED <<rejected, posted, reply, result, server>>

\* Mutant: the callback runs only when the access token was blank.
StoreInMemoryOnly(c) ==
    /\ pc[c] = "refreshing" /\ reply[c].kind = "tokens"
    /\ access' = reply[c].access
    /\ refresh' = IF reply[c].refresh = NoToken THEN refresh ELSE reply[c].refresh
    /\ stored' = IF access = Blank
                 THEN [access |-> access', refresh |-> refresh'] ELSE stored
    /\ lock' = NoCall
    /\ pc' = [pc EXCEPT ![c] = "retry"]
    /\ sent' = [sent EXCEPT ![c] = access']
    /\ UNCHANGED <<rejected, posted, reply, result, server>>

(* New tokens: an answer without a refresh token keeps the old one.  Both  *)
(* are set, the callback stores them, the lock is released, and the retry  *)
(* is sent with the new access token.                                      *)
StoreTokens(c) ==
    /\ pc[c] = "refreshing" /\ reply[c].kind = "tokens"
    /\ access' = reply[c].access
    /\ refresh' = IF reply[c].refresh = NoToken THEN refresh ELSE reply[c].refresh
    /\ stored' = [access |-> access', refresh |-> refresh']
    /\ lock' = NoCall
    /\ pc' = [pc EXCEPT ![c] = "retry"]
    /\ sent' = [sent EXCEPT ![c] = access']
    /\ UNCHANGED <<rejected, posted, reply, result, server>>

\* Mutant: a refused refresh leaves the lock held.
RefusedHoldsLock(c) ==
    /\ pc[c] = "refreshing" /\ reply[c].kind = "refused"
    /\ End(c, "refused") /\ UNCHANGED lock

(* Status 400: the refresh token is not accepted any more.                 *)
RefreshRefused(c) ==
    /\ pc[c] = "refreshing" /\ reply[c].kind = "refused"
    /\ End(c, "refused") /\ lock' = NoCall

(* The POST times out, the task is cancelled, the status is another one or *)
(* the payload is unusable.  The server may have replaced the token, or    *)
(* may still do so: that answer is lost.                                   *)
RefreshFails(c) ==
    /\ pc[c] = "refreshing"
    /\ \E outcome \in {"auth", "error"} : End(c, outcome)
    /\ lock' = NoCall

-----------------------------------------------------------------------------
(* The account server (external).                                          *)

(* A POST with the accepted token yields a new access token and, unless    *)
(* the server leaves it out, a replacement for the refresh token.          *)
ServerExchanges(c) ==
    /\ posted[c] = serverRefresh /\ reply[c] = NoReply
    /\ issued' = issued + 1
    /\ valid' = valid \cup {issued'}
    /\ \/ /\ serverRefresh' = serverRefresh + 1
          /\ reply' = [reply EXCEPT ![c] = Tokens(issued', serverRefresh')]
       \/ /\ serverRefresh' = serverRefresh
          /\ reply' = [reply EXCEPT ![c] = Tokens(issued', NoToken)]
    /\ UNCHANGED <<client, calls>>

ServerRefuses(c) ==
    /\ posted[c] \notin {NoToken, serverRefresh} /\ reply[c] = NoReply
    /\ reply' = [reply EXCEPT ![c] = Refusal]
    /\ UNCHANGED <<client, calls, server>>

AccessTokenExpires ==
    /\ \E a \in valid : valid' = valid \ {a}
    /\ UNCHANGED <<client, calls, reply, serverRefresh, issued>>

-----------------------------------------------------------------------------
(* What a call does by itself once it has begun.                           *)
Step(c) ==
    \/ GetSucceeds(c) \/ FirstRejected(c) \/ RetryRejected(c) \/ GetFails(c)
    \/ CancelledWaiting(c)
    \/ AcquireAndReuse(c) \/ AcquireAndRefresh(c)
    \/ StoreTokens(c) \/ RefreshRefused(c) \/ RefreshFails(c)

(* CancelledWaiting is left out: nobody is obliged to cancel a task.       *)
Progress(c) ==
    \/ GetSucceeds(c) \/ FirstRejected(c) \/ RetryRejected(c) \/ GetFails(c)
    \/ AcquireAndReuse(c) \/ AcquireAndRefresh(c)
    \/ StoreTokens(c) \/ RefreshRefused(c) \/ RefreshFails(c)

Next ==
    \/ \E c \in Call : StartBlank(c) \/ StartWithToken(c) \/ Step(c)
    \/ \E c \in Call : ServerExchanges(c) \/ ServerRefuses(c)
    \/ AccessTokenExpires

Spec == Init /\ [][Next]_vars

(* A waiting call gets the lock, and whoever has it lets it go.            *)
Acquire(c) == AcquireAndReuse(c) \/ AcquireAndRefresh(c)
Release == \E c \in Call : StoreTokens(c) \/ RefreshRefused(c) \/ RefreshFails(c)

(* REQUEST_TIMEOUT ends every GET and POST, and asyncio.Lock wakes its     *)
(* waiters in turn; the server owes nothing.                               *)
Fairness(c) == WF_vars(Progress(c)) /\ SF_vars(Acquire(c))
CallsFairness == \A c \in Call : Fairness(c)

FairSpec == Spec /\ WF_vars(Release) /\ CallsFairness

-----------------------------------------------------------------------------
(* Properties.                                                             *)

(* A refresh is only ever sent for an access token the server no longer    *)
(* accepts, whatever the other calls did while this one queued: the check  *)
(* repeated under the lock (api.py:246) is needed for exactly this.        *)
NoNeedlessRefresh ==
    \A c \in Call : pc[c] = "refreshing" => access \notin valid

(* The single retry never carries the token that was just rejected, nor an *)
(* empty one.                                                              *)
RetryCarriesNewToken ==
    \A c \in Call : pc[c] = "retry" => sent[c] \notin {Blank, rejected[c]}

\* The answer to a POST that the client still waits for.
Replacing(c) ==
    pc[c] = "refreshing" /\ reply[c].kind = "tokens" /\ reply[c].refresh # NoToken

\* The client's refresh token was used up and its replacement is not coming.
Dead == refresh # serverRefresh /\ \A c \in Call : ~Replacing(c)

(* Wolt refuses a refresh token (400, which the integration answers with   *)
(* reauthentication) only when the token is lost for good: calls that race *)
(* for one single-use token never cause a refusal by themselves.           *)
RefusedMeansDead == \A c \in Call : result[c] = "refused" => Dead

\* A refresh the server granted and the client has not read yet.
Granted == \E c \in Call : pc[c] = "refreshing" /\ reply[c].kind = "tokens"

\* The server's generation, as the abstract specification sees it.
Live == IF Granted THEN stored.refresh ELSE serverRefresh

Credentials == INSTANCE Credential WITH held <- stored.refresh, live <- Live

(* The stored refresh token follows the server's generation by generation, *)
(* and a lost answer is the only thing that separates them.                *)
CredentialSpec == Credentials!Spec

(* Every call that has begun ends: no path keeps _refresh_lock.            *)
CallEnds(c) == pc[c] # "idle" ~> pc[c] = "done"
CallsEnd == \A c \in Call : CallEnds(c)

=============================================================================
