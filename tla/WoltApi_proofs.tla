--------------------------- MODULE WoltApi_proofs ---------------------------
(***************************************************************************)
(* Proofs about WoltApi for any set of calls.                              *)
(***************************************************************************)
EXTENDS WoltApi, TLAPS

(* The lock has one owner, and while it is held nothing moves the tokens   *)
(* its owner compared and posted.                                          *)
LockInv ==
    \A c \in Call : pc[c] = "refreshing" =>
        /\ lock = c
        /\ posted[c] = refresh
        /\ rejected[c] = access

(* What was given to the callback is what is in memory.                    *)
StoredInv == stored = [access |-> access, refresh |-> refresh]

(* The server is at most one refresh token ahead, and no POST carries a    *)
(* token newer than the client's.                                          *)
GenerationInv ==
    /\ refresh <= serverRefresh
    /\ serverRefresh <= refresh + 1
    /\ \A c \in Call : posted[c] <= refresh

(* A call that has not taken the lock has not posted.                      *)
UnpostedInv ==
    \A c \in Call : pc[c] \in {"idle", "first", "waiting"} =>
        posted[c] = NoToken /\ reply[c] = NoReply

(* Access tokens only move forward, so none comes back after a rejection.  *)
AccessInv ==
    /\ access <= issued
    /\ \A c \in Call :
        /\ rejected[c] <= access
        /\ pc[c] = "first" => rejected[c] = sent[c]
        /\ pc[c] = "retry" => rejected[c] < sent[c]

RejectedInv ==
    \A c \in Call : pc[c] \in {"waiting", "refreshing"} => rejected[c] \notin valid

(* What the answer to the POST in progress may say.                        *)
ReplyInv ==
    \A c \in Call : pc[c] = "refreshing" =>
        /\ reply[c].kind = "tokens" =>
              /\ access < reply[c].access /\ reply[c].access <= issued
              /\ reply[c].refresh # NoToken =>
                    reply[c].refresh = refresh + 1 /\ serverRefresh = refresh + 1
        /\ reply[c].kind = "refused" => Dead

IInv ==
    /\ TypeOK
    /\ LockInv
    /\ StoredInv
    /\ GenerationInv
    /\ UnpostedInv
    /\ AccessInv
    /\ RejectedInv
    /\ ReplyInv
    /\ RefusedMeansDead

-----------------------------------------------------------------------------
(* Initially nobody has posted, and both generations are within reach.     *)
LEMMA InitIInv == Init => IInv
<1> SUFFICES ASSUME Init PROVE IInv
  OBVIOUS
<1> USE DEF Init, Blank, NoToken, NoReply
<1>1. TypeOK
  BY DEF TypeOK, Reply
<1>2. LockInv /\ StoredInv /\ GenerationInv /\ UnpostedInv
  BY DEF LockInv, StoredInv, GenerationInv, UnpostedInv
<1>3. AccessInv /\ RejectedInv /\ ReplyInv
  BY DEF AccessInv, RejectedInv, ReplyInv
<1>4. RefusedMeansDead
  BY DEF RefusedMeansDead
<1> QED
  BY <1>1, <1>2, <1>3, <1>4 DEF IInv

(* Every step keeps the invariant.  The interesting ones are the lock      *)
(* holder's (no other call can be refreshing) and the server's exchange of *)
(* an abandoned POST (the client is left with a dead token, not a wrong    *)
(* one).                                                                   *)
LEMMA StepIInv == IInv /\ [Next]_vars => IInv'
<1> SUFFICES ASSUME IInv, [Next]_vars PROVE IInv'
  OBVIOUS
<1> USE NoCallAssumption DEF Blank, NoToken, NoReply, client, calls, server
<1>1. ASSUME NEW c \in Call, StartBlank(c) PROVE IInv'
  <2>1. TypeOK' /\ LockInv' /\ StoredInv' /\ GenerationInv'
    BY <1>1 DEF IInv, StartBlank, TypeOK, Reply, Refusal, Tokens, LockInv,
       StoredInv, GenerationInv, ReplyInv
  <2>2. UnpostedInv' /\ ReplyInv' /\ RefusedMeansDead'
    BY <1>1 DEF IInv, StartBlank, TypeOK, UnpostedInv, ReplyInv, LockInv,
       GenerationInv, AccessInv, Dead, Replacing, Refusal, Tokens,
       RefusedMeansDead
  <2>3. AccessInv'
    BY <1>1 DEF IInv, StartBlank, TypeOK, AccessInv, ReplyInv, LockInv
  <2>4. RejectedInv'
    BY <1>1 DEF IInv, StartBlank, TypeOK, RejectedInv, AccessInv
  <2> QED
    BY <2>1, <2>2, <2>3, <2>4 DEF IInv
<1>2. ASSUME NEW c \in Call, StartWithToken(c) PROVE IInv'
  <2>1. TypeOK' /\ LockInv' /\ StoredInv' /\ GenerationInv'
    BY <1>2 DEF IInv, StartWithToken, TypeOK, Reply, Refusal, Tokens, LockInv,
       StoredInv, GenerationInv, ReplyInv
  <2>2. UnpostedInv' /\ RejectedInv' /\ ReplyInv' /\ RefusedMeansDead'
    BY <1>2 DEF IInv, StartWithToken, TypeOK, UnpostedInv, RejectedInv,
       AccessInv, ReplyInv, LockInv, GenerationInv, Dead, Replacing, Refusal,
       Tokens, RefusedMeansDead
  <2>3. AccessInv'
    BY <1>2 DEF IInv, StartWithToken, TypeOK, AccessInv, ReplyInv, LockInv
  <2> QED
    BY <2>1, <2>2, <2>3 DEF IInv
<1>3. ASSUME NEW c \in Call, GetSucceeds(c) PROVE IInv'
  <2>1. TypeOK' /\ LockInv' /\ StoredInv' /\ GenerationInv'
    BY <1>3 DEF IInv, GetSucceeds, End, TypeOK, Reply, Refusal, Tokens,
       LockInv, StoredInv, GenerationInv, ReplyInv
  <2>2. UnpostedInv' /\ AccessInv' /\ RejectedInv' /\ ReplyInv'
    BY <1>3 DEF IInv, GetSucceeds, End, TypeOK, UnpostedInv, AccessInv,
       ReplyInv, LockInv, RejectedInv, GenerationInv, Dead, Replacing,
       Refusal, Tokens
  <2>3. RefusedMeansDead'
    BY <1>3 DEF IInv, GetSucceeds, End, TypeOK, RefusedMeansDead, Dead,
       Replacing, ReplyInv, LockInv, GenerationInv, UnpostedInv, Refusal,
       Tokens
  <2> QED
    BY <2>1, <2>2, <2>3 DEF IInv
<1>4. ASSUME NEW c \in Call, FirstRejected(c) PROVE IInv'
  <2>1. TypeOK' /\ LockInv' /\ StoredInv' /\ GenerationInv'
    BY <1>4 DEF IInv, FirstRejected, TypeOK, Reply, Refusal, Tokens, LockInv,
       StoredInv, GenerationInv, ReplyInv
  <2>2. UnpostedInv' /\ ReplyInv' /\ RefusedMeansDead'
    BY <1>4 DEF IInv, FirstRejected, TypeOK, UnpostedInv, ReplyInv, LockInv,
       GenerationInv, AccessInv, Dead, Replacing, Refusal, Tokens,
       RefusedMeansDead
  <2>3. RejectedInv'
    BY <1>4 DEF IInv, FirstRejected, TypeOK, RejectedInv, AccessInv
  <2>4. AccessInv'
    BY <1>4 DEF IInv, FirstRejected, TypeOK, AccessInv, ReplyInv, LockInv
  <2> QED
    BY <2>1, <2>2, <2>3, <2>4 DEF IInv
<1>5. ASSUME NEW c \in Call, RetryRejected(c) PROVE IInv'
  <2>1. TypeOK' /\ LockInv' /\ StoredInv' /\ GenerationInv'
    BY <1>5 DEF IInv, RetryRejected, End, TypeOK, Reply, Refusal, Tokens,
       LockInv, StoredInv, GenerationInv, ReplyInv
  <2>2. UnpostedInv' /\ AccessInv' /\ RejectedInv' /\ ReplyInv'
    BY <1>5 DEF IInv, RetryRejected, End, TypeOK, UnpostedInv, AccessInv,
       ReplyInv, LockInv, RejectedInv, GenerationInv, Dead, Replacing,
       Refusal, Tokens
  <2>3. RefusedMeansDead'
    BY <1>5 DEF IInv, RetryRejected, End, TypeOK, RefusedMeansDead, Dead,
       Replacing, ReplyInv, LockInv, GenerationInv, UnpostedInv, Refusal,
       Tokens
  <2> QED
    BY <2>1, <2>2, <2>3 DEF IInv
<1>6. ASSUME NEW c \in Call, GetFails(c) PROVE IInv'
  <2>1. TypeOK' /\ LockInv' /\ StoredInv' /\ GenerationInv'
    BY <1>6 DEF IInv, GetFails, End, TypeOK, Reply, Refusal, Tokens, LockInv,
       StoredInv, GenerationInv, ReplyInv
  <2>2. UnpostedInv' /\ AccessInv' /\ RejectedInv' /\ ReplyInv'
    BY <1>6 DEF IInv, GetFails, End, TypeOK, UnpostedInv, AccessInv, ReplyInv,
       LockInv, RejectedInv, GenerationInv, Dead, Replacing, Refusal, Tokens
  <2>3. RefusedMeansDead'
    BY <1>6 DEF IInv, GetFails, End, TypeOK, RefusedMeansDead, Dead,
       Replacing, ReplyInv, LockInv, GenerationInv, UnpostedInv, Refusal,
       Tokens
  <2> QED
    BY <2>1, <2>2, <2>3 DEF IInv
<1>7. ASSUME NEW c \in Call, CancelledWaiting(c) PROVE IInv'
  <2>1. TypeOK' /\ LockInv' /\ StoredInv' /\ GenerationInv'
    BY <1>7 DEF IInv, CancelledWaiting, End, TypeOK, Reply, Refusal, Tokens,
       LockInv, StoredInv, GenerationInv, ReplyInv
  <2>2. UnpostedInv' /\ AccessInv' /\ RejectedInv' /\ ReplyInv'
    BY <1>7 DEF IInv, CancelledWaiting, End, TypeOK, UnpostedInv, AccessInv,
       ReplyInv, LockInv, RejectedInv, GenerationInv, Dead, Replacing,
       Refusal, Tokens
  <2>3. RefusedMeansDead'
    BY <1>7 DEF IInv, CancelledWaiting, End, TypeOK, RefusedMeansDead, Dead,
       Replacing, ReplyInv, LockInv, GenerationInv, UnpostedInv, Refusal,
       Tokens
  <2> QED
    BY <2>1, <2>2, <2>3 DEF IInv
<1>8. ASSUME NEW c \in Call, AcquireAndReuse(c) PROVE IInv'
  <2>1. TypeOK' /\ LockInv' /\ StoredInv' /\ GenerationInv'
    BY <1>8 DEF IInv, AcquireAndReuse, TypeOK, Reply, Refusal, Tokens,
       LockInv, StoredInv, GenerationInv, ReplyInv
  <2>2. UnpostedInv' /\ RejectedInv' /\ ReplyInv' /\ RefusedMeansDead'
    BY <1>8 DEF IInv, AcquireAndReuse, TypeOK, UnpostedInv, RejectedInv,
       AccessInv, ReplyInv, LockInv, GenerationInv, Dead, Replacing, Refusal,
       Tokens, RefusedMeansDead
  <2>3. AccessInv'
    BY <1>8 DEF IInv, AcquireAndReuse, TypeOK, AccessInv, ReplyInv, LockInv
  <2> QED
    BY <2>1, <2>2, <2>3 DEF IInv
<1>9. ASSUME NEW c \in Call, AcquireAndRefresh(c) PROVE IInv'
  <2>1. TypeOK' /\ StoredInv' /\ UnpostedInv' /\ AccessInv' /\ RejectedInv'
    BY <1>9 DEF IInv, AcquireAndRefresh, TypeOK, Reply, Refusal, Tokens,
       StoredInv, UnpostedInv, AccessInv, ReplyInv, LockInv, RejectedInv
  <2>2. LockInv'
    BY <1>9 DEF IInv, AcquireAndRefresh, TypeOK, LockInv
  <2>3. GenerationInv'
    BY <1>9 DEF IInv, AcquireAndRefresh, TypeOK, GenerationInv, ReplyInv,
       LockInv
  <2>4. ReplyInv'
    BY <1>9 DEF IInv, AcquireAndRefresh, TypeOK, ReplyInv, LockInv,
       GenerationInv, AccessInv, UnpostedInv, Dead, Replacing, Refusal, Tokens
  <2>5. RefusedMeansDead'
    BY <1>9 DEF IInv, AcquireAndRefresh, TypeOK, RefusedMeansDead, Dead,
       Replacing, ReplyInv, LockInv, GenerationInv, UnpostedInv, Refusal,
       Tokens
  <2> QED
    BY <2>1, <2>2, <2>3, <2>4, <2>5 DEF IInv
<1>10. ASSUME NEW c \in Call, StoreTokens(c) PROVE IInv'
  <2>1. UnpostedInv' /\ RejectedInv'
    BY <1>10 DEF IInv, StoreTokens, TypeOK, UnpostedInv, RejectedInv,
       AccessInv
  <2>2. TypeOK'
    BY <1>10 DEF IInv, StoreTokens, TypeOK, Reply, Refusal, Tokens
  <2>3. LockInv'
    BY <1>10 DEF IInv, StoreTokens, TypeOK, LockInv
  <2>4. StoredInv'
    BY <1>10 DEF IInv, StoreTokens, StoredInv
  <2>5. GenerationInv'
    BY <1>10 DEF IInv, StoreTokens, TypeOK, GenerationInv, ReplyInv, LockInv
  <2>6. AccessInv'
    <3>1. access < access' /\ access' <= issued
      BY <1>10 DEF IInv, StoreTokens, TypeOK, ReplyInv
    <3>2. ASSUME NEW d \in Call PROVE rejected[d] <= access /\ access \in Nat /\ rejected[d] \in Nat
      BY DEF IInv, AccessInv, TypeOK
    <3>3. access' \in Nat /\ issued \in Nat /\ access \in Nat
      BY <1>10 DEF IInv, StoreTokens, TypeOK, Reply
    <3>4. ASSUME NEW d \in Call
          PROVE /\ rejected'[d] <= access'
                /\ pc'[d] = "first" => rejected'[d] = sent'[d]
      <4>1. rejected'[d] <= access'
        BY <3>1, <3>2, <3>3, <1>10 DEF StoreTokens
      <4>2. pc'[d] = "first" => rejected'[d] = sent'[d]
        BY <1>10 DEF IInv, StoreTokens, TypeOK, AccessInv
      <4> QED
        BY <4>1, <4>2
    <3>5. ASSUME NEW d \in Call PROVE pc'[d] = "retry" => rejected'[d] < sent'[d]
      <4>1. CASE d = c
        BY <4>1, <3>1, <3>2, <3>3, <1>10 DEF IInv, StoreTokens, TypeOK
      <4>2. CASE d # c
        BY <4>2, <1>10 DEF IInv, StoreTokens, TypeOK, AccessInv
      <4> QED
        BY <4>1, <4>2
    <3> QED
      BY <3>1, <3>4, <3>5, <1>10 DEF StoreTokens, AccessInv
  <2>7. ReplyInv'
    BY <1>10 DEF IInv, StoreTokens, TypeOK, ReplyInv, LockInv, GenerationInv,
       AccessInv, UnpostedInv, Dead, Replacing, Refusal, Tokens
  <2>8. RefusedMeansDead'
    BY <1>10 DEF IInv, StoreTokens, TypeOK, RefusedMeansDead, Dead, Replacing,
       ReplyInv, LockInv, GenerationInv, UnpostedInv, Refusal, Tokens
  <2> QED
    BY <2>1, <2>2, <2>3, <2>4, <2>5, <2>6, <2>7, <2>8 DEF IInv
<1>11. ASSUME NEW c \in Call, RefreshRefused(c) PROVE IInv'
  <2>1. TypeOK' /\ StoredInv' /\ GenerationInv' /\ UnpostedInv' /\ AccessInv'
     /\ RejectedInv'
    BY <1>11 DEF IInv, RefreshRefused, End, TypeOK, Reply, Refusal, Tokens,
       StoredInv, GenerationInv, ReplyInv, LockInv, UnpostedInv, AccessInv,
       RejectedInv
  <2>2. LockInv'
    BY <1>11 DEF IInv, RefreshRefused, End, TypeOK, LockInv
  <2>3. ReplyInv'
    BY <1>11 DEF IInv, RefreshRefused, End, TypeOK, ReplyInv, LockInv,
       GenerationInv, AccessInv, UnpostedInv, Dead, Replacing, Refusal, Tokens
  <2>4. RefusedMeansDead'
    BY <1>11 DEF IInv, RefreshRefused, End, TypeOK, RefusedMeansDead, Dead,
       Replacing, ReplyInv, LockInv, GenerationInv, UnpostedInv, Refusal,
       Tokens
  <2> QED
    BY <2>1, <2>2, <2>3, <2>4 DEF IInv
<1>12. ASSUME NEW c \in Call, RefreshFails(c) PROVE IInv'
  <2>1. TypeOK' /\ StoredInv' /\ GenerationInv' /\ UnpostedInv' /\ AccessInv'
     /\ RejectedInv'
    BY <1>12 DEF IInv, RefreshFails, End, TypeOK, Reply, Refusal, Tokens,
       StoredInv, GenerationInv, ReplyInv, LockInv, UnpostedInv, AccessInv,
       RejectedInv
  <2>2. LockInv'
    BY <1>12 DEF IInv, RefreshFails, End, TypeOK, LockInv
  <2>3. ReplyInv'
    BY <1>12 DEF IInv, RefreshFails, End, TypeOK, ReplyInv, LockInv,
       GenerationInv, AccessInv, UnpostedInv, Dead, Replacing, Refusal, Tokens
  <2>4. RefusedMeansDead'
    BY <1>12 DEF IInv, RefreshFails, End, TypeOK, RefusedMeansDead, Dead,
       Replacing, ReplyInv, LockInv, GenerationInv, UnpostedInv, Refusal,
       Tokens
  <2> QED
    BY <2>1, <2>2, <2>3, <2>4 DEF IInv
<1>13. ASSUME NEW c \in Call, ServerExchanges(c) PROVE IInv'
  <2>1. LockInv' /\ StoredInv' /\ UnpostedInv'
    BY <1>13 DEF IInv, ServerExchanges, TypeOK, LockInv, StoredInv,
       UnpostedInv
  <2>2. TypeOK'
    BY <1>13 DEF IInv, ServerExchanges, TypeOK, Reply, Refusal, Tokens
  <2>3. GenerationInv'
    BY <1>13 DEF IInv, ServerExchanges, TypeOK, GenerationInv, ReplyInv,
       LockInv
  <2>4. AccessInv'
    BY <1>13 DEF IInv, ServerExchanges, TypeOK, AccessInv, ReplyInv, LockInv
  <2>5. RejectedInv'
    BY <1>13 DEF IInv, ServerExchanges, TypeOK, RejectedInv, AccessInv
  <2>6. ReplyInv'
    <3> SUFFICES ASSUME NEW d \in Call, pc'[d] = "refreshing"
                 PROVE /\ reply'[d].kind = "tokens" =>
                             /\ access' < reply'[d].access /\ reply'[d].access <= issued'
                             /\ reply'[d].refresh # NoToken =>
                                   /\ reply'[d].refresh = refresh' + 1
                                   /\ serverRefresh' = refresh' + 1
                       /\ reply'[d].kind = "refused" => Dead'
      BY DEF ReplyInv
    <3>0. pc[d] = "refreshing" /\ posted[d] = refresh
      BY <1>13 DEF IInv, ServerExchanges, LockInv
    <3>1. posted[c] <= refresh /\ refresh <= serverRefresh /\ posted[c] = serverRefresh
      BY <1>13 DEF IInv, ServerExchanges, GenerationInv
    <3>2. refresh = serverRefresh
      BY <3>1 DEF IInv, TypeOK
    <3>3. CASE d = c
      BY <3>0, <3>2, <3>3, <1>13 DEF IInv, ServerExchanges, TypeOK, AccessInv, Tokens
    <3>4. CASE d # c
      <4>1. reply'[d] = reply[d]
        BY <3>4, <1>13 DEF IInv, ServerExchanges, TypeOK
      <4>2. reply[d].kind # "refused"
        BY <3>0, <3>2 DEF IInv, ReplyInv, Dead
      <4>3. reply[d].kind = "tokens" => reply[d].refresh = NoToken
        BY <3>0, <3>2 DEF IInv, ReplyInv, TypeOK
      <4>4. reply[d].kind = "tokens" =>
               access < reply[d].access /\ reply[d].access <= issued
        BY <3>0 DEF IInv, ReplyInv
      <4>5. issued' = issued + 1 /\ access' = access /\ issued \in Nat /\ reply[d].access \in Nat
        BY <1>13 DEF IInv, ServerExchanges, TypeOK, Reply
      <4> QED
        BY <4>1, <4>2, <4>3, <4>4, <4>5
    <3> QED
      BY <3>3, <3>4
  <2>7. RefusedMeansDead'
    BY <1>13 DEF IInv, ServerExchanges, TypeOK, RefusedMeansDead, Dead,
       Replacing, ReplyInv, LockInv, GenerationInv, UnpostedInv, Refusal,
       Tokens
  <2> QED
    BY <2>1, <2>2, <2>3, <2>4, <2>5, <2>6, <2>7 DEF IInv
<1>14. ASSUME NEW c \in Call, ServerRefuses(c) PROVE IInv'
  <2>1. TypeOK' /\ LockInv' /\ StoredInv' /\ GenerationInv' /\ AccessInv' /\
     RejectedInv'
    BY <1>14 DEF IInv, ServerRefuses, TypeOK, Reply, Refusal, Tokens, LockInv,
       StoredInv, GenerationInv, ReplyInv, AccessInv, RejectedInv
  <2>2. UnpostedInv'
    BY <1>14 DEF IInv, ServerRefuses, TypeOK, UnpostedInv
  <2>3. ReplyInv'
    BY <1>14 DEF IInv, ServerRefuses, TypeOK, ReplyInv, LockInv,
       GenerationInv, AccessInv, UnpostedInv, Dead, Replacing, Refusal, Tokens
  <2>4. RefusedMeansDead'
    BY <1>14 DEF IInv, ServerRefuses, TypeOK, RefusedMeansDead, Dead,
       Replacing, ReplyInv, LockInv, GenerationInv, UnpostedInv, Refusal,
       Tokens
  <2> QED
    BY <2>1, <2>2, <2>3, <2>4 DEF IInv
<1>15. ASSUME AccessTokenExpires PROVE IInv'
  <2>1. LockInv' /\ StoredInv' /\ GenerationInv' /\ UnpostedInv'
    BY <1>15 DEF IInv, AccessTokenExpires, TypeOK, LockInv, StoredInv,
       GenerationInv, ReplyInv, UnpostedInv
  <2>2. AccessInv' /\ ReplyInv' /\ RefusedMeansDead'
    BY <1>15 DEF IInv, AccessTokenExpires, TypeOK, AccessInv, ReplyInv,
       LockInv, GenerationInv, UnpostedInv, Dead, Replacing, Refusal, Tokens,
       RefusedMeansDead
  <2>3. TypeOK'
    BY <1>15 DEF IInv, AccessTokenExpires, TypeOK, Reply, Refusal, Tokens
  <2>4. RejectedInv'
    BY <1>15 DEF IInv, AccessTokenExpires, TypeOK, RejectedInv, AccessInv
  <2> QED
    BY <2>1, <2>2, <2>3, <2>4 DEF IInv
<1>16. CASE UNCHANGED vars
  BY <1>16 DEF vars, IInv, TypeOK, LockInv, StoredInv, GenerationInv, UnpostedInv, AccessInv,
     RejectedInv, ReplyInv, RefusedMeansDead, Dead, Replacing
<1> QED
  BY <1>1, <1>2, <1>3, <1>4, <1>5, <1>6, <1>7, <1>8, <1>9, <1>10, <1>11,
     <1>12, <1>13, <1>14, <1>15, <1>16 DEF Next, Step

-----------------------------------------------------------------------------
(* The inductive invariant holds throughout.                               *)
THEOREM Invariance == Spec => []IInv
<1>1. Init => IInv
  BY InitIInv
<1>2. IInv /\ [Next]_vars => IInv'
  BY StepIInv
<1> QED
  BY <1>1, <1>2, PTL DEF Spec

(* Every variable of the client and of the server keeps its type.          *)
THEOREM TypeCorrect == Spec => []TypeOK
<1>1. IInv => TypeOK
  BY DEF IInv
<1> QED
  BY <1>1, Invariance, PTL

(* No call refreshes an access token the server still accepts.             *)
THEOREM RefreshIsNeeded == Spec => []NoNeedlessRefresh
<1>1. IInv => NoNeedlessRefresh
  BY DEF IInv, LockInv, RejectedInv, NoNeedlessRefresh
<1> QED
  BY <1>1, Invariance, PTL

(* The one retry carries another token than the rejected one.              *)
THEOREM RetryIsFresh == Spec => []RetryCarriesNewToken
<1>1. IInv => RetryCarriesNewToken
  BY DEF IInv, TypeOK, AccessInv, RetryCarriesNewToken, Blank
<1> QED
  BY <1>1, Invariance, PTL

(* A refused refresh token was lost for good before it was refused.        *)
THEOREM RefusalIsFinal == Spec => []RefusedMeansDead
<1>1. IInv => RefusedMeansDead
  BY DEF IInv
<1> QED
  BY <1>1, Invariance, PTL

-----------------------------------------------------------------------------
(* WoltApi implements Credential.  The held generation is the stored one;  *)
(* the server's is hidden while a granted answer is under way, so that     *)
(* reading the answer is the atomic exchange and dropping it is the loss.  *)

LEMMA InitCredential == Init => Credentials!Init
<1> SUFFICES ASSUME Init PROVE Credentials!Init
  OBVIOUS
<1>1. stored.refresh = 1 /\ serverRefresh \in {1, 2} /\ ~Granted
  BY DEF Init, Granted
<1> QED
  BY <1>1 DEF Credentials!Init, Live

LEMMA StepCredential ==
    IInv /\ [Next]_vars => [Credentials!Next]_(Credentials!vars)
<1> SUFFICES ASSUME IInv, [Next]_vars
             PROVE [Credentials!Next]_(Credentials!vars)
  OBVIOUS
<1> USE NoCallAssumption DEF Blank, NoToken, NoReply, client, calls, server
<1>a. /\ stored.refresh = refresh /\ refresh \in Nat /\ serverRefresh \in Nat
      /\ refresh <= serverRefresh /\ serverRefresh <= refresh + 1
  BY DEF IInv, TypeOK, StoredInv, GenerationInv
<1>b. (Live = refresh /\ Live' = refresh + 1 /\ stored'.refresh \in {refresh, refresh + 1})
         => Credentials!Next
  BY <1>a DEF Credentials!Next, Credentials!Exchange, Credentials!Lose
<1>c. (stored' = stored /\ Live' = Live) => UNCHANGED Credentials!vars
  BY DEF Credentials!vars
<1>1. ASSUME NEW c \in Call, StoreTokens(c)
      PROVE  [Credentials!Next]_(Credentials!vars)
  <2>1. Granted /\ ~Granted'
    BY <1>1 DEF IInv, StoreTokens, TypeOK, LockInv, Granted
  <2>2. Live = refresh /\ Live' = serverRefresh
    BY <2>1, <1>a, <1>1 DEF StoreTokens, Live
  <2>3. CASE reply[c].refresh = NoToken
    <3>1. stored'.refresh = refresh
      BY <2>3, <1>1 DEF StoreTokens
    <3>2. CASE serverRefresh = refresh + 1
      BY <2>2, <3>1, <3>2, <1>b
    <3>3. CASE serverRefresh = refresh
      BY <2>2, <3>1, <3>3, <1>a DEF Credentials!vars
    <3> QED
      BY <3>2, <3>3, <1>a
  <2>4. CASE reply[c].refresh # NoToken
    <3>1. reply[c].refresh = refresh + 1 /\ serverRefresh = refresh + 1
      BY <2>4, <1>1 DEF IInv, StoreTokens, ReplyInv
    <3>2. stored'.refresh = refresh + 1
      BY <3>1, <2>4, <1>1 DEF StoreTokens
    <3> QED
      BY <2>2, <3>1, <3>2, <1>b
  <2> QED
    BY <2>3, <2>4
<1>2. ASSUME NEW c \in Call, RefreshFails(c)
      PROVE  [Credentials!Next]_(Credentials!vars)
  <2>1. ~Granted' /\ stored' = stored /\ serverRefresh' = serverRefresh
    BY <1>2 DEF IInv, RefreshFails, End, TypeOK, LockInv, Granted
  <2>2. Live' = serverRefresh /\ stored'.refresh = refresh
    BY <2>1, <1>a DEF Live
  <2>3. CASE Live = serverRefresh
    BY <2>1, <2>2, <2>3, <1>c
  <2>4. CASE Live # serverRefresh
    <3>1. Live = refresh /\ serverRefresh = refresh + 1
      BY <2>4, <1>a DEF Live
    <3> QED
      BY <2>2, <3>1, <1>b
  <2> QED
    BY <2>3, <2>4
<1>3. ASSUME NEW c \in Call, ServerExchanges(c)
      PROVE  [Credentials!Next]_(Credentials!vars)
  <2>1. serverRefresh = refresh /\ stored' = stored /\ Live = refresh
    BY <1>a, <1>3 DEF IInv, ServerExchanges, TypeOK, GenerationInv, Live
  <2>2. serverRefresh' \in {refresh, refresh + 1}
    BY <2>1, <1>3 DEF ServerExchanges
  <2>3. Live' \in {refresh, refresh + 1}
    BY <2>1, <2>2, <1>a DEF Live
  <2>4. CASE Live' = refresh
    BY <2>1, <2>4, <1>c
  <2>5. CASE Live' = refresh + 1
    BY <2>1, <2>5, <1>a, <1>b
  <2> QED
    BY <2>3, <2>4, <2>5
<1>4. ASSUME NEW c \in Call,
             \/ StartBlank(c) \/ StartWithToken(c) \/ GetSucceeds(c) \/ FirstRejected(c)
             \/ RetryRejected(c) \/ GetFails(c) \/ CancelledWaiting(c)
             \/ AcquireAndReuse(c) \/ AcquireAndRefresh(c) \/ RefreshRefused(c)
             \/ ServerRefuses(c)
      PROVE  [Credentials!Next]_(Credentials!vars)
  <2>1. stored' = stored /\ serverRefresh' = serverRefresh
    BY <1>4 DEF StartBlank, StartWithToken, GetSucceeds, FirstRejected, RetryRejected,
       GetFails, CancelledWaiting, AcquireAndReuse, AcquireAndRefresh, RefreshRefused,
       ServerRefuses, End
  <2>2. ASSUME NEW d \in Call
        PROVE  (pc'[d] = "refreshing" /\ reply'[d].kind = "tokens")
                 = (pc[d] = "refreshing" /\ reply[d].kind = "tokens")
    <3>1. CASE d = c
      BY <3>1, <1>4 DEF StartBlank, StartWithToken, GetSucceeds, FirstRejected,
         RetryRejected, GetFails, CancelledWaiting, AcquireAndReuse, AcquireAndRefresh,
         RefreshRefused, ServerRefuses, End, IInv, TypeOK, UnpostedInv, Refusal
    <3>2. CASE d # c
      BY <3>2, <1>4 DEF StartBlank, StartWithToken, GetSucceeds, FirstRejected,
         RetryRejected, GetFails, CancelledWaiting, AcquireAndReuse, AcquireAndRefresh,
         RefreshRefused, ServerRefuses, End, IInv, TypeOK
    <3> QED
      BY <3>1, <3>2
  <2>3. Granted' = Granted
    BY <2>2 DEF Granted
  <2> QED
    BY <2>1, <2>3, <1>c DEF Live
<1>5. CASE AccessTokenExpires \/ UNCHANGED vars
  <2>1. UNCHANGED <<stored, serverRefresh, pc, reply>>
    BY <1>5 DEF AccessTokenExpires, vars
  <2> QED
    BY <2>1, <1>c DEF Live, Granted
<1> QED
  BY <1>1, <1>2, <1>3, <1>4, <1>5 DEF Next, Step

(* The integration keeps its credential alive except for lost answers.     *)
THEOREM ImplementsCredential == Spec => CredentialSpec
<1>1. Init => Credentials!Init
  BY InitCredential
<1>2. IInv /\ [Next]_vars => [Credentials!Next]_(Credentials!vars)
  BY StepCredential
<1> QED
  BY <1>1, <1>2, Invariance, PTL DEF Spec, CredentialSpec, Credentials!Spec

-----------------------------------------------------------------------------
(* The lock.                                                               *)

(* Whoever holds _refresh_lock is the call whose POST is under way.        *)
LockHeldInv == lock # NoCall => pc[lock] = "refreshing"

LEMMA StepLockHeld == IInv /\ LockHeldInv /\ [Next]_vars => LockHeldInv'
<1> SUFFICES ASSUME IInv, LockHeldInv, [Next]_vars PROVE LockHeldInv'
  OBVIOUS
<1> USE NoCallAssumption DEF LockHeldInv, client, calls, server
<1>0. pc \in [Call -> {"idle", "first", "waiting", "refreshing", "retry", "done"}]
      /\ lock \in Call \cup {NoCall}
  BY DEF IInv, TypeOK
<1>1. ASSUME NEW c \in Call,
             \/ StartBlank(c) \/ StartWithToken(c) \/ GetSucceeds(c) \/ FirstRejected(c)
             \/ RetryRejected(c) \/ GetFails(c) \/ CancelledWaiting(c) \/ AcquireAndReuse(c)
      PROVE  LockHeldInv'
  <2>1. /\ pc[c] # "refreshing" /\ lock' = lock
        /\ \A d \in Call : d # c => pc'[d] = pc[d]
    BY <1>0, <1>1 DEF StartBlank, StartWithToken, GetSucceeds, FirstRejected, RetryRejected,
       GetFails, CancelledWaiting, AcquireAndReuse, End
  <2> QED
    BY <1>0, <2>1
<1>2. ASSUME NEW c \in Call, AcquireAndRefresh(c) PROVE LockHeldInv'
  BY <1>0, <1>2 DEF AcquireAndRefresh
<1>3. ASSUME NEW c \in Call, StoreTokens(c) \/ RefreshRefused(c) \/ RefreshFails(c)
      PROVE  LockHeldInv'
  BY <1>3 DEF StoreTokens, RefreshRefused, RefreshFails
<1>4. CASE \/ \E c \in Call : ServerExchanges(c) \/ ServerRefuses(c)
           \/ AccessTokenExpires \/ UNCHANGED vars
  <2>1. UNCHANGED <<lock, pc>>
    BY <1>4 DEF ServerExchanges, ServerRefuses, AccessTokenExpires, vars
  <2> QED
    BY <2>1
<1> QED
  BY <1>1, <1>2, <1>3, <1>4 DEF Next, Step

(* The lock never outlives the request it was taken for (api.py:242-248):  *)
(* when the POST is refused, fails, times out or its task is cancelled,    *)
(* the lock is free again.                                                 *)
THEOREM LockIsReleased == Spec => []LockHeldInv
<1>1. Init => LockHeldInv
  BY DEF Init, LockHeldInv
<1> QED
  BY <1>1, StepLockHeld, Invariance, PTL DEF Spec

-----------------------------------------------------------------------------
(* A lost credential stays lost.                                           *)

(* No call revives a refresh token whose replacement was lost, and no      *)
(* access token is issued for it any more: only new credentials help.      *)
LostForGood == [][Dead => Dead' /\ UNCHANGED issued]_vars

LEMMA StepDead == IInv /\ Dead /\ [Next]_vars => Dead' /\ UNCHANGED issued
<1> SUFFICES ASSUME IInv, Dead, [Next]_vars PROVE Dead' /\ UNCHANGED issued
  OBVIOUS
<1> USE NoCallAssumption DEF NoToken, client, calls, server
<1>0. /\ pc \in [Call -> {"idle", "first", "waiting", "refreshing", "retry", "done"}]
      /\ reply \in [Call -> Reply] /\ posted \in [Call -> Nat]
      /\ refresh \in Nat /\ serverRefresh \in Nat
      /\ refresh < serverRefresh /\ \A c \in Call : posted[c] # serverRefresh
  BY DEF IInv, TypeOK, GenerationInv, Dead
<1>1. ASSUME NEW c \in Call, StoreTokens(c) PROVE Dead' /\ UNCHANGED issued
  <2>1. reply[c].refresh = NoToken
    BY <1>1 DEF StoreTokens, Dead, Replacing
  <2>2. /\ refresh' = refresh /\ UNCHANGED <<reply, serverRefresh, issued>>
        /\ pc'[c] = "retry" /\ \A d \in Call : d # c => pc'[d] = pc[d]
    BY <1>0, <1>1, <2>1 DEF StoreTokens
  <2> QED
    BY <2>2 DEF Dead, Replacing
<1>2. ASSUME NEW c \in Call,
             \/ StartBlank(c) \/ StartWithToken(c) \/ GetSucceeds(c) \/ FirstRejected(c)
             \/ RetryRejected(c) \/ GetFails(c) \/ CancelledWaiting(c)
             \/ AcquireAndReuse(c) \/ RefreshRefused(c) \/ RefreshFails(c)
      PROVE  Dead' /\ UNCHANGED issued
  <2>1. /\ UNCHANGED <<refresh, reply, serverRefresh, issued>>
        /\ pc'[c] # "refreshing" /\ \A d \in Call : d # c => pc'[d] = pc[d]
    BY <1>0, <1>2 DEF StartBlank, StartWithToken, GetSucceeds, FirstRejected, RetryRejected,
       GetFails, CancelledWaiting, AcquireAndReuse, RefreshRefused, RefreshFails, End
  <2> QED
    BY <2>1 DEF Dead, Replacing
<1>3. ASSUME NEW c \in Call, AcquireAndRefresh(c) PROVE Dead' /\ UNCHANGED issued
  <2>1. reply[c].kind # "tokens"
    BY <1>3 DEF AcquireAndRefresh, IInv, UnpostedInv, NoReply
  <2>2. /\ UNCHANGED <<refresh, reply, serverRefresh, issued>>
        /\ \A d \in Call : d # c => pc'[d] = pc[d]
    BY <1>0, <1>3 DEF AcquireAndRefresh
  <2> QED
    BY <2>1, <2>2 DEF Dead, Replacing
<1>4. ASSUME NEW c \in Call, ServerExchanges(c) PROVE FALSE
  BY <1>0, <1>4 DEF ServerExchanges
<1>5. ASSUME NEW c \in Call, ServerRefuses(c) PROVE Dead' /\ UNCHANGED issued
  <2>1. /\ UNCHANGED <<refresh, pc, serverRefresh, issued>> /\ reply'[c].kind = "refused"
        /\ \A d \in Call : d # c => reply'[d] = reply[d]
    BY <1>0, <1>5 DEF ServerRefuses, Refusal
  <2> QED
    BY <2>1 DEF Dead, Replacing
<1>6. CASE AccessTokenExpires \/ UNCHANGED vars
  <2>1. UNCHANGED <<refresh, pc, reply, serverRefresh, issued>>
    BY <1>6 DEF AccessTokenExpires, vars
  <2> QED
    BY <2>1 DEF Dead, Replacing
<1> QED
  BY <1>1, <1>2, <1>3, <1>4, <1>5, <1>6 DEF Next, Step

(* When an answer with a replacement is lost (the POST of api.py:215-221   *)
(* timed out, or its task was cancelled), no later call of the client gets *)
(* its login back, whatever order the calls and late answers come in: so   *)
(* reauthentication is asked for only when it is needed (RefusalIsFinal),  *)
(* and it is needed for good.                                              *)
THEOREM LostCredentialStaysLost == Spec => LostForGood
<1>1. IInv /\ [Next]_vars => [Dead => Dead' /\ UNCHANGED issued]_vars
  BY StepDead
<1> QED
  BY <1>1, Invariance, PTL DEF Spec, LostForGood

-----------------------------------------------------------------------------
(* Every call ends.                                                        *)

CanProgress(c) == ENABLED <<Progress(c)>>_vars
CanAcquire(c)  == ENABLED <<Acquire(c)>>_vars
CanRelease     == ENABLED <<Release>>_vars

(* A call's steps can be taken when their guards hold.  A prover of        *)
(* ENABLED is not at hand: this is a hypothesis of the theorem, which TLC  *)
(* evaluates in the states of the run calls.                               *)
EnabledAsGuarded ==
    /\ lock # NoCall /\ pc[lock] = "refreshing" => CanRelease
    /\ \A c \in Call :
         /\ pc[c] \in {"first", "refreshing", "retry"} => CanProgress(c)
         /\ pc[c] = "waiting" /\ lock = NoCall => CanAcquire(c)

(* A call only moves towards its end.                                      *)
LEMMA CallMoves ==
    ASSUME IInv, [Next]_vars, NEW c \in Call
    PROVE  /\ pc[c] = "first" => pc'[c] \in {"first", "waiting", "done"}
           /\ pc[c] = "waiting" => pc'[c] \in {"waiting", "refreshing", "retry", "done"}
           /\ pc[c] = "refreshing" => pc'[c] \in {"refreshing", "retry", "done"}
           /\ pc[c] = "retry" => pc'[c] \in {"retry", "done"}
           /\ pc[c] = "done" => pc'[c] = "done"
<1>0. pc \in [Call -> {"idle", "first", "waiting", "refreshing", "retry", "done"}]
  BY DEF IInv, TypeOK
<1>1. ASSUME NEW d \in Call, StartBlank(d) \/ StartWithToken(d) \/ Step(d)
      PROVE  /\ d # c => pc'[c] = pc[c]
             /\ pc[d] = "first" => pc'[d] \in {"waiting", "done"}
             /\ pc[d] = "waiting" => pc'[d] \in {"refreshing", "retry", "done"}
             /\ pc[d] = "refreshing" => pc'[d] \in {"retry", "done"}
             /\ pc[d] = "retry" => pc'[d] = "done"
             /\ pc[d] # "done"
  BY <1>0, <1>1 DEF Step, StartBlank, StartWithToken, GetSucceeds, FirstRejected,
     RetryRejected, GetFails, CancelledWaiting, AcquireAndReuse, AcquireAndRefresh,
     StoreTokens, RefreshRefused, RefreshFails, End
<1>2. CASE \/ \E d \in Call : ServerExchanges(d) \/ ServerRefuses(d)
           \/ AccessTokenExpires \/ UNCHANGED vars
  <2>1. pc' = pc
    BY <1>2 DEF ServerExchanges, ServerRefuses, AccessTokenExpires, vars, calls
  <2> QED
    BY <2>1
<1> QED
  BY <1>1, <1>2 DEF Next

(* What a step of its own does to it.                                      *)
LEMMA ProgressMoves ==
    ASSUME IInv, NEW c \in Call, Progress(c)
    PROVE  /\ pc[c] = "first" => pc'[c] \in {"waiting", "done"}
           /\ pc[c] = "refreshing" => pc'[c] \in {"retry", "done"}
           /\ pc[c] = "retry" => pc'[c] = "done"
BY DEF IInv, TypeOK, Progress, GetSucceeds, FirstRejected, RetryRejected, GetFails,
   AcquireAndReuse, AcquireAndRefresh, StoreTokens, RefreshRefused, RefreshFails, End

LEMMA AcquireMoves ==
    ASSUME IInv, NEW c \in Call, Acquire(c)
    PROVE  pc'[c] \in {"refreshing", "retry"}
BY DEF IInv, TypeOK, Acquire, AcquireAndReuse, AcquireAndRefresh

LEMMA ReleaseFrees == Release => lock' = NoCall
BY DEF Release, StoreTokens, RefreshRefused, RefreshFails

(* One call ends: its requests time out, and the lock it waits for is free *)
(* again and again.                                                        *)
LEMMA OneCallEnds ==
    ASSUME NEW c \in Call
    PROVE  FairSpec /\ []EnabledAsGuarded => CallEnds(c)
<1> DEFINE Inv == IInv /\ LockHeldInv /\ EnabledAsGuarded
           Free == lock = NoCall
           First == pc[c] = "first"
           Waiting == pc[c] = "waiting"
           Refreshing == pc[c] = "refreshing"
           Retry == pc[c] = "retry"
           Done == pc[c] = "done"
<1>1. CallsFairness => Fairness(c)
  BY DEF CallsFairness
<1>2. Inv => /\ ~Free => CanRelease
             /\ First \/ Refreshing \/ Retry => CanProgress(c)
             /\ Waiting /\ Free => CanAcquire(c)
  BY DEF EnabledAsGuarded, LockHeldInv
<1>3. Inv /\ [Next]_vars =>
          /\ First => First' \/ Waiting' \/ Done'
          /\ Waiting => Waiting' \/ Refreshing' \/ Retry' \/ Done'
          /\ Refreshing => Refreshing' \/ Retry' \/ Done'
          /\ Retry => Retry' \/ Done'
  BY CallMoves
<1>4. Inv /\ <<Progress(c)>>_vars =>
          /\ First => Waiting' \/ Done'
          /\ Refreshing => Retry' \/ Done'
          /\ Retry => Done'
  BY ProgressMoves
<1>5. Inv /\ <<Acquire(c)>>_vars => Refreshing' \/ Retry'
  BY AcquireMoves
<1>6. <<Release>>_vars => Free'
  BY ReleaseFrees
<1>7. Inv => (pc[c] # "idle" => First \/ Waiting \/ Refreshing
                                 \/ Retry \/ Done)
  BY DEF IInv, TypeOK
<1>8. FairSpec /\ []EnabledAsGuarded => []Inv
  BY Invariance, LockIsReleased, PTL DEF FairSpec
<1>9. FairSpec /\ []EnabledAsGuarded => []<>Free
  BY <1>2, <1>6, <1>8, PTL DEF FairSpec, CanRelease
<1> HIDE DEF Free, First, Waiting, Refreshing, Retry, Done, Inv
<1>10. FairSpec /\ []EnabledAsGuarded => (Retry ~> Done)
  BY <1>1, <1>2, <1>3, <1>4, <1>8, PTL DEF FairSpec, Spec, Fairness, CanProgress
<1>11. FairSpec /\ []EnabledAsGuarded => (Refreshing ~> Retry \/ Done)
  BY <1>1, <1>2, <1>3, <1>4, <1>8, PTL DEF FairSpec, Spec, Fairness, CanProgress
<1>12. FairSpec /\ []EnabledAsGuarded => (Waiting ~> Refreshing \/ Retry \/ Done)
  BY <1>1, <1>2, <1>3, <1>5, <1>8, <1>9, PTL DEF FairSpec, Spec, Fairness, CanAcquire
<1>13. FairSpec /\ []EnabledAsGuarded => (First ~> Waiting \/ Done)
  BY <1>1, <1>2, <1>3, <1>4, <1>8, PTL DEF FairSpec, Spec, Fairness, CanProgress
<1>14. FairSpec /\ []EnabledAsGuarded => (pc[c] # "idle" ~> Done)
  BY <1>7, <1>8, <1>10, <1>11, <1>12, <1>13, PTL
<1> QED
  BY <1>14 DEF CallEnds, Done

(* Every call that has begun ends (api.py:223-248), however many others    *)
(* queue for the same lock, and whatever the server answers or does not.   *)
THEOREM EveryCallEnds == FairSpec /\ []EnabledAsGuarded => CallsEnd
BY OneCallEnds DEF CallsEnd

=============================================================================
