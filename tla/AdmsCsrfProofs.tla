--------------------------- MODULE AdmsCsrfProofs ---------------------------
(***************************************************************************)
(* What holds of AdmsCsrf for any number of threads, service roots and     *)
(* tokens.                                                                 *)
(***************************************************************************)
EXTENDS AdmsCsrf, TLAPS

\* the token constants are distinct, and there is a service root
ConstantsAreSound == TokenAssumption /\ Roots # {}

LEMMA AnyRootIsARoot ==
  ASSUME ConstantsAreSound
  PROVE  AnyRoot \in Roots
  BY DEF ConstantsAreSound, AnyRoot

-----------------------------------------------------------------------------
(***************************************************************************)
(* What a label says of its thread: one between two writes has not been    *)
(* refused; one that sends or evicts has a token; what is marked as        *)
(* current is cached.                                                      *)
(***************************************************************************)
LabelOK(t) ==
    /\ pc[t] \in {"idle", "evict"} => tries[t] = 0
    /\ pc[t] \in {"idle", "lookup", "fetch", "merge"} => ~current[t]
    /\ pc[t] \in {"merge", "send", "evict", "refused"} => csrf[t] \in Tokens
    /\ current[t] => csrf[t] = cache[root[t]] /\ cache[root[t]] # NoCsrf

LabelsOK == \A t \in Threads : LabelOK(t)

TypeInv == TypeOK /\ LabelsOK

LEMMA InitTypeInv ==
  ASSUME ConstantsAreSound
  PROVE  Init => TypeInv
  BY AnyRootIsARoot DEF Init, TypeInv, TypeOK, LabelsOK, LabelOK, At, Labels

LEMMA StepKeepsTypeInv ==
  ASSUME ConstantsAreSound, TypeInv, [Next]_vars
  PROVE  TypeInv'
<1> USE AnyRootIsARoot
    DEF ConstantsAreSound, TokenAssumption, TypeInv, TypeOK, LabelsOK, LabelOK, Labels, Tokens,
        At, Goto, Idle, serverVars, localVars
<1>1. ASSUME NEW t \in Threads, NEW r \in Roots, NEW k \in {"write", "denied"},
             SendWithCsrf(t, r, k)
      PROVE  TypeInv'
  BY <1>1 DEF SendWithCsrf
<1>2. ASSUME NEW t \in Threads, Lookup(t) PROVE TypeInv'
  <2>1. CASE cache[root[t]] # NoCsrf
    <3>1. /\ csrf' = [csrf EXCEPT ![t] = cache[root[t]]]
          /\ current' = [current EXCEPT ![t] = TRUE]
          /\ pc' = [pc EXCEPT ![t] = "send"]
          /\ UNCHANGED <<cache, valid, root, kind, tries, steady>>
          /\ pc[t] = "lookup"
      BY <1>2, <2>1 DEF Lookup
    <3>2. TypeOK'
      BY <3>1
    <3>3. LabelsOK'
      BY <2>1, <3>1
    <3> QED
      BY <3>2, <3>3
  <2>2. CASE cache[root[t]] = NoCsrf
    BY <1>2, <2>2 DEF Lookup
  <2> QED
    BY <2>1, <2>2
<1>3. ASSUME NEW t \in Threads, FetchCsrf(t) PROVE TypeInv'
  BY <1>3 DEF FetchCsrf, Unused
<1>4. ASSUME NEW t \in Threads, FetchEmpty(t) PROVE TypeInv'
  BY <1>4 DEF FetchEmpty
<1>5. ASSUME NEW t \in Threads, FetchFails(t) PROVE TypeInv'
  BY <1>5 DEF FetchFails, Done
<1>6. ASSUME NEW t \in Threads, Merge(t) PROVE TypeInv'
  BY <1>6 DEF Merge
<1>7. ASSUME NEW t \in Threads, Succeeds(t) PROVE TypeInv'
  BY <1>7 DEF Succeeds, Done
<1>8. ASSUME NEW t \in Threads, Answered403(t) PROVE TypeInv'
  BY <1>8 DEF Answered403
<1>9. ASSUME NEW t \in Threads, OtherError(t) PROVE TypeInv'
  BY <1>9 DEF OtherError, Done
<1>10. ASSUME NEW t \in Threads, Evict(t) PROVE TypeInv'
  <2>1. /\ tries' = [tries EXCEPT ![t] = @ + 1]
        /\ csrf' = [csrf EXCEPT ![t] = NoCsrf]
        /\ pc' = [pc EXCEPT ![t] = "lookup"]
        /\ UNCHANGED <<valid, root, kind, steady>>
        /\ pc[t] = "evict"
    BY <1>10 DEF Evict, Retry
  <2>2. \/ /\ cache' = [cache EXCEPT ![root[t]] = NoCsrf]
           /\ current' = [u \in Threads |-> current[u] /\ root[u] # root[t]]
        \/ /\ cache' = cache
           /\ current' = [current EXCEPT ![t] = FALSE]
    BY <1>10 DEF Evict
  <2>3. current' \in [Threads -> BOOLEAN]
    BY <2>2
  <2>4. cache' \in [Roots -> Tokens \cup {NoCsrf}]
    BY <2>2
  <2>5. tries' \in [Threads -> 0 .. 1]
    BY <2>1
  <2>6. TypeOK'
    BY <2>1, <2>3, <2>4, <2>5
  <2>7. \A u \in Threads : current'[u] => u # t /\ current[u] /\ cache'[root[u]] = cache[root[u]]
    <3>1. CASE /\ cache' = [cache EXCEPT ![root[t]] = NoCsrf]
               /\ current' = [u \in Threads |-> current[u] /\ root[u] # root[t]]
      <4>1. \A u \in Threads : current'[u] => current[u] /\ root[u] # root[t]
        BY <3>1, Zenon
      <4>2. \A u \in Threads : root[u] # root[t] => u # t /\ cache'[root[u]] = cache[root[u]]
        BY <3>1
      <4> QED
        BY <4>1, <4>2
    <3>2. CASE cache' = cache /\ current' = [current EXCEPT ![t] = FALSE]
      BY <3>2
    <3> QED
      BY <2>2, <3>1, <3>2
  <2>8. ASSUME NEW u \in Threads PROVE LabelOK(u)'
    <3>1. CASE u = t
      BY <2>1, <2>7, <3>1
    <3>2. CASE u # t
      <4>1. UNCHANGED <<pc[u], tries[u], csrf[u], root[u]>>
        BY <2>1, <3>2
      <4> QED
        BY <2>7, <4>1
    <3> QED
      BY <3>1, <3>2
  <2> QED
    BY <2>6, <2>8
<1>11. ASSUME NEW t \in Threads, RaiseError(t) PROVE TypeInv'
  BY <1>11 DEF RaiseError, Done
<1>12. ASSUME NEW r \in Roots, ExpireToken(r) PROVE TypeInv'
  BY <1>12 DEF ExpireToken
<1>13. CASE UNCHANGED vars
  BY <1>13 DEF vars
<1> QED
  BY <1>1, <1>2, <1>3, <1>4, <1>5, <1>6, <1>7, <1>8, <1>9, <1>10, <1>11, <1>12, <1>13
  DEF Next, Step

\* The types of AdmsCsrf; and _send_with_csrf has a token when it sends, and has
\* not been refused when it begins.
THEOREM TypeCorrect ==
  ASSUME ConstantsAreSound
  PROVE  Spec => []TypeInv
  BY InitTypeInv, StepKeepsTypeInv, PTL DEF Spec

(***************************************************************************)
(* _get_csrf_token: "all callers observe the same token", until one of the *)
(* root is evicted (adms/_http.py:331-332).                                *)
(***************************************************************************)
THEOREM CallersObserveTheSameToken ==
  ASSUME ConstantsAreSound
  PROVE  Spec => []AllObserveTheSameToken
<1>1. TypeInv => AllObserveTheSameToken
  BY DEF TypeInv, LabelsOK, LabelOK, AllObserveTheSameToken
<1> QED
  BY TypeCorrect, <1>1, PTL

-----------------------------------------------------------------------------
(***************************************************************************)
(* A stale token is cached under r: it has expired, or the response it     *)
(* came from had no header.                                                *)
(***************************************************************************)
StaleIsCached(r) == cache[r] \notin valid[r] \cup {NoCsrf}

(***************************************************************************)
(* While nothing expires, a stale token can only be one that was cached    *)
(* before: whoever sends while it is cached sends that token, so the first *)
(* caller who is refused evicts it, and what is fetched from then on is    *)
(* valid.  After its first refusal a caller finds no stale one.            *)
(***************************************************************************)
StaleOK(t) ==
    /\ At(t, "merge") => csrf[t] \in valid[root[t]]
    /\ pc[t] \in {"send", "evict"} /\ StaleIsCached(root[t]) => cache[root[t]] = csrf[t]
    /\ tries[t] = 1 => ~StaleIsCached(root[t])
    /\ tries[t] = 1 /\ At(t, "send") => csrf[t] \in valid[root[t]]
    /\ At(t, "refused") => kind[t] = "denied"

StaleGoesOnce == steady => \A t \in Threads : StaleOK(t)

IInv == TypeInv /\ StaleGoesOnce

LEMMA InitIInv ==
  ASSUME ConstantsAreSound
  PROVE  Init => IInv
<1>1. ASSUME Init, NEW t \in Threads PROVE StaleOK(t)
  <2>1. pc[t] = "idle" /\ tries[t] = 0
    BY <1>1 DEF Init
  <2>2. TypeOK
    BY <1>1, InitTypeInv DEF TypeInv
  <2> QED
    BY <2>1, <2>2 DEF TypeOK, Labels, StaleOK, At
<1> QED
  BY <1>1, InitTypeInv DEF IInv, StaleGoesOnce

LEMMA StepKeepsStale ==
  ASSUME ConstantsAreSound, IInv, [Next]_vars
  PROVE  StaleGoesOnce'
<1> USE DEF ConstantsAreSound, TokenAssumption, IInv, TypeInv, TypeOK, LabelsOK, LabelOK,
            Labels, Tokens,
        At, Goto, Idle, serverVars, localVars, StaleGoesOnce, StaleOK, StaleIsCached
<1>1. ASSUME NEW t \in Threads, NEW r \in Roots, NEW k \in {"write", "denied"},
             SendWithCsrf(t, r, k)
      PROVE  StaleGoesOnce'
  BY <1>1 DEF SendWithCsrf
<1>2. ASSUME NEW t \in Threads, Lookup(t) PROVE StaleGoesOnce'
  BY <1>2 DEF Lookup
<1>3. ASSUME NEW t \in Threads, FetchCsrf(t) PROVE StaleGoesOnce'
  BY <1>3 DEF FetchCsrf, Unused
<1>4. ASSUME NEW t \in Threads, FetchEmpty(t) PROVE StaleGoesOnce'
  BY <1>4 DEF FetchEmpty
<1>5. ASSUME NEW t \in Threads, FetchFails(t) PROVE StaleGoesOnce'
  BY <1>5, AnyRootIsARoot DEF FetchFails, Done
<1>6. ASSUME NEW t \in Threads, Merge(t) PROVE StaleGoesOnce'
  BY <1>6 DEF Merge
<1>7. ASSUME NEW t \in Threads, Succeeds(t) PROVE StaleGoesOnce'
  BY <1>7, AnyRootIsARoot DEF Succeeds, Done
<1>8. ASSUME NEW t \in Threads, Answered403(t) PROVE StaleGoesOnce'
  BY <1>8 DEF Answered403, Forbidden
<1>9. ASSUME NEW t \in Threads, OtherError(t) PROVE StaleGoesOnce'
  BY <1>9, AnyRootIsARoot DEF OtherError, Done
<1>10. ASSUME NEW t \in Threads, Evict(t) PROVE StaleGoesOnce'
  <2>1. /\ tries' = [tries EXCEPT ![t] = @ + 1]
        /\ csrf' = [csrf EXCEPT ![t] = NoCsrf]
        /\ pc' = [pc EXCEPT ![t] = "lookup"]
        /\ UNCHANGED <<valid, root, kind, steady>>
        /\ pc[t] = "evict"
    BY <1>10 DEF Evict, Retry
  <2>2. CASE cache[root[t]] = csrf[t]
    <3>1. cache' = [cache EXCEPT ![root[t]] = NoCsrf]
      BY <1>10, <2>2 DEF Evict
    <3> QED
      BY <2>1, <3>1
  <2>3. CASE cache[root[t]] # csrf[t]
    <3>1. cache' = cache
      BY <1>10, <2>3 DEF Evict
    <3> QED
      BY <2>1, <2>3, <3>1
  <2> QED
    BY <2>2, <2>3
<1>11. ASSUME NEW t \in Threads, RaiseError(t) PROVE StaleGoesOnce'
  BY <1>11, AnyRootIsARoot DEF RaiseError, Done
<1>12. ASSUME NEW r \in Roots, ExpireToken(r) PROVE StaleGoesOnce'
  BY <1>12 DEF ExpireToken
<1>13. CASE UNCHANGED vars
  BY <1>13 DEF vars
<1> QED
  BY <1>1, <1>2, <1>3, <1>4, <1>5, <1>6, <1>7, <1>8, <1>9, <1>10, <1>11, <1>12, <1>13
  DEF Next, Step

(***************************************************************************)
(* However many writes find the same stale token at once, a permitted one  *)
(* that overlaps no expiry and no response without the header recovers     *)
(* with its one retry (adms/_http.py:295-313).                             *)
(***************************************************************************)
THEOREM WritesRecover ==
  ASSUME ConstantsAreSound
  PROVE  Spec => []UndisturbedWritesRecover
<1>1. Spec => []IInv
  <2>1. IInv /\ [Next]_vars => IInv'
    BY StepKeepsTypeInv, StepKeepsStale DEF IInv
  <2> QED
    BY <2>1, InitIInv, PTL DEF Spec
<1>2. IInv => UndisturbedWritesRecover
  BY DEF IInv, TypeInv, TypeOK, StaleGoesOnce, StaleOK, UndisturbedWritesRecover
<1> QED
  BY <1>1, <1>2, PTL

-----------------------------------------------------------------------------
(***************************************************************************)
(* A caller that was refused for its token evicts a token the server has   *)
(* given up for good: what a fetch returns from then on is a token that    *)
(* nobody holds, or one that has been valid all the time.                  *)
(***************************************************************************)
RefusedForGood ==
    \A t \in Threads : At(t, "evict") => kind[t] = "denied" \/ csrf[t] \notin valid[root[t]]

LEMMA StepKeepsRefused ==
  ASSUME ConstantsAreSound, TypeInv, RefusedForGood, [Next]_vars
  PROVE  RefusedForGood'
<1> USE DEF ConstantsAreSound, TokenAssumption, TypeInv, TypeOK, Labels, Tokens, At, Goto, Idle,
            serverVars, localVars, RefusedForGood
<1>1. ASSUME NEW t \in Threads, NEW r \in Roots, NEW k \in {"write", "denied"},
             SendWithCsrf(t, r, k)
      PROVE  RefusedForGood'
  BY <1>1 DEF SendWithCsrf
<1>2. ASSUME NEW t \in Threads, Lookup(t) PROVE RefusedForGood'
  BY <1>2 DEF Lookup
<1>3. ASSUME NEW t \in Threads, FetchCsrf(t) PROVE RefusedForGood'
  <2>1. PICK n \in Unused(root[t]) \cup valid[root[t]] :
          /\ csrf' = [csrf EXCEPT ![t] = n]
          /\ valid' = [valid EXCEPT ![root[t]] = @ \cup {n}]
    BY <1>3 DEF FetchCsrf
  <2>2. pc' = [pc EXCEPT ![t] = "merge"] /\ UNCHANGED <<root, kind>>
    BY <1>3 DEF FetchCsrf
  <2>3. ASSUME NEW u \in Threads, At(u, "evict")', kind'[u] = "write"
        PROVE  csrf'[u] \notin valid'[root'[u]]
    <3>1. u # t /\ At(u, "evict") /\ csrf'[u] = csrf[u] /\ csrf[u] \notin valid[root[u]]
      BY <2>1, <2>2, <2>3
    <3>2. root[u] = root[t] => csrf[u] # n
      BY <2>1, <3>1 DEF Unused
    <3> QED
      BY <2>1, <2>2, <3>1, <3>2
  <2> QED
    BY <2>2, <2>3
<1>4. ASSUME NEW t \in Threads, FetchEmpty(t) PROVE RefusedForGood'
  BY <1>4 DEF FetchEmpty
<1>5. ASSUME NEW t \in Threads, FetchFails(t) PROVE RefusedForGood'
  BY <1>5, AnyRootIsARoot DEF FetchFails, Done
<1>6. ASSUME NEW t \in Threads, Merge(t) PROVE RefusedForGood'
  BY <1>6 DEF Merge
<1>7. ASSUME NEW t \in Threads, Succeeds(t) PROVE RefusedForGood'
  BY <1>7, AnyRootIsARoot DEF Succeeds, Done
<1>8. ASSUME NEW t \in Threads, Answered403(t) PROVE RefusedForGood'
  BY <1>8 DEF Answered403, Forbidden
<1>9. ASSUME NEW t \in Threads, OtherError(t) PROVE RefusedForGood'
  BY <1>9, AnyRootIsARoot DEF OtherError, Done
<1>10. ASSUME NEW t \in Threads, Evict(t) PROVE RefusedForGood'
  BY <1>10 DEF Evict, Retry
<1>11. ASSUME NEW t \in Threads, RaiseError(t) PROVE RefusedForGood'
  BY <1>11, AnyRootIsARoot DEF RaiseError, Done
<1>12. ASSUME NEW r \in Roots, ExpireToken(r) PROVE RefusedForGood'
  BY <1>12 DEF ExpireToken
<1>13. CASE UNCHANGED vars
  BY <1>13 DEF vars
<1> QED
  BY <1>1, <1>2, <1>3, <1>4, <1>5, <1>6, <1>7, <1>8, <1>9, <1>10, <1>11, <1>12, <1>13
  DEF Next, Step

\* Only an eviction takes a token out of the cache, and only the one it holds.
LEMMA OnlyEvictionsEmpty ==
  ASSUME ConstantsAreSound, TypeInv, [Next]_vars,
         NEW r \in Roots, cache[r] # NoCsrf, cache'[r] = NoCsrf
  PROVE  \E t \in Threads : At(t, "evict") /\ root[t] = r /\ csrf[t] = cache[r]
<1> USE DEF ConstantsAreSound, TokenAssumption, TypeInv, TypeOK, Tokens, serverVars, localVars
<1>1. ASSUME NEW t \in Threads, Evict(t)
      PROVE  At(t, "evict") /\ root[t] = r /\ csrf[t] = cache[r]
  <2>1. At(t, "evict") /\ cache[root[t]] = csrf[t] /\ cache' = [cache EXCEPT ![root[t]] = NoCsrf]
    BY <1>1 DEF Evict
  <2> QED
    BY <2>1
<1>2. ASSUME NEW t \in Threads, Merge(t) PROVE FALSE
  BY <1>2 DEF Merge
<1>3. CASE UNCHANGED cache
  BY <1>3
<1> QED
  BY <1>1, <1>2, <1>3
  DEF Next, Step, SendWithCsrf, Lookup, FetchCsrf, FetchEmpty, FetchFails, Succeeds, Answered403,
      OtherError, RaiseError, ExpireToken, vars

(***************************************************************************)
(* The late 403 of a stale token does not throw away a sibling's fresh     *)
(* one, in any order of fetches, refusals, evictions and expiries          *)
(* (adms/_http.py:303-305).                                                *)
(***************************************************************************)
THEOREM FreshTokensStay ==
  ASSUME ConstantsAreSound
  PROVE  Spec => FreshTokenIsKept
<1>1. Init => RefusedForGood
  BY DEF Init, RefusedForGood, At
<1>2. TypeInv /\ RefusedForGood /\ [Next]_vars => RefusedForGood'
  BY StepKeepsRefused
<1>3. ASSUME TypeInv, RefusedForGood, [Next]_vars,
             NEW r \in Roots, cache[r] \in valid[r], cache'[r] = NoCsrf
      PROVE  \E t \in Threads : At(t, "evict") /\ kind[t] = "denied" /\ csrf[t] = cache[r]
  <2>1. cache[r] # NoCsrf
    BY <1>3 DEF TypeInv, TypeOK, ConstantsAreSound, TokenAssumption
  <2>2. PICK t \in Threads : At(t, "evict") /\ root[t] = r /\ csrf[t] = cache[r]
    BY <1>3, <2>1, OnlyEvictionsEmpty
  <2> QED
    BY <1>3, <2>2 DEF RefusedForGood
<1>4. TypeInv /\ RefusedForGood /\ [Next]_vars
        => [\A r \in Roots :
              cache[r] \in valid[r] /\ cache'[r] = NoCsrf
                => \E t \in Threads : At(t, "evict") /\ kind[t] = "denied"
                                      /\ csrf[t] = cache[r]]_vars
  BY <1>3
<1> QED
  BY <1>1, <1>2, <1>4, TypeCorrect, PTL DEF Spec, FreshTokenIsKept


=============================================================================
