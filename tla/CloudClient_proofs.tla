-------------------------- MODULE CloudClient_proofs --------------------------
(***************************************************************************)
(* Proofs about CloudClient, for any number of calls, credentials, tokens  *)
(* and attempts.                                                           *)
(***************************************************************************)
EXTENDS CloudClient, TLAPS

-----------------------------------------------------------------------------
(* The inductive invariant *)

Held(c) == {call[c].access_token, call[c].lookup_token} \ {None}

\* A call under way has a key and the tokens that its requests present, and an
\* attempt left when it sleeps; an idle one has none of it.
CallRefs ==
    \A c \in Calls :
        /\ call[c].pc = "idle" => Held(c) = {} /\ ~call[c].sleeping
        /\ call[c].sleeping => call[c].attempt < RetryAttempts
        /\ call[c].pc # "idle" => Key(c) # None
        /\ call[c].pc \in {"renewal", "account", "read"} => call[c].access_token # None
        /\ call[c].pc = "account" => call[c].lookup_token # None

\* No token is cached under two keys.
CachedOnce ==
    \A k, j \in Keys : (token_cache[k] = token_cache[j] /\ token_cache[k] # None) => k = j

\* A cached token which a call holds is cached under the key of that call.
CachedUnderKey ==
    \A c \in Calls, k \in Keys : token_cache[k] \in Held(c) => k = Key(c)

CacheInv == TypeOK /\ CallRefs /\ CachedOnce /\ CachedUnderKey /\ RejectedIsNotCached
-----------------------------------------------------------------------------
(* What the operators of the model do *)

LEMMA NoCallType == \A r \in {"none", "ok", "failed"} : NoCall(r) \in Call
BY RetryAssumption DEF NoCall, Call, Requesting

LEMMA HeldNone == ASSUME NEW c \in Calls PROVE None \notin Held(c)
BY DEF Held

LEMMA FirstAttempt == 1 \in 1..RetryAttempts
BY RetryAssumption

LEMMA RequestFacts ==
    ASSUME NEW x \in Call, NEW pc \in Requesting
    PROVE  /\ Request(x, pc) \in Call
           /\ Request(x, pc).pc = pc /\ Request(x, pc).key = x.key
           /\ Request(x, pc).sleeping = x.sleeping
           /\ Request(x, pc).access_token = x.access_token
           /\ Request(x, pc).lookup_token = x.lookup_token
BY FirstAttempt DEF Request, Call

\* The call l is as CallRefs wants a call to be.
Whole(l) ==
    /\ l.pc = "idle" => l.access_token = None /\ l.lookup_token = None /\ ~l.sleeping
    /\ l.sleeping => l.attempt < RetryAttempts
    /\ l.pc # "idle" => l.key # None
    /\ l.pc \in {"renewal", "account", "read"} => l.access_token # None
    /\ l.pc = "account" => l.lookup_token # None

LEMMA CallIsWhole == ASSUME CacheInv, NEW c \in Calls PROVE Whole(call[c])
BY DEF CacheInv, CallRefs, Whole, Held, Key

\* What is left to show of a step that changes the call c to l.
LEMMA CallMoves ==
    ASSUME CacheInv, NEW c \in Calls, NEW l \in Call, Whole(l),
           call' = [call EXCEPT ![c] = l],
           token_cache' \in [Keys -> Tokens \cup {None}],
           account_cache' \subseteq Keys, expired' \subseteq Keys,
           revoked' \subseteq Tokens, rejected' \subseteq Tokens, outage' \in BOOLEAN,
           CachedOnce', RejectedIsNotCached',
           \A d \in Calls, k \in Keys :
              (d # c /\ token_cache'[k] \in Held(d)) => k = Key(d),
           \A k \in Keys :
              token_cache'[k] \in {l.access_token, l.lookup_token} \ {None} => k = l.key
    PROVE  CacheInv'
<1>1. call' \in [Calls -> Call] /\ call'[c] = l /\ \A d \in Calls : d # c => call'[d] = call[d]
  BY DEF CacheInv, TypeOK
<1>2. TypeOK'
  BY <1>1 DEF TypeOK
<1>3. \A d \in Calls : d # c => Held(d)' = Held(d) /\ Key(d)' = Key(d)
  BY <1>1 DEF Held, Key
<1>4. Held(c)' = {l.access_token, l.lookup_token} \ {None} /\ Key(c)' = l.key
  BY <1>1 DEF Held, Key
<1>5. CallRefs'
  <2> SUFFICES ASSUME NEW d \in Calls
               PROVE  /\ call'[d].pc = "idle" => Held(d)' = {} /\ ~call'[d].sleeping
                      /\ call'[d].sleeping => call'[d].attempt < RetryAttempts
                      /\ call'[d].pc # "idle" => Key(d)' # None
                      /\ call'[d].pc \in {"renewal", "account", "read"} => call'[d].access_token # None
                      /\ call'[d].pc = "account" => call'[d].lookup_token # None
    BY DEF CallRefs
  <2>1. CASE d # c
    BY <2>1, <1>1, <1>3 DEF CacheInv, CallRefs
  <2>2. CASE d = c
    BY <2>2, <1>1, <1>4 DEF Whole
  <2> QED BY <2>1, <2>2
<1>6. CachedUnderKey'
  BY <1>3, <1>4 DEF CachedUnderKey
<1> QED BY <1>2, <1>5, <1>6 DEF CacheInv

\* A step of a call that neither changes the token cache nor gives the call a
\* token: it goes on under its key, or it ends.
LEMMA CallGoesOn ==
    ASSUME CacheInv, NEW c \in Calls, NEW l \in Call, Whole(l),
           call' = [call EXCEPT ![c] = l],
           UNCHANGED <<token_cache, rejected, revoked>>,
           account_cache' \subseteq Keys, expired' \subseteq Keys, outage' \in BOOLEAN,
           l.pc = "idle" \/ l.key = Key(c),
           {l.access_token, l.lookup_token} \ {None} \subseteq Held(c)
    PROVE  CacheInv'
<1>1. CachedOnce' /\ RejectedIsNotCached'
  BY DEF CacheInv, CachedOnce, RejectedIsNotCached
<1>2. \A k \in Keys : token_cache[k] \in {l.access_token, l.lookup_token} \ {None} => k = l.key
  BY DEF CacheInv, CachedUnderKey, Whole
<1> QED BY <1>1, <1>2, CallMoves DEF CacheInv, TypeOK, CachedUnderKey

\* The cloud issues t: no other entry of the cache and no call holds it.
LEMMA IssueFacts ==
    ASSUME CacheInv, NEW k \in Keys, NEW t \in Tokens, Issue(k, t)
    PROVE  /\ token_cache' \in [Keys -> Tokens \cup {None}]
           /\ token_cache'[k] = t
           /\ revoked' \subseteq Tokens /\ rejected' \subseteq Tokens
           /\ CachedOnce' /\ RejectedIsNotCached'
           /\ \A j \in Keys : token_cache'[j] = t => j = k
           /\ \A d \in Calls, j \in Keys : token_cache'[j] \in Held(d) => j = Key(d)
<1>1. /\ token_cache' \in [Keys -> Tokens \cup {None}]
      /\ \A j \in Keys : token_cache'[j] = IF j = k THEN t ELSE token_cache[j]
  BY DEF CacheInv, TypeOK, Issue
<1>2. \A j \in Keys : token_cache[j] # t
  BY DEF Issue, Fresh
<1>3. \A d \in Calls : t \notin Held(d)
  BY DEF Issue, Fresh, Held
<1>4. CachedOnce'
  BY <1>1, <1>2 DEF CacheInv, CachedOnce
<1>5. RejectedIsNotCached'
  BY <1>1 DEF CacheInv, RejectedIsNotCached, Issue
<1>6. \A d \in Calls, j \in Keys : token_cache'[j] \in Held(d) => j = Key(d)
  BY <1>1, <1>3 DEF CacheInv, CachedUnderKey
<1> QED BY <1>1, <1>2, <1>4, <1>5, <1>6 DEF CacheInv, TypeOK, Issue

-----------------------------------------------------------------------------
(* One lemma per action *)

LEMMA InitInv == Init => CacheInv
<1> SUFFICES ASSUME Init PROVE CacheInv
  OBVIOUS
<1>1. TypeOK
  BY NoCallType DEF Init, TypeOK
<1>2. CallRefs /\ CachedUnderKey
  BY DEF Init, CallRefs, CachedUnderKey, Held, Key, NoCall
<1>3. CachedOnce /\ RejectedIsNotCached
  BY DEF Init, CachedOnce, RejectedIsNotCached
<1> QED BY <1>1, <1>2, <1>3 DEF CacheInv

LEMMA RetryStep == ASSUME CacheInv, NEW c \in Calls, Retry(c) PROVE CacheInv'
<1> DEFINE l == [call[c] EXCEPT !.sleeping = TRUE]
<1>1. call' = [call EXCEPT ![c] = l]
  BY DEF Retry, CacheInv, TypeOK, Call
<1>2. /\ l \in Call
      /\ l.pc = call[c].pc /\ l.key = call[c].key /\ l.attempt = call[c].attempt
      /\ l.access_token = call[c].access_token /\ l.lookup_token = call[c].lookup_token
  BY DEF CacheInv, TypeOK, Call
<1>3. l.attempt < RetryAttempts /\ l.pc # "idle"
  BY <1>2 DEF Retry, Waiting, Requesting
<1>4. Whole(l)
  BY <1>2, <1>3, CallIsWhole DEF Whole
<1> HIDE DEF l
<1> QED BY <1>1, <1>2, <1>4, CallGoesOn DEF Retry, CacheInv, TypeOK, Held, Key

LEMMA SleepOverStep == ASSUME CacheInv, NEW c \in Calls, SleepOver(c) PROVE CacheInv'
<1> DEFINE l == [call[c] EXCEPT !.sleeping = FALSE, !.attempt = call[c].attempt + 1]
<1>1. call' = [call EXCEPT ![c] = l]
  BY DEF SleepOver, CacheInv, TypeOK, Call
<1>2. call[c] \in Call /\ call[c].attempt < RetryAttempts
  BY DEF SleepOver, CacheInv, TypeOK, CallRefs
<1>3. call[c].attempt + 1 \in 1..RetryAttempts
  BY <1>2, RetryAssumption DEF Call
<1>4. /\ l.pc = call[c].pc /\ l.key = call[c].key /\ ~l.sleeping
      /\ l.access_token = call[c].access_token /\ l.lookup_token = call[c].lookup_token
  BY <1>2 DEF Call
<1>5. l \in Call
  BY <1>2, <1>3 DEF Call
<1>6. Whole(l)
  BY <1>4, CallIsWhole DEF Whole
<1> HIDE DEF l
<1> QED BY <1>1, <1>4, <1>5, <1>6, CallGoesOn DEF SleepOver, CacheInv, TypeOK, Held, Key

\* The call ends, and leaves the token cache alone.
LEMMA EndStep == ASSUME CacheInv, NEW c \in Calls, Fails(c) \/ ReadOk(c) PROVE CacheInv'
<1>1. PICK l \in {NoCall("failed"), NoCall("ok")} : call' = [call EXCEPT ![c] = l]
  BY DEF Fails, ReadOk
<1>2. l \in Call
  BY NoCallType
<1>3. Whole(l) /\ l.pc = "idle" /\ l.access_token = None /\ l.lookup_token = None
  BY DEF Whole, NoCall
<1> HIDE DEF NoCall
<1> QED BY <1>1, <1>2, <1>3, CallGoesOn DEF Fails, ReadOk, CacheInv, TypeOK

LEMMA AccountOkStep == ASSUME CacheInv, NEW c \in Calls, AccountOk(c) PROVE CacheInv'
<1> DEFINE l == Request(call[c], "read")
<1>1. call' = [call EXCEPT ![c] = l]
  BY DEF AccountOk
<1>2. call[c] \in Call /\ call[c].pc = "account" /\ ~call[c].sleeping
  BY DEF AccountOk, Waiting, CacheInv, TypeOK
<1>3. /\ l \in Call /\ l.pc = "read" /\ l.key = call[c].key /\ ~l.sleeping
      /\ l.access_token = call[c].access_token /\ l.lookup_token = call[c].lookup_token
  BY <1>2, RequestFacts DEF Requesting
<1>4. Whole(l)
  BY <1>2, <1>3, CallIsWhole DEF Whole
<1>5. Key(c) \in Keys
  BY <1>2 DEF CacheInv, TypeOK, CallRefs, Key, Call
<1> HIDE DEF l
<1> QED BY <1>1, <1>3, <1>4, <1>5, CallGoesOn DEF AccountOk, CacheInv, TypeOK, Held, Key

\* The locals of a call that proceeds with the token t under the key k.
LEMMA ProceedFacts ==
    ASSUME CacheInv, NEW c \in Calls, NEW k \in Keys, NEW t \in Tokens,
           NEW stale \in SUBSET Keys, ~call[c].sleeping,
           Proceed(c, k, t, stale)
    PROVE  \E l \in Call :
              /\ call' = [call EXCEPT ![c] = l]
              /\ Whole(l) /\ l.key = k /\ l.access_token = t
              /\ l.lookup_token \in {t, call[c].lookup_token}
              /\ expired' \subseteq Keys
<1> DEFINE locals == [call[c] EXCEPT !.key = k, !.access_token = t, !.result = "none"]
           looking == [locals EXCEPT !.lookup_token = t]
<1>1. /\ locals \in Call /\ ~locals.sleeping /\ locals.key = k /\ locals.access_token = t
      /\ locals.lookup_token = call[c].lookup_token
  BY DEF CacheInv, TypeOK, Call
<1>2. /\ looking \in Call /\ ~looking.sleeping /\ looking.key = k /\ looking.access_token = t
      /\ looking.lookup_token = t
  BY <1>1 DEF Call
<1>3. \E x \in {locals, looking}, pc \in {"read", "account", "renewal"} :
          /\ call' = [call EXCEPT ![c] = Request(x, pc)]
          /\ pc = "account" => x.lookup_token = t
          /\ expired' \subseteq Keys
  BY <1>2 DEF Proceed
<1> HIDE DEF locals, looking
<1>4. PICK x \in {locals, looking}, pc \in {"read", "account", "renewal"} :
          /\ call' = [call EXCEPT ![c] = Request(x, pc)]
          /\ pc = "account" => x.lookup_token = t
          /\ expired' \subseteq Keys
  BY <1>3
<1> DEFINE l == Request(x, pc)
<1>5. /\ l \in Call /\ l.pc = pc /\ ~l.sleeping /\ l.key = k /\ l.access_token = t
      /\ l.lookup_token = x.lookup_token
  BY <1>1, <1>2, RequestFacts DEF Requesting
<1>6. Whole(l)
  BY <1>4, <1>5, NoneAssumption DEF Whole
<1> QED BY <1>1, <1>2, <1>4, <1>5, <1>6

LEMMA StartCachedStep ==
    ASSUME CacheInv, NEW c \in Calls, NEW k \in Keys, StartCached(c, k) PROVE CacheInv'
<1> DEFINE t == token_cache[k]
<1>1. t \in Tokens /\ ~call[c].sleeping /\ call[c].lookup_token = None
  BY DEF StartCached, Usable, CacheInv, TypeOK, CallRefs, Held, Call
<1>2. PICK l \in Call : /\ call' = [call EXCEPT ![c] = l]
                        /\ Whole(l) /\ l.key = k /\ l.access_token = t
                        /\ l.lookup_token \in {t, call[c].lookup_token}
                        /\ expired' \subseteq Keys
  BY <1>1, ProceedFacts DEF StartCached, CacheInv, TypeOK
<1>3. \A j \in Keys : token_cache[j] \in {l.access_token, l.lookup_token} \ {None} => j = l.key
  BY <1>1, <1>2 DEF CacheInv, CachedOnce
<1>4. CachedOnce' /\ RejectedIsNotCached'
  BY DEF StartCached, CacheInv, CachedOnce, RejectedIsNotCached
<1> QED BY <1>2, <1>3, <1>4, CallMoves DEF StartCached, CacheInv, TypeOK, CachedUnderKey

LEMMA StartUncachedStep ==
    ASSUME CacheInv, NEW c \in Calls, NEW k \in Keys, StartUncached(c, k) PROVE CacheInv'
<1> DEFINE x == Request(call[c], "token")
           l == [x EXCEPT !.key = k, !.result = "none"]
<1>1. call' = [call EXCEPT ![c] = l]
  BY DEF StartUncached
<1>2. /\ call[c] \in Call /\ call[c].pc = "idle" /\ ~call[c].sleeping
      /\ call[c].access_token = None /\ call[c].lookup_token = None
  BY DEF StartUncached, CacheInv, TypeOK, CallRefs, Held
<1>3. /\ x \in Call /\ x.pc = "token" /\ ~x.sleeping
      /\ x.access_token = None /\ x.lookup_token = None
  BY <1>2, RequestFacts DEF Requesting
<1> HIDE DEF x
<1>4. /\ l \in Call /\ l.pc = "token" /\ ~l.sleeping /\ l.key = k
      /\ l.access_token = None /\ l.lookup_token = None
  BY <1>3 DEF Call
<1>5. Whole(l)
  BY <1>4, NoneAssumption DEF Whole
<1>6. CachedOnce' /\ RejectedIsNotCached'
  BY DEF StartUncached, CacheInv, CachedOnce, RejectedIsNotCached
<1> HIDE DEF l
<1> QED BY <1>1, <1>4, <1>5, <1>6, CallMoves DEF StartUncached, CacheInv, TypeOK, CachedUnderKey

LEMMA TokenOkStep ==
    ASSUME CacheInv, NEW c \in Calls, NEW t \in Tokens, TokenOk(c, t) PROVE CacheInv'
<1>1. Key(c) \in Keys /\ ~call[c].sleeping /\ expired \ {Key(c)} \subseteq Keys
  BY DEF TokenOk, Waiting, CacheInv, TypeOK, CallRefs, Key, Call
<1>2. PICK l \in Call : /\ call' = [call EXCEPT ![c] = l]
                        /\ Whole(l) /\ l.key = Key(c) /\ l.access_token = t
                        /\ l.lookup_token \in {t, call[c].lookup_token}
                        /\ expired' \subseteq Keys
  BY <1>1, ProceedFacts DEF TokenOk
<1>3. /\ token_cache' \in [Keys -> Tokens \cup {None}]
      /\ revoked' \subseteq Tokens /\ rejected' \subseteq Tokens
      /\ CachedOnce' /\ RejectedIsNotCached'
      /\ \A j \in Keys : token_cache'[j] = t => j = Key(c)
      /\ \A d \in Calls, j \in Keys : token_cache'[j] \in Held(d) => j = Key(d)
  BY <1>1, IssueFacts DEF TokenOk
<1>4. \A j \in Keys : token_cache'[j] \in {l.access_token, l.lookup_token} \ {None} => j = l.key
  BY <1>2, <1>3 DEF Held
<1> QED BY <1>2, <1>3, <1>4, CallMoves DEF TokenOk, CacheInv, TypeOK

LEMMA RenewalOkStep ==
    ASSUME CacheInv, NEW c \in Calls, NEW t \in Tokens, RenewalOk(c, t) PROVE CacheInv'
<1> DEFINE x == [call[c] EXCEPT !.lookup_token = t]
           l == Request(x, "account")
<1>1. call' = [call EXCEPT ![c] = l]
  BY DEF RenewalOk
<1>2. /\ call[c] \in Call /\ call[c].pc = "renewal" /\ ~call[c].sleeping
      /\ Key(c) \in Keys /\ call[c].access_token # None
  BY DEF RenewalOk, Waiting, CacheInv, TypeOK, CallRefs, Key, Call
<1>3. /\ x \in Call /\ x.key = Key(c) /\ ~x.sleeping
      /\ x.access_token = call[c].access_token /\ x.lookup_token = t
  BY <1>2 DEF Call, Key
<1> HIDE DEF x
<1>4. /\ l \in Call /\ l.pc = "account" /\ l.key = Key(c) /\ ~l.sleeping
      /\ l.access_token = call[c].access_token /\ l.lookup_token = t
  BY <1>3, RequestFacts DEF Requesting
<1>5. Whole(l)
  BY <1>2, <1>4, NoneAssumption DEF Whole
<1> HIDE DEF l
<1>6. /\ token_cache' \in [Keys -> Tokens \cup {None}]
      /\ revoked' \subseteq Tokens /\ rejected' \subseteq Tokens
      /\ CachedOnce' /\ RejectedIsNotCached'
      /\ \A j \in Keys : token_cache'[j] = t => j = Key(c)
      /\ \A d \in Calls, j \in Keys : token_cache'[j] \in Held(d) => j = Key(d)
  BY <1>2, IssueFacts DEF RenewalOk
<1>7. \A j \in Keys : token_cache'[j] \in {l.access_token, l.lookup_token} \ {None} => j = l.key
  BY <1>4, <1>6 DEF Held
<1> QED BY <1>1, <1>4, <1>5, <1>6, <1>7, CallMoves DEF RenewalOk, CacheInv, TypeOK

\* The rejected token may be in the cache under the key of the call only, and
\* that is what ClearCachedAuth clears.
LEMMA AuthRejectedStep == ASSUME CacheInv, NEW c \in Calls, AuthRejected(c) PROVE CacheInv'
<1>1. /\ call[c] \in Call /\ call[c].pc \in {"account", "read"}
      /\ Key(c) \in Keys /\ Presented(c) \in Held(c) /\ Presented(c) \in Tokens
  BY DEF AuthRejected, Waiting, CacheInv, TypeOK, CallRefs, Key, Call, Held, Presented
<1>2. /\ token_cache' \in [Keys -> Tokens \cup {None}]
      /\ \A k \in Keys : token_cache'[k] = IF k = Key(c) THEN None ELSE token_cache[k]
      /\ rejected' = rejected \cup {Presented(c)}
  BY DEF AuthRejected, ClearCachedAuth, CacheInv, TypeOK
<1>3. CachedOnce'
  BY <1>2 DEF CacheInv, CachedOnce
<1>4. RejectedIsNotCached'
  BY <1>1, <1>2, NoneAssumption DEF CacheInv, TypeOK, RejectedIsNotCached, CachedUnderKey
<1>5. \A d \in Calls, k \in Keys : token_cache'[k] \in Held(d) => k = Key(d)
  BY <1>2, HeldNone DEF CacheInv, CachedUnderKey
<1> DEFINE l == NoCall("failed")
<1>6. /\ call' = [call EXCEPT ![c] = l] /\ l \in Call
      /\ l.access_token = None /\ l.lookup_token = None /\ Whole(l)
  BY NoCallType DEF AuthRejected, Whole, NoCall
<1>7. /\ expired' \subseteq Keys /\ account_cache' \subseteq Keys /\ rejected' \subseteq Tokens
      /\ revoked' \subseteq Tokens /\ outage' \in BOOLEAN
  BY <1>1, <1>2 DEF AuthRejected, ClearCachedAuth, CacheInv, TypeOK
<1> HIDE DEF l
<1> QED BY <1>2, <1>3, <1>4, <1>5, <1>6, <1>7, CallMoves

\* The clock and the cloud change neither the caches nor the calls.
LEMMA QuietStep ==
    ASSUME CacheInv, UNCHANGED <<token_cache, call, account_cache, rejected>>,
           expired' \subseteq Keys, revoked' \subseteq Tokens, outage' \in BOOLEAN
    PROVE  CacheInv'
BY DEF CacheInv, TypeOK, CallRefs, CachedOnce, CachedUnderKey, RejectedIsNotCached, Held, Key

-----------------------------------------------------------------------------
(* The theorems *)

LEMMA CacheInvNext == CacheInv /\ [Next]_vars => CacheInv'
<1> SUFFICES ASSUME CacheInv, [Next]_vars PROVE CacheInv'
  OBVIOUS
<1>1. ASSUME NEW c \in Calls, NEW k \in Keys, StartCached(c, k) \/ StartUncached(c, k)
      PROVE  CacheInv'
  BY <1>1, StartCachedStep, StartUncachedStep
<1>2. ASSUME NEW c \in Calls, CallStep(c) PROVE CacheInv'
  BY <1>2, RetryStep, SleepOverStep, EndStep, TokenOkStep, RenewalOkStep, AccountOkStep,
     AuthRejectedStep DEF CallStep
<1>3. ASSUME NEW k \in Keys, Expire(k) PROVE CacheInv'
  BY <1>3, QuietStep DEF Expire, CacheInv, TypeOK
<1>4. ASSUME NEW t \in Tokens, Revoke(t) PROVE CacheInv'
  BY <1>4, QuietStep DEF Revoke, CacheInv, TypeOK
<1>5. CASE OutageEnds
  BY <1>5, QuietStep DEF OutageEnds, CacheInv, TypeOK
<1>6. CASE UNCHANGED vars
  BY <1>6, QuietStep DEF vars, CacheInv, TypeOK
<1> QED BY <1>1, <1>2, <1>3, <1>4, <1>5, <1>6 DEF Next

LEMMA CacheInvAlways == Spec => []CacheInv
BY InitInv, CacheInvNext, PTL DEF Spec

\* The state of the client stays well typed; in particular no request is
\* attempted more than retry_attempts times (client.py:143).
THEOREM ClientTypeCorrect == Spec => []TypeOK
<1>1. CacheInv => TypeOK
  BY DEF CacheInv
<1> QED BY <1>1, CacheInvAlways, PTL

\* A token that the cloud rejected (client.py:273, 311, 360) is not served from
\* the cache, whatever calls, of whatever credentials, overlap.
THEOREM RejectedStaysOut == Spec => []RejectedIsNotCached
<1>1. CacheInv => RejectedIsNotCached
  BY DEF CacheInv
<1> QED BY <1>1, CacheInvAlways, PTL
=============================================================================
