----------------------------- MODULE CloudClient -----------------------------
(***************************************************************************)
(* AirthingsCloudClient, cloud/client.py: the token and account caches     *)
(* that concurrent calls share, and the bounded retries of each HTTP       *)
(* request.                                                                *)
(*                                                                         *)
(* A call is one run of list_devices or latest_sample, which differ only   *)
(* in the last request they make.  The code suspends at its requests only, *)
(* and at the sleep between two attempts; a call is at one of them:        *)
(*                                                                         *)
(*   "token"    POST /v1/token, in _access_token                           *)
(*   "renewal"  the same POST, for the second _access_token of the call,   *)
(*              the one in _account_id                                     *)
(*   "account"  GET /v1/accounts, in _account_id                           *)
(*   "read"     GET .../devices or .../sensors                             *)
(***************************************************************************)
EXTENDS Naturals

CONSTANTS
    Calls,          \* concurrent calls
    Keys,           \* credentials, by their cache_key
    Tokens,         \* access tokens; one that nobody holds may be issued anew
    RetryAttempts,  \* retry_attempts
    None

ASSUME RetryAssumption == RetryAttempts \in Nat \ {0}

ASSUME NoneAssumption == None \notin Tokens \cup Keys

VARIABLES
    token_cache,    \* _token_cache: key -> access token
    expired,        \* keys whose cached token is past its expires_at
    account_cache,  \* keys of _account_cache
    call,           \* the locals of each call
    revoked,        \* tokens the cloud no longer accepts
    rejected,       \* history: tokens that drew a 401 or 403
    outage          \* the cloud, the network or the tokens may still fail

vars == <<token_cache, expired, account_cache, call, revoked, rejected, outage>>

Requesting == {"token", "renewal", "account", "read"}

Call == [pc: {"idle"} \cup Requesting,
         key: Keys \cup {None},
         access_token: Tokens \cup {None},   \* for the last request
         lookup_token: Tokens \cup {None},   \* for the account request
         attempt: 1..RetryAttempts,
         sleeping: BOOLEAN,                  \* between two attempts
         result: {"none", "ok", "failed"}]   \* of the last call that ended

TypeOK ==
    /\ token_cache \in [Keys -> Tokens \cup {None}]
    /\ expired \subseteq Keys
    /\ account_cache \subseteq Keys
    /\ call \in [Calls -> Call]
    /\ revoked \subseteq Tokens
    /\ rejected \subseteq Tokens
    /\ outage \in BOOLEAN

NoCall(result) ==
    [pc |-> "idle", key |-> None, access_token |-> None, lookup_token |-> None,
     attempt |-> 1, sleeping |-> FALSE, result |-> result]

Init ==
    /\ token_cache = [k \in Keys |-> None]
    /\ expired = {}
    /\ account_cache = {}
    /\ call = [c \in Calls |-> NoCall("none")]
    /\ revoked = {}
    /\ rejected = {}
    /\ outage = TRUE

-----------------------------------------------------------------------------
(* One HTTP request: _request *)

Key(c) == call[c].key

\* The call c waits for the answer to its request.
Waiting(c) == call[c].pc \in Requesting /\ ~call[c].sleeping

\* The call c goes on to another request, its first attempt.
Request(locals, pc) == [locals EXCEPT !.pc = pc, !.attempt = 1]

\* Mutant: the last attempt is followed by another.
RetryOnceMore(c) ==
    /\ Waiting(c)
    /\ outage
    /\ call[c].attempt <= RetryAttempts
    /\ call' = [call EXCEPT ![c].sleeping = TRUE]
    /\ UNCHANGED <<token_cache, expired, account_cache, revoked, rejected, outage>>

\* A 429, a 5xx or a network error before the last attempt: sleep, try again.
Retry(c) ==
    /\ Waiting(c)
    /\ outage
    /\ call[c].attempt < RetryAttempts
    /\ call' = [call EXCEPT ![c].sleeping = TRUE]
    /\ UNCHANGED <<token_cache, expired, account_cache, revoked, rejected, outage>>

\* Mutant: the attempt is not counted.
SleepOverUncounted(c) ==
    /\ call[c].sleeping
    /\ call' = [call EXCEPT ![c].sleeping = FALSE]
    /\ UNCHANGED <<token_cache, expired, account_cache, revoked, rejected, outage>>

SleepOver(c) ==
    /\ call[c].sleeping
    /\ call' = [call EXCEPT ![c] = [@ EXCEPT !.sleeping = FALSE,
                                            !.attempt = call[c].attempt + 1]]
    /\ UNCHANGED <<token_cache, expired, account_cache, revoked, rejected, outage>>

\* The request ends the call with an error that clears nothing: the attempts
\* are used up, the status is another error, the credentials are rejected by
\* the token endpoint, the payload is unusable, or Retry-After is no number.
Fails(c) ==
    /\ Waiting(c)
    /\ outage
    /\ call' = [call EXCEPT ![c] = NoCall("failed")]
    /\ UNCHANGED <<token_cache, expired, account_cache, revoked, rejected, outage>>

-----------------------------------------------------------------------------
(* _access_token and _account_id *)

\* A cached token that is not past its expires_at.
Usable(k) == token_cache[k] # None /\ k \notin expired

\* The token t is of no call and in no cache: the cloud may issue it.
Fresh(t) ==
    /\ \A k \in Keys : token_cache[k] # t
    /\ \A c \in Calls : call[c].access_token # t /\ call[c].lookup_token # t

\* _account_id, once _access_token has returned t, which is cached.  A cached
\* account id needs no request.  Otherwise _access_token is called again and
\* finds t in the cache, unless the clock reached its expires_at in between.
\* stale is the set of the keys expired by the time t was returned.
Proceed(c, k, t, stale) ==
    LET locals == [call[c] EXCEPT !.key = k, !.access_token = t, !.result = "none"]
    IN  \/ /\ k \in account_cache
           /\ call' = [call EXCEPT ![c] = Request(locals, "read")]
           /\ expired' = stale
        \/ /\ k \notin account_cache
           /\ call' = [call EXCEPT ![c] = Request([locals EXCEPT !.lookup_token = t], "account")]
           /\ expired' = stale
        \/ /\ k \notin account_cache
           /\ call' = [call EXCEPT ![c] = Request(locals, "renewal")]
           /\ expired' = stale \cup {k}

\* A call starts with a usable token in the cache.
StartCached(c, k) ==
    /\ call[c].pc = "idle"
    /\ Usable(k)
    /\ Proceed(c, k, token_cache[k], expired)
    /\ UNCHANGED <<token_cache, account_cache, revoked, rejected, outage>>

\* A call starts with none, and asks for one.
StartUncached(c, k) ==
    /\ call[c].pc = "idle"
    /\ ~Usable(k)
    /\ call' = [call EXCEPT ![c] = [Request(@, "token") EXCEPT !.key = k, !.result = "none"]]
    /\ UNCHANGED <<token_cache, expired, account_cache, revoked, rejected, outage>>

\* The cloud issues the token t and _access_token caches it, over whatever
\* another call has cached meanwhile.
Issue(k, t) ==
    /\ Fresh(t)
    /\ token_cache' = [token_cache EXCEPT ![k] = t]
    /\ revoked' = revoked \ {t}
    /\ rejected' = rejected \ {t}

TokenOk(c, t) ==
    /\ Waiting(c) /\ call[c].pc = "token"
    /\ Issue(Key(c), t)
    /\ Proceed(c, Key(c), t, expired \ {Key(c)})
    /\ UNCHANGED <<account_cache, outage>>

RenewalOk(c, t) ==
    /\ Waiting(c) /\ call[c].pc = "renewal"
    /\ Issue(Key(c), t)
    /\ call' = [call EXCEPT ![c] = Request([@ EXCEPT !.lookup_token = t], "account")]
    /\ expired' = expired \ {Key(c)}
    /\ UNCHANGED <<account_cache, outage>>

AccountOk(c) ==
    /\ Waiting(c) /\ call[c].pc = "account"
    /\ call[c].lookup_token \notin revoked
    /\ account_cache' = account_cache \cup {Key(c)}
    /\ call' = [call EXCEPT ![c] = Request(@, "read")]
    /\ UNCHANGED <<token_cache, expired, revoked, rejected, outage>>

ReadOk(c) ==
    /\ Waiting(c) /\ call[c].pc = "read"
    /\ call[c].access_token \notin revoked
    /\ call' = [call EXCEPT ![c] = NoCall("ok")]
    /\ UNCHANGED <<token_cache, expired, account_cache, revoked, rejected, outage>>

-----------------------------------------------------------------------------
(* A 401 or 403 *)

\* The token of the request under way.
Presented(c) == IF call[c].pc = "account" THEN call[c].lookup_token ELSE call[c].access_token

\* Mutant: only the account is dropped.
ClearAccountOnly(k) ==
    /\ account_cache' = account_cache \ {k}
    /\ UNCHANGED <<token_cache, expired>>

\* _clear_cached_auth: both caches, whichever token the first one holds.
ClearCachedAuth(k) ==
    /\ token_cache' = [token_cache EXCEPT ![k] = None]
    /\ expired' = expired \ {k}
    /\ account_cache' = account_cache \ {k}

\* The cloud rejects a revoked token, or in an outage any token it likes.
AuthRejected(c) ==
    /\ Waiting(c) /\ call[c].pc \in {"account", "read"}
    /\ outage \/ Presented(c) \in revoked
    /\ ClearCachedAuth(Key(c))
    /\ rejected' = rejected \cup {Presented(c)}
    /\ call' = [call EXCEPT ![c] = NoCall("failed")]
    /\ UNCHANGED <<revoked, outage>>

-----------------------------------------------------------------------------
(* The clock and the cloud *)

\* expires_at passes.
Expire(k) ==
    /\ token_cache[k] # None
    /\ k \notin expired
    /\ expired' = expired \cup {k}
    /\ UNCHANGED <<token_cache, account_cache, call, revoked, rejected, outage>>

\* The cloud stops accepting a token, at its own expiry or before it.
Revoke(t) ==
    /\ outage
    /\ ~Fresh(t)
    /\ t \notin revoked
    /\ revoked' = revoked \cup {t}
    /\ UNCHANGED <<token_cache, expired, account_cache, call, rejected, outage>>

OutageEnds ==
    /\ outage
    /\ outage' = FALSE
    /\ UNCHANGED <<token_cache, expired, account_cache, call, revoked, rejected>>

\* The answer to the request of the call c, or the end of its sleep.
CallStep(c) ==
    \/ Retry(c)
    \/ SleepOver(c)
    \/ Fails(c)
    \/ \E t \in Tokens : TokenOk(c, t) \/ RenewalOk(c, t)
    \/ AccountOk(c)
    \/ ReadOk(c)
    \/ AuthRejected(c)

Next ==
    \/ \E c \in Calls, k \in Keys : StartCached(c, k) \/ StartUncached(c, k)
    \/ \E c \in Calls : CallStep(c)
    \/ \E k \in Keys : Expire(k)
    \/ \E t \in Tokens : Revoke(t)
    \/ OutageEnds

Spec == Init /\ [][Next]_vars

\* Each request is answered or times out, and each sleep ends.  The cloud need
\* not get better.
FairSpec ==
    /\ Spec
    /\ \A c \in Calls : WF_vars(CallStep(c))

-----------------------------------------------------------------------------
(* Properties *)

\* A token that drew a 401 or 403 is not in the cache, in whatever order the
\* calls that share it were issued tokens, were rejected and cleared the cache:
\* a call that starts after a rejection never presents the rejected token.
RejectedIsNotCached == \A k \in Keys : token_cache[k] \notin rejected

\* Every call ends, also when the cloud never answers as it should: the attempts
\* of each of its requests are bounded (147-203).
CallsEnd == \A c \in Calls : []<>(call[c].pc = "idle")

\* If the cloud ever behaves, the calls stop failing: what the outage left in the
\* caches, in tokens captured before an await and in calls under way costs each
\* of them some failures, and late rejections that clear a newer token (257-260)
\* cost requests, but neither goes on for ever.
Recovers ==
    <>~outage =>
        <>[][\A c \in Calls : call[c].result = "none" => call'[c].result # "failed"]_vars
=============================================================================
