---------------------------- MODULE GatewayCalls ----------------------------
(***************************************************************************)
(* What a gateway call goes through before and after it has a client:      *)
(* duplicate suppression, the token bucket of its server, the OAuth2 token *)
(* in the headers of the session, and the one retry after a 401.           *)
(*                                                                         *)
(* Source: workers/mcp_client.py: McpGateway.invoke, _invoke_via_gateway,  *)
(* _TokenBucket.acquire, OAuth2CredentialProvider.                         *)
(*                                                                         *)
(* Headers are resolved when a session is started, so a session keeps the  *)
(* token it was started with.  Each start runs on a daemon thread of its   *)
(* own, which goes on when its leader gives up; the rest of the single     *)
(* start is condensed to a leader and joiners, McpGateway has its details. *)
(* The bucket counts in the refill of one tick: a call costs Cost units.   *)
(***************************************************************************)
EXTENDS Integers, FiniteSets, FiniteSetsExt

CONSTANTS Thread,    \* worker threads
          Signature, \* tool, action and parameters of a call
          Dedup,     \* MCP_DEDUP_ENABLED
          Static,    \* GATEWAY_ACCESS_TOKEN is set
          Capacity,  \* of the bucket
          Cost,      \* of a call
          Timeout,   \* of acquire
          MaxSleep,  \* _MAX_SLEEP_SECONDS
          MaxNow,    \* bound: time while nobody sleeps
          MaxCalls,  \* bound: calls
          MaxStarts, \* bound: starts of a client
          MaxToken,  \* bound: tokens the server issues
          Revocable  \* bound: tokens the server may cease to accept

ASSUME CallsAssumption ==
  /\ Dedup \in BOOLEAN /\ Static \in BOOLEAN
  /\ {Capacity, Cost, Timeout, MaxSleep} \subseteq Nat \ {0}
  /\ Cost <= Capacity /\ Signature # {}
  /\ {MaxNow, MaxCalls, MaxStarts, MaxToken} \subseteq Nat

\* Tokens in the order in which they are issued, starts in that of their begin.
\* The static token is not one of the cache.
Token == 1..MaxToken
StaticToken == MaxToken + 1
Bearer == Token \cup {StaticToken}
Start == 1..MaxStarts
None == 0

VARIABLES
  signatures,    \* McpGateway._call_signatures
  now, bucket, refilled,    \* the clock; _tokens and _last_refill
  token, stale,  \* _token; its _expiry has passed or is None
  lock,          \* the start that holds OAuth2CredentialProvider._lock, or None
  issued, revoked,   \* tokens the server has issued, and no longer accepts
  client,        \* the token of the published client's session, or None
  flight,        \* the start under way, or None
  starts,        \* starts begun
  at, header,    \* where the daemon of a start is, and the token of its headers
  pc, sig, hold, \* where a thread is, its call, the token of its session
  retry,         \* _is_retry, FALSE between calls
  deadline, wake,    \* of its acquire
  calls,         \* calls begun
  accepted,      \* how often the server took up its present call
  granted,       \* bucket tokens handed out
  returned,      \* signatures of the calls that returned
  repeat         \* it began after an identical call had returned

limits == <<now, bucket, refilled, granted>>
auth == <<token, stale, lock, issued>>
daemons == <<starts, at, header>>
history == <<sig, calls, returned, repeat>>
threads == <<pc, hold, retry, deadline, wake, accepted, history>>
vars == <<signatures, limits, auth, revoked, client, flight, daemons, pc, hold, retry,
          deadline, wake, accepted, history>>

PC == {"idle", "check", "mark", "acquire", "sleep", "client", "lead", "join", "call",
       "invalidate", "drop"}
StartAt == {"unused", "token", "read", "lock", "post", "store", "open", "up", "failed"}

Init ==
  /\ signatures = {}
  /\ now = 0 /\ bucket = Capacity /\ refilled = 0
  /\ token = None /\ stale = TRUE /\ lock = None
  /\ issued = 0 /\ revoked = {}
  /\ client = None /\ flight = None /\ starts = 0
  /\ at = [n \in Start |-> "unused"] /\ header = [n \in Start |-> None]
  /\ pc = [t \in Thread |-> "idle"]
  /\ sig \in [Thread -> {CHOOSE s \in Signature : TRUE}]
  /\ hold = [t \in Thread |-> None]
  /\ retry = [t \in Thread |-> FALSE]
  /\ deadline = [t \in Thread |-> 0] /\ wake = [t \in Thread |-> 0]
  /\ calls = 0
  /\ accepted = [t \in Thread |-> 0]
  /\ granted = 0 /\ returned = {}
  /\ repeat = [t \in Thread |-> FALSE]

GoTo(t, label) == pc' = [pc EXCEPT ![t] = label]

DaemonTo(n, label) == at' = [at EXCEPT ![n] = label]

\* invoke returns.
Return(t) == GoTo(t, "idle") /\ returned' = returned \cup {sig[t]}

\* A token that get_access_token takes from the cache.
Fresh == token # None /\ ~stale

----------------------------------------------------------------------------
(* Wrong variants of the definitions below; the specification never uses them. *)

\* The refill does not move _last_refill on.
RefilledAtOnce == refilled

\* The slow path does not take the lock.
LockIgnored == TRUE

\* A failed refresh raises before the lock is released.
StoreFailsLocked(n) ==
  /\ at[n] = "store"
  /\ token' = header[n] /\ stale' = (header[n] = None)
  /\ lock' = IF header[n] = None THEN lock ELSE None
  /\ DaemonTo(n, "open")
  /\ UNCHANGED <<signatures, limits, issued, revoked, client, flight, starts, header, threads>>

\* A call that timed out is retried like one that was refused.
CallTimesOutRetried(t) ==
  /\ pc[t] = "call"
  /\ accepted' = [accepted EXCEPT ![t] = IF hold[t] \in revoked THEN @ ELSE @ + 1]
  /\ hold' = [hold EXCEPT ![t] = None]
  /\ retry' = [retry EXCEPT ![t] = ~@]
  /\ GoTo(t, "drop")
  /\ UNCHANGED <<signatures, limits, auth, revoked, client, flight, daemons, deadline, wake,
                 history>>

----------------------------------------------------------------------------
(* McpGateway.invoke up to the transport *)

Invoke(t, s) ==
  /\ pc[t] = "idle" /\ calls < MaxCalls
  /\ calls' = calls + 1
  /\ sig' = [sig EXCEPT ![t] = s]
  /\ repeat' = [repeat EXCEPT ![t] = s \in returned]
  /\ accepted' = [accepted EXCEPT ![t] = 0]
  /\ GoTo(t, IF Dedup THEN "check" ELSE "acquire")
  /\ UNCHANGED <<signatures, limits, auth, revoked, client, flight, daemons, hold, retry,
                 deadline, wake, returned>>

\* An identical call is skipped.
Check(t) ==
  /\ pc[t] = "check"
  /\ \/ sig[t] \in signatures /\ Return(t)
     \/ sig[t] \notin signatures /\ GoTo(t, "mark") /\ UNCHANGED returned
  /\ UNCHANGED <<signatures, limits, auth, revoked, client, flight, daemons, hold, retry, deadline,
                 wake, accepted, sig, calls, repeat>>

\* No lock is held between the test and the addition.
Mark(t) ==
  /\ pc[t] = "mark"
  /\ signatures' = signatures \cup {sig[t]}
  /\ GoTo(t, "acquire")
  /\ UNCHANGED <<limits, auth, revoked, client, flight, daemons, hold, retry, deadline, wake,
                 accepted, history>>

Refilled == Min({Capacity, bucket + (now - refilled)})
RefillTime == now

\* One turn of acquire's loop under the bucket's lock: a turn after a sleep gives
\* up at the deadline; else the bucket is refilled and a token taken, or there is
\* time to sleep for one, or there is not.
TryAcquire(t) ==
  LET first == pc[t] = "acquire"
      until == IF first THEN now + Timeout ELSE deadline[t]
      short == Cost - Refilled
      sleeps == short > 0 /\ now < until /\ now + short <= until
  IN /\ first \/ (pc[t] = "sleep" /\ now >= wake[t])
     /\ \/ /\ ~first /\ now >= until
           /\ Return(t)
           /\ UNCHANGED <<bucket, refilled, granted>>
        \/ /\ first \/ now < until
           /\ refilled' = RefillTime
           /\ bucket' = IF short <= 0 THEN Refilled - Cost ELSE Refilled
           /\ granted' = IF short <= 0 THEN granted + 1 ELSE granted
           /\ \/ short <= 0 /\ GoTo(t, "client") /\ UNCHANGED returned
              \/ sleeps /\ GoTo(t, "sleep") /\ UNCHANGED returned
              \/ short > 0 /\ ~sleeps /\ Return(t)
     /\ deadline' = [deadline EXCEPT ![t] = IF sleeps THEN until ELSE 0]
     /\ wake' = [wake EXCEPT ![t] =
                   IF sleeps THEN now + Min({short, until - now, MaxSleep}) ELSE 0]
     /\ UNCHANGED <<signatures, now, auth, revoked, client, flight, daemons, hold, retry,
                    accepted, sig, calls, repeat>>

----------------------------------------------------------------------------
(* The session *)

\* _get_mcp_client: take the published client, join the flight, or lead one; a
\* client that cannot be created leaves the call with a stub or a failure.
GetClient(t) ==
  /\ pc[t] = "client"
  /\ \/ /\ client # None
        /\ hold' = [hold EXCEPT ![t] = client]
        /\ GoTo(t, "call")
        /\ UNCHANGED <<flight, starts, at, returned>>
     \/ /\ client = None /\ flight # None
        /\ GoTo(t, "join")
        /\ UNCHANGED <<hold, flight, starts, at, returned>>
     \/ /\ client = None /\ flight = None /\ starts < MaxStarts
        /\ starts' = starts + 1
        /\ flight' = starts + 1
        /\ at' = [at EXCEPT ![starts + 1] = "token"]
        /\ GoTo(t, "lead")
        /\ UNCHANGED <<hold, returned>>
     \/ /\ client = None /\ flight = None
        /\ Return(t)
        /\ UNCHANGED <<hold, flight, starts, at>>
  /\ retry' = [retry EXCEPT ![t] = @ /\ pc'[t] # "idle"]
  /\ UNCHANGED <<signatures, limits, auth, revoked, client, header, deadline, wake,
                 accepted, sig, calls, repeat>>

\* The leader and those who joined its flight.
Waiting == {u \in Thread : pc[u] \in {"lead", "join"}}

\* The flight ends for all of them: with its client, or with none when its start
\* failed or is given up; then they return a stub or a failure.
EndFlight(t) ==
  /\ pc[t] = "lead"
  /\ flight' = None
  /\ \/ /\ at[flight] = "up"
        /\ client' = header[flight]
        /\ hold' = [u \in Thread |-> IF u \in Waiting THEN header[flight] ELSE hold[u]]
        /\ pc' = [u \in Thread |-> IF u \in Waiting THEN "call" ELSE pc[u]]
        /\ UNCHANGED returned
     \/ /\ at[flight] # "up"
        /\ pc' = [u \in Thread |-> IF u \in Waiting THEN "idle" ELSE pc[u]]
        /\ returned' = returned \cup {sig[u] : u \in Waiting}
        /\ UNCHANGED <<client, hold>>
  /\ retry' = [u \in Thread |-> retry[u] /\ pc'[u] # "idle"]
  /\ UNCHANGED <<signatures, limits, auth, revoked, daemons, deadline, wake, accepted,
                 sig, calls, repeat>>

----------------------------------------------------------------------------
(* The daemon of a start: get_access_token for the headers, then the session *)

\* The first look, without the lock.
LookToken(n) ==
  /\ at[n] = "token"
  /\ DaemonTo(n, IF Fresh THEN "read" ELSE "lock")
  /\ UNCHANGED <<signatures, limits, auth, revoked, client, flight, starts, header, threads>>

\* return self._token reads the token again: after an invalidate it is None.
ReadToken(n) ==
  /\ at[n] = "read"
  /\ header' = [header EXCEPT ![n] = token]
  /\ DaemonTo(n, "open")
  /\ UNCHANGED <<signatures, limits, auth, revoked, client, flight, starts, threads>>

Unlocked == lock = None

\* What a start does with the lock: it looks again.
Locked == IF Fresh THEN "open" ELSE "post"

LockToken(n) ==
  /\ at[n] = "lock" /\ Unlocked
  /\ DaemonTo(n, Locked)
  /\ header' = [header EXCEPT ![n] = IF Fresh THEN token ELSE None]
  /\ lock' = IF Locked = "post" THEN n ELSE lock
  /\ UNCHANGED <<signatures, limits, token, stale, issued, revoked, client, flight, starts,
                 threads>>

\* The token endpoint issues a token, or does not.
PostRefresh(n) ==
  /\ at[n] = "post"
  /\ \/ /\ issued < MaxToken
        /\ issued' = issued + 1
        /\ header' = [header EXCEPT ![n] = issued + 1]
     \/ header' = [header EXCEPT ![n] = None] /\ UNCHANGED issued
  /\ DaemonTo(n, "store")
  /\ UNCHANGED <<signatures, limits, token, stale, lock, revoked, client, flight, starts,
                 threads>>

\* _refresh stores what it was given and the lock is released.
StoreToken(n) ==
  /\ at[n] = "store"
  /\ token' = header[n] /\ stale' = (header[n] = None)
  /\ lock' = None
  /\ DaemonTo(n, "open")
  /\ UNCHANGED <<signatures, limits, issued, revoked, client, flight, starts, header, threads>>

\* _get_auth_headers: without a token of the cache the static one is used.
Authorization(n) == IF header[n] = None /\ Static THEN StaticToken ELSE header[n]

\* The session opens if the server accepts its token and nothing else fails.
OpenSession(n) ==
  /\ at[n] = "open"
  /\ header' = [header EXCEPT ![n] = Authorization(n)]
  /\ \/ Authorization(n) \notin revoked \cup {None} /\ DaemonTo(n, "up")
     \/ DaemonTo(n, "failed")
  /\ UNCHANGED <<signatures, limits, auth, revoked, client, flight, starts, threads>>

----------------------------------------------------------------------------
(* The call, and the retry after a 401 *)

\* The thread is done with its session.
LetGo(t) == hold' = [hold EXCEPT ![t] = None]

\* The server takes the call up and answers.
CallReturns(t) ==
  /\ pc[t] = "call" /\ hold[t] \notin revoked
  /\ accepted' = [accepted EXCEPT ![t] = @ + 1]
  /\ LetGo(t)
  /\ retry' = [retry EXCEPT ![t] = FALSE]
  /\ Return(t)
  /\ UNCHANGED <<signatures, limits, auth, revoked, client, flight, daemons, deadline, wake,
                 sig, calls, repeat>>

\* A 401 is retried once.
CallRefused(t) ==
  /\ pc[t] = "call" /\ hold[t] \in revoked
  /\ LetGo(t)
  /\ retry' = [retry EXCEPT ![t] = ~@]
  /\ IF retry[t] THEN Return(t) ELSE GoTo(t, "invalidate") /\ UNCHANGED returned
  /\ UNCHANGED <<signatures, limits, auth, revoked, client, flight, daemons, deadline, wake,
                 accepted, sig, calls, repeat>>

\* No answer comes in time; the server may have taken the call up.
CallTimesOut(t) ==
  /\ pc[t] = "call"
  /\ accepted' = [accepted EXCEPT ![t] = IF hold[t] \in revoked THEN @ ELSE @ + 1]
  /\ LetGo(t)
  /\ retry' = [retry EXCEPT ![t] = FALSE]
  /\ GoTo(t, "drop")
  /\ UNCHANGED <<signatures, limits, auth, revoked, client, flight, daemons, deadline, wake,
                 history>>

\* invalidate, which has to wait for a refresh under way.
Invalidate(t) ==
  /\ pc[t] = "invalidate" /\ lock = None
  /\ token' = None /\ stale' = TRUE
  /\ GoTo(t, "drop")
  /\ UNCHANGED <<signatures, limits, lock, issued, revoked, client, flight, daemons, hold, retry,
                 deadline, wake, accepted, history>>

\* The published client is forgotten, whosever it is; then the retry, or the end.
Drop(t) ==
  /\ pc[t] = "drop"
  /\ client' = None
  /\ IF retry[t] THEN GoTo(t, "client") /\ UNCHANGED returned ELSE Return(t)
  /\ UNCHANGED <<signatures, limits, auth, revoked, flight, daemons, hold, retry, deadline, wake,
                 accepted, sig, calls, repeat>>

----------------------------------------------------------------------------
(* Time and the authorisation server *)

Sleeping == \E t \in Thread : pc[t] = "sleep" /\ now < wake[t]

Tick ==
  /\ now < MaxNow \/ Sleeping
  /\ now' = now + 1
  /\ UNCHANGED <<signatures, bucket, refilled, granted, auth, revoked, client, flight, daemons, pc,
                 hold, retry, deadline, wake, accepted, history>>

Expire ==
  /\ Fresh
  /\ stale' = TRUE
  /\ UNCHANGED <<signatures, limits, token, lock, issued, revoked, client, flight, daemons, pc,
                 hold, retry, deadline, wake, accepted, history>>

Revoke(k) ==
  /\ k \in (1..issued \cup {StaticToken}) \ revoked /\ k \in Revocable
  /\ revoked' = revoked \cup {k}
  /\ UNCHANGED <<signatures, limits, auth, client, flight, daemons, pc, hold, retry, deadline, wake,
                 accepted, history>>

Step(t) ==
  \/ Check(t) \/ Mark(t) \/ TryAcquire(t)
  \/ GetClient(t) \/ EndFlight(t)
  \/ CallReturns(t) \/ CallRefused(t) \/ CallTimesOut(t) \/ Invalidate(t) \/ Drop(t)

DaemonStep(n) ==
  \/ LookToken(n) \/ ReadToken(n) \/ LockToken(n) \/ PostRefresh(n) \/ StoreToken(n)
  \/ OpenSession(n)

Next ==
  \/ \E t \in Thread : (\E s \in Signature : Invoke(t, s)) \/ Step(t)
  \/ \E n \in Start : DaemonStep(n)
  \/ Tick \/ Expire
  \/ \E k \in Bearer : Revoke(k)

Spec == Init /\ [][Next]_vars

\* Threads run, requests and calls end by their timeouts, and time passes while
\* somebody sleeps.
FairSpec ==
  /\ Spec /\ WF_vars(Tick)
  /\ \A t \in Thread : WF_vars(Step(t))
  /\ \A n \in Start : WF_vars(DaemonStep(n))

----------------------------------------------------------------------------
(* Safety *)

\* Every variable stays in its domain; the bucket holds no more than it can.
TypeOK ==
  /\ signatures \subseteq Signature /\ returned \subseteq Signature
  /\ now \in Nat /\ refilled \in 0..now
  /\ bucket \in 0..Capacity /\ granted \in Nat
  /\ token \in Token \cup {None} /\ stale \in BOOLEAN
  /\ {lock, flight} \subseteq Start \cup {None} /\ starts \in 0..MaxStarts
  /\ at \in [Start -> StartAt] /\ header \in [Start -> Bearer \cup {None}]
  /\ issued \in 0..MaxToken /\ revoked \subseteq 1..issued \cup {StaticToken}
  /\ client \in Bearer \cup {None}
  /\ pc \in [Thread -> PC] /\ sig \in [Thread -> Signature]
  /\ hold \in [Thread -> Bearer \cup {None}]
  /\ retry \in [Thread -> BOOLEAN] /\ repeat \in [Thread -> BOOLEAN]
  /\ deadline \in [Thread -> Nat] /\ wake \in [Thread -> Nat]
  /\ calls \in 0..MaxCalls /\ accepted \in [Thread -> Nat]

\* The rate limit: whatever the threads do while they sleep for a token, no more
\* calls pass than the bucket held at first and was refilled with since.
RateHolds == granted * Cost <= Capacity + now

\* A call is taken up by the server at most once, with the retry after a 401: what
\* timed out is not repeated.
AcceptedAtMostOnce == \A t \in Thread : accepted[t] <= 1

\* The token in the cache is the newest that was issued and handed over: a slow
\* refresh never puts an older token in the place of a newer one.
NewestTokenCached ==
  token # None => token = issued \/ (lock # None /\ at[lock] = "store")

\* With duplicate suppression a call that begins after an identical call has
\* returned does not reach the server, also when the first one failed.
RepeatIsSkipped == Dedup => \A t \in Thread : repeat[t] => accepted[t] = 0

\* The server sees a call once, with the retry after a 401 and, with duplicate
\* suppression, with its repetitions.
CallsNotRepeated == AcceptedAtMostOnce /\ RepeatIsSkipped

\* "Late arrivals recheck after acquiring the lock and reuse the freshly-refreshed
\* token": no token is asked for while a fresh one is in the cache.
NoNeedlessRefresh == [][issued' # issued => ~Fresh]_vars

\* One token serves all threads: the newest one is kept, and none is asked for
\* while it is fresh.
TokenIsShared ==
  [][/\ NewestTokenCached'
     /\ issued' # issued => ~Fresh]_vars

----------------------------------------------------------------------------
(* Liveness, under FairSpec *)

\* Every call returns, whatever it waits for: a bucket token, another thread's
\* start, the lock of the token cache, or the server.
CallsEnd == \A t \in Thread : (pc[t] # "idle") ~> (pc[t] = "idle")
=============================================================================
