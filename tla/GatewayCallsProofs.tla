------------------------- MODULE GatewayCallsProofs -------------------------
(***************************************************************************)
(* Proofs about gateway calls, for any threads, starts, tokens, and any    *)
(* capacity, cost and timeout of the bucket.                               *)
(***************************************************************************)
EXTENDS GatewayCalls, TLAPS

\* The bucket: what was handed out and what is left never exceed what it held at
\* first and was refilled with.
LimitInv ==
  /\ now \in Nat /\ refilled \in 0..now
  /\ bucket \in 0..Capacity /\ granted \in Nat
  /\ granted * Cost + bucket <= Capacity + refilled

AuthTypes ==
  /\ token \in Token \cup {None} /\ stale \in BOOLEAN
  /\ lock \in Start \cup {None} /\ starts \in 0..MaxStarts
  /\ at \in [Start -> StartAt] /\ header \in [Start -> Bearer \cup {None}]
  /\ issued \in 0..MaxToken /\ revoked \subseteq 1..issued \cup {StaticToken}

\* The start that refreshes holds the lock, and with it the newest token; while it
\* asks for one, none is fresh.  The static token never comes to the cache.
AuthInv ==
  /\ \A n \in Start : n > starts => at[n] = "unused"
  /\ \A n \in Start : at[n] \in {"post", "store"} <=> lock = n
  /\ \A n \in Start : at[n] = "store" /\ header[n] # None => header[n] = issued
  /\ \A n \in Start : at[n] = "post" => ~Fresh
  /\ \A n \in Start : header[n] = StaticToken => at[n] \in {"up", "failed"}
  /\ NewestTokenCached

ThreadTypes ==
  /\ pc \in [Thread -> PC] /\ sig \in [Thread -> Signature]
  /\ hold \in [Thread -> Bearer \cup {None}]
  /\ retry \in [Thread -> BOOLEAN] /\ repeat \in [Thread -> BOOLEAN]
  /\ deadline \in [Thread -> Nat] /\ wake \in [Thread -> Nat]
  /\ calls \in 0..MaxCalls /\ accepted \in [Thread -> Nat]
  /\ signatures \subseteq Signature /\ returned \subseteq Signature
  /\ client \in Bearer \cup {None} /\ flight \in Start \cup {None}

\* Nobody waits for a flight that is over.
WaitersHaveFlight == flight = None => Waiting = {}

\* With duplicate suppression a call past the mark is in the set, one that has
\* returned too, and a repetition gets no further than the test.
DedupInv ==
  Dedup =>
    /\ returned \subseteq signatures
    /\ \A t \in Thread : pc[t] \notin {"idle", "check", "mark"} => sig[t] \in signatures
    /\ \A t \in Thread : repeat[t] => /\ pc[t] \in {"idle", "check"}
                                      /\ sig[t] \in signatures /\ accepted[t] = 0

\* A call that may still reach the server was not taken up.
AcceptedInv ==
  \A t \in Thread :
    /\ accepted[t] <= 1
    /\ pc[t] \notin {"idle", "drop"} \/ (pc[t] = "drop" /\ retry[t]) => accepted[t] = 0

IInv == /\ LimitInv /\ AuthTypes /\ AuthInv /\ ThreadTypes /\ WaitersHaveFlight
        /\ DedupInv /\ AcceptedInv

----------------------------------------------------------------------------
\* What the assumption says of the constants.
LEMMA Constants ==
  /\ Dedup \in BOOLEAN /\ Capacity \in Nat /\ Cost \in Nat /\ Timeout \in Nat /\ MaxSleep \in Nat
  /\ Cost > 0 /\ Cost <= Capacity /\ Signature # {}
  /\ MaxNow \in Nat /\ MaxCalls \in Nat /\ MaxStarts \in Nat /\ MaxToken \in Nat
  /\ None \notin Token /\ None \notin Start /\ Token \subseteq Nat /\ Start \subseteq Nat
  /\ StaticToken \notin Token \cup {None} /\ Token \subseteq Bearer /\ StaticToken \in Bearer
BY CallsAssumption DEF None, Token, Start, StaticToken, Bearer

\* The minimum of two or three integers.
LEMMA MinOfTwo ==
  ASSUME NEW a \in Int, NEW b \in Int
  PROVE  Min({a, b}) \in {a, b} /\ Min({a, b}) <= a /\ Min({a, b}) <= b
<1>1. \E x \in {a, b} : \A y \in {a, b} : x <= y
  <2>1. CASE a <= b
    BY <2>1
  <2>2. CASE b <= a
    BY <2>2
  <2> QED
    BY <2>1, <2>2
<1> QED
  BY <1>1 DEF Min

LEMMA MinOfThree ==
  ASSUME NEW a \in Nat, NEW b \in Nat, NEW c \in Nat
  PROVE  Min({a, b, c}) \in Nat
<1>1. \E x \in {a, b, c} : \A y \in {a, b, c} : x <= y
  <2>1. CASE a <= b /\ a <= c
    BY <2>1
  <2>2. CASE b <= a /\ b <= c
    BY <2>2
  <2>3. CASE c <= a /\ c <= b
    BY <2>3
  <2> QED
    BY <2>1, <2>2, <2>3
<1> QED
  BY <1>1 DEF Min

\* A refill fills the bucket at most to its capacity, and with no more than the
\* time that has passed.
LEMMA RefillBounds ==
  ASSUME LimitInv
  PROVE  /\ Refilled \in Nat /\ Refilled <= Capacity
         /\ Refilled <= bucket + (now - refilled)
<1> DEFINE a == Capacity
           b == bucket + (now - refilled)
<1>1. a \in Nat /\ b \in Nat
  BY Constants DEF LimitInv
<1>2. Refilled = Min({a, b})
  BY DEF Refilled
<1> HIDE DEF a, b
<1>3. Refilled \in {a, b} /\ Refilled <= a /\ Refilled <= b
  BY <1>1, <1>2, MinOfTwo
<1> QED
  BY <1>1, <1>3 DEF a, b

\* The initial state satisfies the invariant.
LEMMA Initially == Init => IInv
<1> SUFFICES ASSUME Init PROVE IInv
  OBVIOUS
<1>1. LimitInv
  <2>1. granted * Cost = 0
    BY Constants DEF Init
  <2> QED
    BY <2>1, Constants DEF Init, LimitInv
<1>2. AuthTypes
  BY Constants DEF Init, AuthTypes, StartAt
<1>3. AuthInv
  BY Constants DEF Init, AuthInv, NewestTokenCached
<1>4. ThreadTypes
  <2>1. sig \in [Thread -> Signature]
    BY Constants DEF Init
  <2>2. calls \in 0..MaxCalls
    BY Constants DEF Init
  <2> QED
    BY <2>1, <2>2 DEF Init, ThreadTypes, PC
<1>5. WaitersHaveFlight
  BY DEF Init, WaitersHaveFlight, Waiting
<1>6. DedupInv
  BY DEF Init, DedupInv
<1>7. AcceptedInv
  BY DEF Init, AcceptedInv
<1> QED
  BY <1>1, <1>2, <1>3, <1>4, <1>5, <1>6, <1>7 DEF IInv

----------------------------------------------------------------------------
(* The bucket *)

LEMMA LimitSteps ==
  ASSUME LimitInv, [Next]_vars
  PROVE  LimitInv'
<1>1. CASE \E t \in Thread : TryAcquire(t)
  <2>1. PICK t \in Thread : TryAcquire(t)
    BY <1>1
  <2>2. UNCHANGED now
    BY <2>1 DEF TryAcquire
  <2>3. \/ UNCHANGED <<bucket, refilled, granted>>
        \/ refilled' = now /\ bucket' = Refilled /\ granted' = granted
        \/ /\ refilled' = now /\ Refilled >= Cost
           /\ bucket' = Refilled - Cost /\ granted' = granted + 1
    BY <2>1, RefillBounds, Constants DEF TryAcquire, RefillTime
  <2>4. granted * Cost \in Nat /\ (granted + 1) * Cost = granted * Cost + Cost
    BY Constants DEF LimitInv
  <2> DEFINE g == granted * Cost
  <2>5. CASE UNCHANGED <<bucket, refilled, granted>>
    BY <2>2, <2>5 DEF LimitInv
  <2>6. CASE refilled' = now /\ bucket' = Refilled /\ granted' = granted
    BY <2>2, <2>4, <2>6, RefillBounds, Constants DEF LimitInv
  <2>7. CASE /\ refilled' = now /\ Refilled >= Cost
             /\ bucket' = Refilled - Cost /\ granted' = granted + 1
    <3>1. granted' * Cost = g + Cost /\ g \in Nat /\ g + bucket <= Capacity + refilled
      BY <2>4, <2>7 DEF LimitInv
    <3> HIDE DEF g
    <3>2. granted' * Cost + bucket' <= Capacity + refilled'
      BY <2>7, <3>1, RefillBounds, Constants DEF LimitInv
    <3> QED
      BY <2>2, <2>7, <3>2, RefillBounds, Constants DEF LimitInv
  <2> QED
    BY <2>3, <2>5, <2>6, <2>7
<1>2. CASE Tick
  BY <1>2 DEF LimitInv, Tick
<1>3. CASE UNCHANGED limits
  BY <1>3 DEF LimitInv, limits
<1> QED
  BY <1>1, <1>2, <1>3 DEF Next, Step, DaemonStep, Invoke, Check, Mark, GetClient, EndFlight,
       CallReturns, CallRefused, CallTimesOut, Invalidate, Drop, LookToken, ReadToken, LockToken,
       PostRefresh, StoreToken, OpenSession, Expire, Revoke, vars

----------------------------------------------------------------------------
(* Tokens and the lock of their cache *)

\* A start begins.
LEMMA LeadSteps ==
  ASSUME AuthTypes, AuthInv, NEW t \in Thread, GetClient(t)
  PROVE  AuthTypes' /\ AuthInv'
<1>1. CASE UNCHANGED <<starts, at>>
  BY <1>1 DEF GetClient, auth, AuthTypes, AuthInv, NewestTokenCached, Fresh
<1>2. CASE starts < MaxStarts /\ starts' = starts + 1 /\ at' = [at EXCEPT ![starts + 1] = "token"]
  <2>1. starts + 1 \in Start /\ at[starts + 1] = "unused"
    BY <1>2, Constants DEF AuthTypes, AuthInv, Start
  <2>2. UNCHANGED <<token, stale, lock, issued, revoked, header>>
    BY DEF GetClient, auth
  <2>3. AuthTypes'
    BY <1>2, <2>1, <2>2, Constants DEF AuthTypes, StartAt
  <2>4. AuthInv'
    BY <1>2, <2>1, <2>2, Constants DEF AuthTypes, AuthInv, NewestTokenCached, Fresh
  <2> QED
    BY <2>3, <2>4
<1> QED
  BY <1>1, <1>2 DEF GetClient

\* A start gets its token.
LEMMA TokenSteps ==
  ASSUME AuthTypes, AuthInv, NEW n \in Start, DaemonStep(n)
  PROVE  AuthTypes' /\ AuthInv'
<1>1. UNCHANGED <<starts, revoked>>
  BY DEF DaemonStep, LookToken, ReadToken, LockToken, PostRefresh, StoreToken, OpenSession
<1>2. AuthTypes'
  <2>1. CASE LookToken(n) \/ ReadToken(n) \/ OpenSession(n)
    BY <2>1, Constants
       DEF LookToken, ReadToken, OpenSession, Authorization, DaemonTo, AuthTypes, StartAt, auth
  <2>2. CASE LockToken(n)
    BY <2>2, Constants DEF LockToken, Locked, DaemonTo, AuthTypes, StartAt
  <2>3. CASE PostRefresh(n)
    BY <2>3, Constants DEF PostRefresh, DaemonTo, AuthTypes, StartAt, Token
  <2>4. CASE StoreToken(n)
    <3>1. header[n] \in Token \cup {None}
      BY <2>4, Constants DEF StoreToken, AuthTypes, AuthInv, Bearer
    <3> QED
      BY <2>4, <3>1 DEF StoreToken, DaemonTo, AuthTypes, StartAt
  <2> QED
    BY <2>1, <2>2, <2>3, <2>4 DEF DaemonStep
<1>3. AuthInv'
  <2>1. CASE LookToken(n) \/ ReadToken(n) \/ OpenSession(n)
    BY <1>1, <2>1, Constants DEF LookToken, ReadToken, OpenSession, Authorization, DaemonTo, AuthTypes, AuthInv,
         NewestTokenCached, Fresh, auth
  <2>2. CASE LockToken(n)
    BY <1>1, <2>2, Constants DEF LockToken, Locked, Unlocked, DaemonTo, AuthTypes, AuthInv,
         NewestTokenCached, Fresh
  <2>3. CASE PostRefresh(n)
    <3>1. header'[n] # StaticToken
      BY <2>3, Constants DEF PostRefresh, AuthTypes, StaticToken, None
    <3> QED
      BY <1>1, <2>3, <3>1, Constants
         DEF PostRefresh, DaemonTo, AuthTypes, AuthInv, NewestTokenCached, Fresh
  <2>4. CASE StoreToken(n)
    BY <1>1, <2>4, Constants DEF StoreToken, DaemonTo, AuthTypes, AuthInv, NewestTokenCached, Fresh
  <2> QED
    BY <2>1, <2>2, <2>3, <2>4 DEF DaemonStep
<1> QED
  BY <1>2, <1>3

\* No other step stores a token or has the lock.
LEMMA AuthSteps ==
  ASSUME AuthTypes, AuthInv, [Next]_vars
  PROVE  AuthTypes' /\ AuthInv'
<1>1. CASE \E t \in Thread : GetClient(t)
  BY <1>1, LeadSteps
<1>2. CASE \E n \in Start : DaemonStep(n)
  BY <1>2, TokenSteps
<1>3. CASE Expire \/ \E t \in Thread : Invalidate(t)
  <2>1. UNCHANGED <<lock, issued, revoked, daemons>> /\ token' \in {token, None} /\ stale' = TRUE
    BY <1>3 DEF Expire, Invalidate, daemons
  <2> QED
    BY <2>1 DEF AuthTypes, AuthInv, NewestTokenCached, Fresh, daemons
<1>4. CASE \E k \in Bearer : Revoke(k)
  <2>1. UNCHANGED <<auth, daemons>> /\ revoked' \subseteq 1..issued \cup {StaticToken}
    BY <1>4 DEF Revoke, AuthTypes
  <2> QED
    BY <2>1 DEF AuthTypes, AuthInv, NewestTokenCached, Fresh, auth, daemons
<1>5. CASE UNCHANGED <<auth, revoked, daemons>>
  BY <1>5 DEF AuthTypes, AuthInv, NewestTokenCached, Fresh, auth, daemons
<1> QED
  BY <1>1, <1>2, <1>3, <1>4, <1>5 DEF Next, Step, Invoke, Check, Mark, TryAcquire, EndFlight,
       CallReturns, CallRefused, CallTimesOut, Drop, Tick, vars

----------------------------------------------------------------------------
(* Calls *)

\* A call begins, looks for its signature, or is marked.
LEMMA MarkSteps ==
  ASSUME IInv, NEW t \in Thread,
         (\E s \in Signature : Invoke(t, s)) \/ Check(t) \/ Mark(t)
  PROVE  ThreadTypes' /\ WaitersHaveFlight' /\ DedupInv' /\ AcceptedInv'
<1>1. CASE \E s \in Signature : Invoke(t, s)
  <2>1. PICK s \in Signature : Invoke(t, s)
    BY <1>1
  <2>2. ThreadTypes'
    BY <2>1, Constants DEF IInv, ThreadTypes, Invoke, GoTo, PC
  <2>3. WaitersHaveFlight'
    BY <2>1 DEF IInv, ThreadTypes, WaitersHaveFlight, Waiting, Invoke, GoTo
  <2>4. DedupInv'
    BY <2>1 DEF IInv, ThreadTypes, DedupInv, Invoke, GoTo
  <2>5. AcceptedInv'
    BY <2>1 DEF IInv, ThreadTypes, AcceptedInv, Invoke, GoTo
  <2> QED
    BY <2>2, <2>3, <2>4, <2>5
<1>2. CASE Check(t)
  <2>1. ThreadTypes'
    BY <1>2 DEF IInv, ThreadTypes, Check, GoTo, Return, PC
  <2>2. WaitersHaveFlight'
    BY <1>2 DEF IInv, ThreadTypes, WaitersHaveFlight, Waiting, Check, GoTo, Return
  <2>3. DedupInv'
    BY <1>2 DEF IInv, ThreadTypes, DedupInv, Check, GoTo, Return
  <2>4. AcceptedInv'
    BY <1>2 DEF IInv, ThreadTypes, AcceptedInv, Check, GoTo, Return
  <2> QED
    BY <2>1, <2>2, <2>3, <2>4
<1>3. CASE Mark(t)
  <2>1. ThreadTypes'
    BY <1>3 DEF IInv, ThreadTypes, Mark, GoTo, PC, history
  <2>2. WaitersHaveFlight'
    BY <1>3 DEF IInv, ThreadTypes, WaitersHaveFlight, Waiting, Mark, GoTo
  <2>3. DedupInv'
    BY <1>3 DEF IInv, ThreadTypes, DedupInv, Mark, GoTo, history
  <2>4. AcceptedInv'
    BY <1>3 DEF IInv, ThreadTypes, AcceptedInv, Mark, GoTo
  <2> QED
    BY <2>1, <2>2, <2>3, <2>4
<1> QED
  BY <1>1, <1>2, <1>3

\* A call that tries to get a token of the bucket goes on, sleeps or returns.
LEMMA AcquireSteps ==
  ASSUME IInv, NEW t \in Thread, TryAcquire(t)
  PROVE  ThreadTypes' /\ WaitersHaveFlight' /\ DedupInv' /\ AcceptedInv'
<1> DEFINE first == pc[t] = "acquire"
           until == IF first THEN now + Timeout ELSE deadline[t]
           short == Cost - Refilled
           sleeps == short > 0 /\ now < until /\ now + short <= until
<1>1. /\ pc[t] \in {"acquire", "sleep"}
      /\ pc' \in {[pc EXCEPT ![t] = label] : label \in {"idle", "sleep", "client"}}
      /\ returned' = IF pc'[t] = "idle" THEN returned \cup {sig[t]} ELSE returned
      /\ UNCHANGED <<signatures, client, flight, hold, retry, accepted, sig, calls, repeat>>
  BY DEF TryAcquire, Return, GoTo, IInv, ThreadTypes
<1>2. deadline' \in [Thread -> Nat] /\ wake' \in [Thread -> Nat]
  <2>1. /\ deadline' = [deadline EXCEPT ![t] = IF sleeps THEN until ELSE 0]
        /\ wake' = [wake EXCEPT ![t] =
                      IF sleeps THEN now + Min({short, until - now, MaxSleep}) ELSE 0]
    BY DEF TryAcquire
  <2>2. /\ now \in Nat /\ until \in Nat /\ short \in Int
        /\ deadline \in [Thread -> Nat] /\ wake \in [Thread -> Nat]
    BY RefillBounds, Constants DEF IInv, LimitInv, ThreadTypes
  <2> HIDE DEF first, until, short
  <2>3. CASE sleeps
    <3>1. short \in Nat /\ until - now \in Nat
      BY <2>2, <2>3
    <3>2. Min({short, until - now, MaxSleep}) \in Nat
      BY <3>1, MinOfThree, Constants
    <3> HIDE DEF sleeps
    <3> QED
      BY <2>1, <2>2, <2>3, <3>2
  <2>4. CASE ~sleeps
    <3> HIDE DEF sleeps
    <3> QED
      BY <2>1, <2>2, <2>4
  <2> QED
    BY <2>3, <2>4
<1>3. ThreadTypes'
  BY <1>1, <1>2 DEF IInv, ThreadTypes, PC
<1>4. WaitersHaveFlight'
  BY <1>1 DEF IInv, ThreadTypes, WaitersHaveFlight, Waiting
<1>5. DedupInv'
  BY <1>1 DEF IInv, ThreadTypes, DedupInv
<1>6. AcceptedInv'
  BY <1>1 DEF IInv, ThreadTypes, AcceptedInv
<1> QED
  BY <1>3, <1>4, <1>5, <1>6

\* A call gets a client, joins or leads a flight, or ends without one.
LEMMA ClientSteps ==
  ASSUME IInv, NEW t \in Thread, GetClient(t)
  PROVE  ThreadTypes' /\ WaitersHaveFlight' /\ DedupInv' /\ AcceptedInv'
<1>1. /\ pc[t] = "client"
      /\ pc' \in {[pc EXCEPT ![t] = label] : label \in {"call", "join", "lead", "idle"}}
      /\ returned' = IF pc'[t] = "idle" THEN returned \cup {sig[t]} ELSE returned
      /\ hold' \in {hold, [hold EXCEPT ![t] = client]}
      /\ pc'[t] \in {"lead", "join"} => flight' # None
      /\ flight' = flight \/ flight' # None
      /\ retry' = [retry EXCEPT ![t] = @ /\ pc'[t] # "idle"]
      /\ UNCHANGED <<signatures, client, deadline, wake, accepted, sig, calls, repeat>>
  <2>1. starts < MaxStarts => starts + 1 # None
    BY Constants DEF IInv, AuthTypes, None
  <2> QED
    BY <2>1 DEF GetClient, Return, GoTo, IInv, ThreadTypes
<1>2. flight' \in Start \cup {None}
  BY Constants DEF GetClient, IInv, ThreadTypes, AuthTypes, Start
<1>3. ThreadTypes'
  BY <1>1, <1>2 DEF IInv, ThreadTypes, PC
<1>4. WaitersHaveFlight'
  BY <1>1 DEF IInv, ThreadTypes, WaitersHaveFlight, Waiting
<1>5. DedupInv'
  BY <1>1 DEF IInv, ThreadTypes, DedupInv
<1>6. AcceptedInv'
  BY <1>1 DEF IInv, ThreadTypes, AcceptedInv
<1> QED
  BY <1>3, <1>4, <1>5, <1>6

\* A flight ends for all who wait for it.
LEMMA FlightSteps ==
  ASSUME IInv, NEW t \in Thread, EndFlight(t)
  PROVE  ThreadTypes' /\ WaitersHaveFlight' /\ DedupInv' /\ AcceptedInv'
<1>1. flight \in Start /\ header[flight] \in Bearer \cup {None}
  BY DEF EndFlight, IInv, ThreadTypes, AuthTypes, WaitersHaveFlight, Waiting
<1>2. /\ flight' = None
      /\ \E label \in {"call", "idle"} :
           /\ pc' = [u \in Thread |-> IF u \in Waiting THEN label ELSE pc[u]]
           /\ returned' = IF label = "idle" THEN returned \cup {sig[u] : u \in Waiting}
                          ELSE returned
      /\ hold' \in [Thread -> Bearer \cup {None}] /\ client' \in Bearer \cup {None}
      /\ retry' = [u \in Thread |-> retry[u] /\ pc'[u] # "idle"]
      /\ UNCHANGED <<signatures, deadline, wake, accepted, sig, calls, repeat>>
  BY <1>1 DEF EndFlight, IInv, ThreadTypes
<1>3. PICK label \in {"call", "idle"} :
        /\ pc' = [u \in Thread |-> IF u \in Waiting THEN label ELSE pc[u]]
        /\ returned' = IF label = "idle" THEN returned \cup {sig[u] : u \in Waiting} ELSE returned
  BY <1>2
<1>4. ThreadTypes'
  <2>1. returned' \subseteq Signature
    BY <1>3 DEF IInv, ThreadTypes, Waiting
  <2>2. pc' \in [Thread -> PC]
    BY <1>3 DEF IInv, ThreadTypes, PC
  <2>3. retry' \in [Thread -> BOOLEAN]
    BY <1>2 DEF IInv, ThreadTypes
  <2> QED
    BY <1>2, <2>1, <2>2, <2>3 DEF IInv, ThreadTypes
<1>5. WaitersHaveFlight'
  BY <1>3 DEF WaitersHaveFlight, Waiting
<1>6. DedupInv'
  BY <1>2, <1>3 DEF IInv, ThreadTypes, DedupInv, Waiting
<1>7. AcceptedInv'
  BY <1>2, <1>3 DEF IInv, ThreadTypes, AcceptedInv, Waiting
<1> QED
  BY <1>4, <1>5, <1>6, <1>7

\* A call is answered, refused or given up, and what follows a refusal.
LEMMA AnswerSteps ==
  ASSUME IInv, NEW t \in Thread,
         CallReturns(t) \/ CallRefused(t) \/ CallTimesOut(t) \/ Invalidate(t) \/ Drop(t)
  PROVE  ThreadTypes' /\ WaitersHaveFlight' /\ DedupInv' /\ AcceptedInv'
<1>1. /\ pc[t] \in {"call", "invalidate", "drop"}
      /\ pc' \in {[pc EXCEPT ![t] = label] : label \in {"idle", "invalidate", "drop", "client"}}
      /\ returned' = IF pc'[t] = "idle" THEN returned \cup {sig[t]} ELSE returned
      /\ UNCHANGED <<signatures, flight, deadline, wake, sig, calls, repeat>>
      /\ hold' \in {hold, [hold EXCEPT ![t] = None]} /\ client' \in {client, None}
  BY DEF CallReturns, CallRefused, CallTimesOut, Invalidate, Drop, Return, GoTo, LetGo, IInv,
         ThreadTypes, history
<1>2. /\ retry' \in [Thread -> BOOLEAN] /\ accepted' \in [Thread -> Nat]
      /\ \A u \in Thread \ {t} : retry'[u] = retry[u] /\ accepted'[u] = accepted[u]
  <2>1. CASE CallReturns(t)
    BY <2>1 DEF CallReturns, IInv, ThreadTypes
  <2>2. CASE CallRefused(t)
    BY <2>2 DEF CallRefused, IInv, ThreadTypes
  <2>3. CASE CallTimesOut(t)
    BY <2>3 DEF CallTimesOut, IInv, ThreadTypes
  <2>4. CASE Invalidate(t) \/ Drop(t)
    BY <2>4 DEF Invalidate, Drop, IInv, ThreadTypes
  <2> QED
    BY <2>1, <2>2, <2>3, <2>4
<1>3. ThreadTypes'
  BY <1>1, <1>2 DEF IInv, ThreadTypes, PC
<1>4. WaitersHaveFlight'
  BY <1>1 DEF IInv, ThreadTypes, WaitersHaveFlight, Waiting
<1>5. DedupInv'
  BY <1>1, <1>2 DEF IInv, ThreadTypes, DedupInv
<1>6. /\ accepted'[t] <= 1
      /\ pc'[t] \notin {"idle", "drop"} \/ (pc'[t] = "drop" /\ retry'[t]) => accepted'[t] = 0
  <2>1. CASE CallReturns(t)
    BY <2>1 DEF CallReturns, Return, GoTo, IInv, ThreadTypes, AcceptedInv
  <2>2. CASE CallRefused(t)
    BY <2>2 DEF CallRefused, Return, GoTo, IInv, ThreadTypes, AcceptedInv
  <2>3. CASE CallTimesOut(t)
    BY <2>3 DEF CallTimesOut, GoTo, IInv, ThreadTypes, AcceptedInv
  <2>4. CASE Invalidate(t) \/ Drop(t)
    BY <2>4 DEF Invalidate, Drop, Return, GoTo, IInv, ThreadTypes, AcceptedInv
  <2> QED
    BY <2>1, <2>2, <2>3, <2>4
<1>7. AcceptedInv'
  BY <1>1, <1>2, <1>6 DEF IInv, ThreadTypes, AcceptedInv
<1> QED
  BY <1>3, <1>4, <1>5, <1>7

\* The invariant is inductive.
THEOREM Invariance == Spec => []IInv
<1>1. ASSUME IInv, [Next]_vars PROVE IInv'
  <2>1. LimitInv' /\ AuthTypes' /\ AuthInv'
    BY <1>1, LimitSteps, AuthSteps DEF IInv
  <2>2. ThreadTypes' /\ WaitersHaveFlight' /\ DedupInv' /\ AcceptedInv'
    <3>1. CASE \E t \in Thread : (\E s \in Signature : Invoke(t, s)) \/ Step(t)
      BY <1>1, <3>1, MarkSteps, AcquireSteps, ClientSteps, FlightSteps, AnswerSteps DEF Step
    <3>2. CASE UNCHANGED <<signatures, client, flight, pc, hold, retry, deadline, wake, accepted,
                           history>>
      BY <1>1, <3>2 DEF IInv, ThreadTypes, WaitersHaveFlight, Waiting, DedupInv, AcceptedInv, history
    <3> QED
      BY <1>1, <3>1, <3>2 DEF Next, DaemonStep, LookToken, ReadToken, LockToken, PostRefresh,
           StoreToken, OpenSession, Tick, Expire, Revoke, vars, threads
  <2> QED
    BY <2>1, <2>2 DEF IInv
<1> QED
  BY <1>1, Initially, PTL DEF Spec

\* Every variable keeps its domain, for any number of threads and starts.
THEOREM TypeCorrectness == Spec => []TypeOK
<1>1. IInv => TypeOK
  BY DEF IInv, LimitInv, AuthTypes, ThreadTypes, TypeOK
<1> QED
  BY <1>1, Invariance, PTL

\* No interleaving of threads lets more calls pass than the bucket allows.
THEOREM RateLimit == Spec => []RateHolds
<1>1. IInv => RateHolds
  <2>1. LimitInv => granted * Cost \in Nat
    BY Constants DEF LimitInv
  <2> QED
    BY <2>1, Constants DEF IInv, LimitInv, RateHolds
<1> QED
  BY <1>1, Invariance, PTL

\* A call is taken up at most once, with its retry.
THEOREM NoDoubleCall == Spec => []AcceptedAtMostOnce
<1>1. IInv => AcceptedAtMostOnce
  BY DEF IInv, AcceptedInv, AcceptedAtMostOnce
<1> QED
  BY <1>1, Invariance, PTL

\* A slow refresh never puts an older token in the place of a newer one.
THEOREM NewestToken == Spec => []NewestTokenCached
<1>1. IInv => NewestTokenCached
  BY DEF IInv, AuthInv
<1> QED
  BY <1>1, Invariance, PTL

\* With duplicate suppression a repetition of a call that has returned is skipped.
THEOREM RepetitionSkipped == Spec => []RepeatIsSkipped
<1>1. IInv => RepeatIsSkipped
  BY DEF IInv, DedupInv, RepeatIsSkipped
<1> QED
  BY <1>1, Invariance, PTL

\* Neither the retry after a 401 nor a repetition reaches the server twice.
THEOREM NoRepeatedCall == Spec => []CallsNotRepeated
<1>1. AcceptedAtMostOnce /\ RepeatIsSkipped => CallsNotRepeated
  BY DEF CallsNotRepeated
<1> QED
  BY <1>1, NoDoubleCall, RepetitionSkipped, PTL

\* No token is asked for while a fresh one is cached.
THEOREM RefreshIsNeeded == Spec => NoNeedlessRefresh
<1>1. ASSUME IInv, [Next]_vars, issued' # issued PROVE ~Fresh
  <2>1. PICK n \in Start : PostRefresh(n)
    BY <1>1 DEF Next, Step, DaemonStep, Invoke, Check, Mark, TryAcquire, GetClient, EndFlight,
         CallReturns, CallRefused, CallTimesOut, Invalidate, Drop, LookToken, ReadToken, LockToken,
         StoreToken, OpenSession, Tick, Expire, Revoke, vars, auth
  <2> QED
    BY <1>1, <2>1 DEF IInv, AuthInv, PostRefresh
<1>2. IInv /\ [Next]_vars => [issued' # issued => ~Fresh]_vars
  BY <1>1
<1> QED
  BY <1>2, Invariance, PTL DEF Spec, NoNeedlessRefresh

\* One token serves all threads.
THEOREM OneTokenForAll == Spec => TokenIsShared
<1>1. NewestTokenCached' /\ [issued' # issued => ~Fresh]_vars
        => [NewestTokenCached' /\ (issued' # issued => ~Fresh)]_vars
  OBVIOUS
<1> QED
  BY <1>1, NewestToken, RefreshIsNeeded, PTL DEF TokenIsShared, NoNeedlessRefresh
=============================================================================
