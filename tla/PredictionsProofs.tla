------------------------- MODULE PredictionsProofs -------------------------
(***************************************************************************)
(* Proofs about the prediction store, for any services, threads, cooldown  *)
(* and window.                                                             *)
(***************************************************************************)
EXTENDS Predictions, FiniteSetTheorems, TLAPS

\* TypeOK in parts: the runner, the store with its index, the resolvers, and
\* what is not known of predictions that are not stored.
RunnerTypes ==
  /\ now \in Nat
  /\ task \in {"off", "top", "await", "sleep", "done"} /\ stopping \in BOOLEAN
  /\ cycle \in {"idle", "queued", "store", "expire"} /\ found \subseteq Service
  /\ calls \in [Agent \cup Engineer -> 0..MaxCalls]
StoreTypes ==
  /\ index \in [Service -> Int]
  /\ count \in 0..MaxPred /\ info \in [Pred -> Info]
  /\ outcome \in [Pred -> Outcome] /\ fed \in [Pred -> SUBSET Outcome]
  /\ refused \subseteq Pred \X Outcome
ResolverTypes ==
  /\ at \in [Resolver -> {"idle", "scan", "set", "feed", "learn"}]
  /\ pos \in [Resolver -> 0..MaxPred] /\ size \in [Resolver -> 0..MaxPred]
  /\ val \in [Resolver -> Outcome] /\ incident \in [Resolver -> Service]
UnknownUntouched == \A p \in Pred : p > count => outcome[p] = "pending" /\ fed[p] = {}

\* A cycle runs only while the loop waits for it or has been given up, one that is
\* queued only while the loop waits, and its thread goes through the predictions
\* only at its end.
CycleInv ==
  /\ task \in {"off", "top", "sleep"} => cycle = "idle"
  /\ cycle = "queued" => task = "await"
  /\ cycle # "expire" => at[Runner] = "idle"

\* There is room for everything that was found.
RoomForFound == count + Cardinality(found) <= MaxPred

\* A resolver that has come to a prediction has come to one that is stored, and
\* saw no more predictions than there are.
AtStored ==
  \A r \in Resolver :
    /\ at[r] \in {"set", "feed", "learn"} => pos[r] \in 1..count
    /\ size[r] <= count

\* The index holds the time of the last publication, whichever thread looks.
IndexInv ==
  /\ \A p \in 1..count : info[p].decided <= now
  /\ \A p \in 1..count : info[p].published => info[p].decided <= index[info[p].service]
  /\ \A s \in Service :
       \/ index[s] = -Cooldown
       \/ \E p \in 1..count :
            info[p].service = s /\ info[p].published /\ info[p].decided = index[s]

\* Who set an outcome last has yet to feed it, or it has been fed.
FedInv ==
  \A p \in 1..count : outcome[p] # "pending" =>
    \/ outcome[p] \in fed[p]
    \/ <<p, outcome[p]>> \in refused
    \/ \E r \in Resolver :
         pos[r] = p /\ (at[r] = "feed" \/ (at[r] = "learn" /\ val[r] = outcome[p]))

\* The predictions an agent has left behind.
Behind(a) == IF at[a] = "set" THEN 1..(pos[a] - 1) ELSE 1..pos[a]

\* While nothing is added, none of them is open.
ScanInv ==
  \A a \in Agent : at[a] # "idle" /\ size[a] = count =>
    \A p \in Behind(a) : info[p].service = incident[a] => outcome[p] # "pending"

IInv == /\ RunnerTypes /\ StoreTypes /\ ResolverTypes /\ UnknownUntouched
        /\ RoomForFound /\ AtStored /\ CycleInv /\ IndexInv
        /\ PublishedOncePerCooldown /\ SuppressedHasReason /\ FedInv /\ ScanInv

----------------------------------------------------------------------------
\* What the assumption says of the constants.
LEMMA Constants ==
  /\ Cooldown \in Nat /\ Cooldown > 0 /\ Window \in Nat /\ MaxPred \in Nat /\ MaxCalls \in Nat
  /\ Runner \in Resolver /\ Agent \subseteq Resolver /\ Engineer \subseteq Resolver
  /\ Blank \in Info /\ Blank.service \in Service
BY PredictionsAssumption DEF Resolver, Blank, Info

\* The initial state satisfies the invariant.
LEMMA Initially == Init => IInv
<1> SUFFICES ASSUME Init PROVE IInv
  OBVIOUS
<1>1. RunnerTypes
  <2>1. calls \in [Agent \cup Engineer -> 0..MaxCalls]
    BY Constants DEF Init
  <2>2. now \in Nat /\ found \subseteq Service
    BY DEF Init
  <2> QED
    BY <2>1, <2>2 DEF Init, RunnerTypes
<1>2. StoreTypes
  BY Constants DEF Init, StoreTypes, Outcome, Pred
<1>3. ResolverTypes /\ AtStored /\ CycleInv
  BY Constants DEF Init, ResolverTypes, AtStored, CycleInv, Outcome
<1>4. UnknownUntouched /\ FedInv /\ ScanInv /\ PublishedOncePerCooldown /\ SuppressedHasReason
  BY Constants DEF Init, UnknownUntouched, FedInv, ScanInv, PublishedOncePerCooldown,
       SuppressedHasReason, Pred
<1>5. RoomForFound
  BY Constants, FS_EmptySet DEF Init, RoomForFound
<1>6. IndexInv
  BY Constants DEF Init, IndexInv
<1> QED
  BY <1>1, <1>2, <1>3, <1>4, <1>5, <1>6 DEF IInv

\* A detection that is stored takes one of the places kept for what was found.
LEMMA StoreHasRoom ==
  ASSUME IInv, NEW s \in Service, Store(s)
  PROVE  count + 1 \in Pred /\ RoomForFound'
<1>1. IsFiniteSet(found)
  BY PredictionsAssumption, FS_Subset DEF IInv, RunnerTypes
<1>2. Cardinality(found) \in Nat /\ Cardinality(found \ {s}) = Cardinality(found) - 1
  BY <1>1, FS_RemoveElement, FS_CardinalityType DEF Store
<1>3. Cardinality(found) >= 1
  <2>1. IsFiniteSet(found \ {s})
    BY <1>1, FS_RemoveElement
  <2> QED
    BY <1>2, <2>1, FS_CardinalityType
<1> QED
  BY <1>2, <1>3, Constants DEF IInv, RoomForFound, StoreTypes, Store, Pred

\* Steps of the loop, stop and the end of a cycle change none of the store and
\* of the resolvers.
LEMMA RunnerSteps ==
  ASSUME IInv, Loop \/ Stop \/ BeginCycle \/ EndCycle
  PROVE  IInv'
<1>1. UNCHANGED <<now, store, outcome, fed, refused, resolvers, calls>>
  BY DEF feeds, Loop, Start, LoopTop, Wake, CancelTask, Stop, BeginCycle, EndCycle
<1>2. RunnerTypes'
  BY <1>1 DEF IInv, RunnerTypes, store, Loop, Start, LoopTop, Wake, CancelTask, Stop, BeginCycle,
       EndCycle
<1>7. RoomForFound'
  BY <1>1 DEF IInv, RoomForFound, store, Loop, Start, LoopTop, Wake, CancelTask, Stop, BeginCycle,
       EndCycle
<1>3. StoreTypes' /\ ResolverTypes' /\ UnknownUntouched' /\ AtStored'
  BY <1>1 DEF IInv, StoreTypes, ResolverTypes, UnknownUntouched, AtStored, store, resolvers
<1>6. CycleInv'
  BY <1>1 DEF IInv, RunnerTypes, CycleInv, resolvers, Loop, Start, LoopTop, Wake, CancelTask, Stop,
       BeginCycle, EndCycle
<1>4. IndexInv' /\ PublishedOncePerCooldown' /\ SuppressedHasReason'
  BY <1>1 DEF IInv, IndexInv, PublishedOncePerCooldown, SuppressedHasReason, store
<1>5. FedInv' /\ ScanInv'
  BY <1>1 DEF IInv, FedInv, ScanInv, Behind, store, resolvers
<1> QED
  BY <1>2, <1>3, <1>4, <1>5, <1>6, <1>7 DEF IInv

\* A new prediction keeps the cooldown, and whoever goes through the predictions
\* sees that there is one more.
LEMMA StoreSteps ==
  ASSUME IInv, NEW s \in Service, Store(s)
  PROVE  IInv'
<1> DEFINE q == count + 1
<1>1. PICK ready \in BOOLEAN :
        /\ info' = [info EXCEPT ![q] = [service |-> s, ready |-> ready,
                                        published |-> Due(s) /\ ready, decided |-> now]]
        /\ index' = [index EXCEPT ![s] = IF StartsCooldown(s, ready) THEN now ELSE @]
  BY DEF Store
<1>2. /\ q \in Pred /\ RoomForFound' /\ count' = q
      /\ UNCHANGED <<now, outcome, fed, refused, resolvers, calls>>
  BY StoreHasRoom DEF Store, feeds
<1>3. RunnerTypes'
  BY <1>2 DEF IInv, RunnerTypes, Store
<1>4. Due(s) \in BOOLEAN
  BY DEF Due
<1>5. StoreTypes'
  <2>1. now \in Nat /\ now \in Int
    BY DEF IInv, RunnerTypes
  <2>2. index' \in [Service -> Int]
    BY <1>1, <2>1 DEF IInv, StoreTypes
  <2>3. [service |-> s, ready |-> ready, published |-> Due(s) /\ ready, decided |-> now] \in Info
    BY <1>4, <2>1 DEF Info
  <2>4. info' \in [Pred -> Info]
    BY <1>1, <2>3 DEF IInv, StoreTypes
  <2>5. count' \in 0..MaxPred
    BY <1>2, Constants DEF Pred
  <2> QED
    BY <1>2, <2>2, <2>4, <2>5 DEF IInv, StoreTypes
<1>6. ResolverTypes' /\ AtStored' /\ CycleInv' /\ UnknownUntouched'
  <2>1. ResolverTypes' /\ CycleInv'
    BY <1>2 DEF IInv, ResolverTypes, CycleInv, Store, resolvers
  <2>2. count \in Nat /\ size \in [Resolver -> 0..MaxPred]
    BY Constants DEF IInv, StoreTypes, ResolverTypes
  <2>3. AtStored'
    BY <1>2, <2>2 DEF IInv, AtStored, resolvers
  <2>4. UnknownUntouched'
    BY <1>2, <2>2 DEF IInv, UnknownUntouched, Pred
  <2> QED
    BY <2>1, <2>3, <2>4
<1>7. /\ info'[q].service = s /\ info'[q].ready = ready /\ info'[q].decided = now
      /\ info'[q].published = (Due(s) /\ ready)
      /\ \A p \in 1..count : info'[p] = info[p]
      /\ 1..count' = 1..count \cup {q} /\ q \notin 1..count /\ count \in Nat
  BY <1>1, <1>2 DEF IInv, StoreTypes, Pred
<1>8. /\ StartsCooldown(s, ready) <=> Due(s) /\ ready
      /\ Due(s) <=> now - index[s] >= Cooldown
      /\ \A t \in Service \ {s} : index'[t] = index[t]
      /\ index'[s] = IF Due(s) /\ ready THEN now ELSE index[s]
      /\ now \in Nat /\ now' = now /\ index \in [Service -> Int]
      /\ \A p \in 1..count : info[p] \in Info
  BY <1>1, <1>2, Constants DEF StartsCooldown, Due, IInv, StoreTypes, RunnerTypes, Pred
<1>9. IndexInv'
  <2>1. \A p \in 1..count' : info'[p].decided <= now'
    BY <1>7, <1>8 DEF IInv, IndexInv
  <2>2. ASSUME NEW p \in 1..count', info'[p].published
        PROVE  info'[p].decided <= index'[info'[p].service]
    <3>1. CASE p = q
      <4>1. Due(s) /\ ready /\ info'[p].service = s /\ info'[p].decided = now
        BY <1>7, <2>2, <3>1
      <4> QED
        BY <1>8, <4>1
    <3>2. CASE p \in 1..count
      <4>1. /\ info'[p] = info[p] /\ info[p].service \in Service
            /\ info[p].decided \in Nat /\ info[p].decided <= now
            /\ info[p].decided <= index[info[p].service]
        BY <1>7, <1>8, <2>2, <3>2 DEF IInv, IndexInv, Info
      <4>2. CASE info[p].service = s /\ Due(s) /\ ready
        BY <1>8, <4>1, <4>2
      <4>3. CASE ~(info[p].service = s /\ Due(s) /\ ready)
        BY <1>8, <4>1, <4>3
      <4> QED
        BY <4>2, <4>3
    <3> QED
      BY <1>7, <3>1, <3>2
  <2>3. ASSUME NEW t \in Service, index'[t] # -Cooldown
        PROVE  \E p \in 1..count' : /\ info'[p].service = t /\ info'[p].published
                                    /\ info'[p].decided = index'[t]
    BY <1>7, <1>8, <2>3 DEF IInv, IndexInv
  <2> QED
    BY <2>1, <2>2, <2>3 DEF IndexInv
<1>10. PublishedOncePerCooldown'
  <2>1. ASSUME NEW p \in 1..count, info[p].service = s, info[p].published, Due(s)
        PROVE  now - info[p].decided >= Cooldown
    BY <1>8, <2>1, Constants DEF IInv, IndexInv, Info
  <2> SUFFICES ASSUME NEW o \in 1..count', NEW p \in 1..count', o < p,
                      info'[o].service = info'[p].service,
                      info'[o].published, info'[p].published
               PROVE  info'[p].decided - info'[o].decided >= Cooldown
    BY DEF PublishedOncePerCooldown
  <2>2. o \in 1..count
    BY <1>7
  <2>3. CASE p \in 1..count
    BY <1>7, <2>2, <2>3 DEF IInv, PublishedOncePerCooldown
  <2>4. CASE p = q
    BY <1>7, <2>1, <2>2, <2>4
  <2> QED
    BY <1>7, <2>3, <2>4
<1>11. SuppressedHasReason'
  <2>1. ASSUME ready, ~Due(s)
        PROVE  \E p \in 1..count : /\ info[p].service = s /\ info[p].published
                                   /\ now - info[p].decided < Cooldown
    <3>1. index[s] # -Cooldown
      BY <1>8, <2>1, Constants
    <3> QED
      BY <1>8, <2>1, <3>1, Constants DEF IInv, IndexInv
  <2>2. 1..(q - 1) = 1..count
    BY <1>7
  <2>3. ASSUME NEW p \in 1..count, info'[p].ready, ~info'[p].published
        PROVE  \E o \in 1..(p - 1) :
                 /\ info'[o].service = info'[p].service /\ info'[o].published
                 /\ info'[p].decided - info'[o].decided < Cooldown
    <3>1. info'[p] = info[p] /\ \A o \in 1..(p - 1) : info'[o] = info[o]
      BY <1>7
    <3> QED
      BY <2>3, <3>1 DEF IInv, SuppressedHasReason
  <2>4. ASSUME ready, ~(Due(s) /\ ready)
        PROVE  \E o \in 1..(q - 1) :
                 /\ info'[o].service = info'[q].service /\ info'[o].published
                 /\ info'[q].decided - info'[o].decided < Cooldown
    BY <1>7, <2>1, <2>2, <2>4
  <2> QED
    BY <1>7, <2>3, <2>4 DEF SuppressedHasReason
<1>12. FedInv'
  BY <1>2, <1>7 DEF IInv, FedInv, UnknownUntouched, resolvers
<1>13. ScanInv'
  BY <1>2, <1>7, Constants DEF IInv, ScanInv, AtStored, ResolverTypes, resolvers
<1> QED
  BY <1>2, <1>3, <1>5, <1>6, <1>9, <1>10, <1>11, <1>12, <1>13 DEF IInv

\* The beginning of a walk, a mark and the passing of time leave the store alone.
LEMMA BeginSteps ==
  ASSUME IInv,
         \/ BeginExpire \/ Tick
         \/ \E a \in Agent, s \in Service : Record(a, s)
         \/ \E e \in Engineer, p \in Pred : Mark(e, p)
  PROVE  IInv'
<1>1. UNCHANGED <<store, outcome, fed, refused>> /\ now' \in {now, now + 1}
  BY DEF BeginExpire, Tick, Record, Mark, IInv, RunnerTypes, feeds
<1>2. RunnerTypes' /\ RoomForFound'
  BY <1>1, Constants DEF IInv, RunnerTypes, RoomForFound, store, runner, BeginExpire, Tick, Record,
       Mark
<1>3. StoreTypes' /\ UnknownUntouched'
  BY <1>1 DEF IInv, StoreTypes, UnknownUntouched, store
<1>4. ResolverTypes'
  <2>1. count \in 0..MaxPred /\ 0 \in 0..MaxPred /\ Pred \subseteq 0..MaxPred
    BY Constants DEF IInv, StoreTypes, Pred
  <2>2. CASE BeginExpire \/ Tick
    BY <2>1, <2>2 DEF IInv, ResolverTypes, BeginExpire, Tick, resolvers
  <2>3. CASE \E a \in Agent, s \in Service : Record(a, s)
    <3>1. PICK a \in Agent, s \in Service : Record(a, s)
      BY <2>3
    <3>2. at' \in [Resolver -> {"idle", "scan", "set", "feed", "learn"}]
      BY <3>1 DEF IInv, ResolverTypes, Record
    <3>3. pos' \in [Resolver -> 0..MaxPred] /\ size' \in [Resolver -> 0..MaxPred]
      BY <2>1, <3>1 DEF IInv, ResolverTypes, Record
    <3>4. val' \in [Resolver -> Outcome] /\ incident' \in [Resolver -> Service]
      BY <3>1 DEF IInv, ResolverTypes, Record
    <3> QED
      BY <3>2, <3>3, <3>4 DEF ResolverTypes
  <2>4. CASE \E e \in Engineer, p \in Pred : Mark(e, p)
    BY <2>1, <2>4 DEF IInv, ResolverTypes, Mark
  <2> QED
    BY <2>2, <2>3, <2>4
<1>9. AtStored'
  <2>1. /\ count' = count /\ count \in Nat
        /\ at \in [Resolver -> {"idle", "scan", "set", "feed", "learn"}]
        /\ pos \in [Resolver -> 0..MaxPred] /\ size \in [Resolver -> 0..MaxPred]
    BY <1>1, Constants DEF IInv, StoreTypes, ResolverTypes, store
  <2>2. CASE BeginExpire \/ Tick
    <3>1. CASE Tick
      BY <2>1, <3>1 DEF IInv, AtStored, Tick, resolvers
    <3>2. CASE BeginExpire
      BY <2>1, <3>2 DEF IInv, AtStored, BeginExpire
    <3> QED
      BY <2>2, <3>1, <3>2
  <2>3. CASE \E a \in Agent, s \in Service : Record(a, s)
    BY <2>1, <2>3 DEF IInv, AtStored, Record
  <2>4. CASE \E e \in Engineer, p \in Pred : Mark(e, p)
    BY <2>1, <2>4 DEF IInv, AtStored, Mark, Known, Pred
  <2> QED
    BY <2>2, <2>3, <2>4
<1>5. IndexInv' /\ PublishedOncePerCooldown' /\ SuppressedHasReason'
  <2>1. /\ now \in Nat /\ now' \in Nat /\ now' >= now /\ count \in Nat
        /\ \A p \in 1..count : info[p].decided \in Nat
    BY <1>1, Constants DEF IInv, RunnerTypes, StoreTypes, Pred, Info
  <2> QED
    BY <1>1, <2>1 DEF IInv, IndexInv, PublishedOncePerCooldown, SuppressedHasReason, store
<1>8. CycleInv'
  BY PredictionsAssumption, Constants DEF IInv, CycleInv, ResolverTypes, BeginExpire, Tick, Record,
       Mark, runner, resolvers
<1>6. FedInv'
  <2>1. \A r \in Resolver : at[r] \in {"feed", "learn"} =>
          at'[r] = at[r] /\ pos'[r] = pos[r] /\ val'[r] = val[r]
    BY Constants DEF IInv, ResolverTypes, CycleInv, BeginExpire, Tick, Record, Mark, resolvers
  <2> QED
    BY <1>1, <2>1 DEF IInv, FedInv, store
<1>7. ScanInv'
  BY <1>1, PredictionsAssumption DEF IInv, ScanInv, Behind, ResolverTypes, BeginExpire, Tick,
       Record, Mark, Resolver, store, resolvers
<1> QED
  BY <1>2, <1>3, <1>4, <1>5, <1>6, <1>7, <1>8, <1>9 DEF IInv

\* Going through the predictions and resolving them leaves none behind open and
\* none unfed.
LEMMA ResolveSteps ==
  ASSUME IInv, NEW r \in Resolver, Resolve(r)
  PROVE  IInv'
<1>1. UNCHANGED <<now, runner, store, incident, calls>>
  BY DEF Resolve, Scan, SetOutcome, ReadOutcome, FeedCalibration
<1>2. RunnerTypes' /\ RoomForFound'
  BY <1>1 DEF IInv, RunnerTypes, RoomForFound, runner, store
<1>3. /\ count \in 0..MaxPred /\ MaxPred \in Nat /\ pos[r] \in 0..MaxPred
      /\ size[r] \in 0..MaxPred /\ outcome \in [Pred -> Outcome]
      /\ fed \in [Pred -> SUBSET Outcome] /\ val \in [Resolver -> Outcome]
      /\ at \in [Resolver -> {"idle", "scan", "set", "feed", "learn"}]
      /\ pos \in [Resolver -> 0..MaxPred] /\ size \in [Resolver -> 0..MaxPred]
  BY Constants DEF IInv, StoreTypes, ResolverTypes
<1>4. at[r] \in {"set", "feed", "learn"} => pos[r] \in 1..count /\ pos[r] \in Pred
  BY <1>3 DEF IInv, AtStored, Pred
<1>5. CASE Scan(r)
  <2>1. UNCHANGED <<outcome, fed, refused, val>>
    BY <1>5 DEF Scan, feeds
  <2>2. StoreTypes' /\ UnknownUntouched'
    BY <1>1, <2>1 DEF IInv, StoreTypes, UnknownUntouched, store
  <2>3. ResolverTypes'
    BY <1>1, <1>3, <1>5 DEF IInv, ResolverTypes, Scan
  <2>4. AtStored'
    BY <1>1, <1>3, <1>5 DEF IInv, AtStored, Scan, store
  <2>5. CycleInv'
    BY <1>1, <1>3, <1>5, Constants DEF IInv, CycleInv, Scan, runner
  <2>6. FedInv'
    BY <1>1, <1>3, <1>5, <2>1 DEF IInv, FedInv, Scan, store
  <2>7. ASSUME NEW a \in Agent, at'[a] # "idle", size'[a] = count',
               NEW p \in Behind(a)', info'[p].service = incident'[a]
        PROVE  outcome'[p] # "pending"
    <3>1. CASE a # r
      BY <1>1, <1>3, <1>5, <2>1, <2>7, <3>1, Constants DEF IInv, ScanInv, Behind, Scan, store
    <3>2. CASE a = r
      <4>1. /\ size[r] = count /\ pos'[r] = pos[r] + 1 /\ at[r] = "scan"
            /\ at'[r] = IF Open(r, pos[r] + 1) THEN "set" ELSE "scan"
        BY <1>3, <1>5, <2>7, <3>2 DEF Scan
      <4>2. p \in 1..pos[r] \/ (p = pos[r] + 1 /\ ~Open(r, pos[r] + 1))
        BY <1>3, <2>7, <3>2, <4>1 DEF Behind
      <4>3. CASE p \in 1..pos[r]
        BY <1>1, <2>1, <2>7, <3>2, <4>1, <4>3 DEF IInv, ScanInv, Behind, store
      <4>4. CASE p = pos[r] + 1 /\ ~Open(r, p)
        BY <1>1, <2>1, <2>7, <3>2, <4>4, PredictionsAssumption DEF Open, store
      <4> QED
        BY <4>2, <4>3, <4>4
    <3> QED
      BY <3>1, <3>2
  <2>8. IndexInv' /\ PublishedOncePerCooldown' /\ SuppressedHasReason'
    BY <1>1 DEF IInv, IndexInv, PublishedOncePerCooldown, SuppressedHasReason, store
  <2> QED
    BY <1>2, <2>2, <2>3, <2>4, <2>5, <2>6, <2>7, <2>8 DEF IInv, ScanInv
<1>6. CASE SetOutcome(r) \/ ReadOutcome(r) \/ FeedCalibration(r)
  <2>1. StoreTypes'
    BY <1>1, <1>3, <1>4, <1>6 DEF IInv, StoreTypes, SetOutcome, ReadOutcome, FeedCalibration, store,
         feeds, Learnt, Outcome
  <2>2. UnknownUntouched'
    BY <1>1, <1>3, <1>4, <1>6 DEF IInv, UnknownUntouched, SetOutcome, ReadOutcome, FeedCalibration,
         store, feeds
  <2>3. ResolverTypes'
    BY <1>1, <1>3, <1>4, <1>6 DEF IInv, ResolverTypes, SetOutcome, ReadOutcome, FeedCalibration,
         Outcome
  <2>4. AtStored'
    BY <1>1, <1>3, <1>4, <1>6 DEF IInv, AtStored, SetOutcome, ReadOutcome, FeedCalibration, store
  <2>5. CycleInv'
    BY <1>1, <1>3, <1>6, Constants DEF IInv, CycleInv, SetOutcome, ReadOutcome, FeedCalibration,
         runner
  <2>6. IndexInv' /\ PublishedOncePerCooldown' /\ SuppressedHasReason'
    BY <1>1 DEF IInv, IndexInv, PublishedOncePerCooldown, SuppressedHasReason, store
  <2>7. FedInv'
    <3>1. CASE SetOutcome(r)
      BY <1>1, <1>3, <1>4, <3>1 DEF IInv, FedInv, SetOutcome, store, feeds, Pred
    <3>2. CASE ReadOutcome(r)
      BY <1>1, <1>3, <1>4, <3>2 DEF IInv, FedInv, ReadOutcome, store, feeds, Pred
    <3>3. CASE FeedCalibration(r)
      <4>1. /\ UNCHANGED <<count, outcome>> /\ pos[r] \in Pred /\ at[r] = "learn"
            /\ \A p \in 1..count : p \in Pred
            /\ \A o \in Resolver \ {r} : at'[o] = at[o] /\ pos'[o] = pos[o] /\ val'[o] = val[o]
        BY <1>1, <1>3, <1>4, <3>3 DEF FeedCalibration, store, Pred
      <4>2. \/ fed' = [fed EXCEPT ![pos[r]] = @ \cup {val[r]}] /\ refused' = refused
            \/ refused' = refused \cup {<<pos[r], val[r]>>} /\ fed' = fed
        BY <1>3, <4>1, <3>3 DEF FeedCalibration, Learnt
      <4>3. /\ \A p \in 1..count : fed[p] \subseteq fed'[p]
            /\ refused \subseteq refused'
            /\ val[r] \in fed'[pos[r]] \/ <<pos[r], val[r]>> \in refused'
        BY <1>3, <4>1, <4>2
      <4> QED
        BY <4>1, <4>3 DEF IInv, FedInv
    <3> QED
      BY <1>6, <3>1, <3>2, <3>3
  <2>8. ScanInv'
    <3>1. CASE SetOutcome(r)
      BY <1>1, <1>3, <1>4, <3>1, Constants DEF IInv, ScanInv, Behind, SetOutcome, store, Pred
    <3>2. CASE ReadOutcome(r)
      BY <1>1, <1>3, <1>4, <3>2, Constants DEF IInv, ScanInv, Behind, ReadOutcome, store
    <3>3. CASE FeedCalibration(r)
      BY <1>1, <1>3, <1>4, <3>3, PredictionsAssumption, Constants
         DEF IInv, ScanInv, Behind, FeedCalibration, GoesOn, store
    <3> QED
      BY <1>6, <3>1, <3>2, <3>3
  <2> QED
    BY <1>2, <2>1, <2>2, <2>3, <2>4, <2>5, <2>6, <2>7, <2>8 DEF IInv
<1> QED
  BY <1>5, <1>6 DEF Resolve

\* The invariant is inductive.
THEOREM Invariance == Spec => []IInv
<1>1. IInv /\ [Next]_vars => IInv'
  <2>1. ASSUME IInv, Next PROVE IInv'
    BY <2>1, RunnerSteps, StoreSteps, BeginSteps, ResolveSteps DEF Next, Cycle
  <2>2. ASSUME IInv, UNCHANGED vars PROVE IInv'
    <3>1. RunnerTypes' /\ StoreTypes' /\ ResolverTypes' /\ UnknownUntouched' /\ RoomForFound'
      BY <2>2 DEF IInv, vars, runner, store, feeds, resolvers, RunnerTypes, StoreTypes, ResolverTypes,
           UnknownUntouched, RoomForFound
    <3>2. AtStored' /\ CycleInv' /\ IndexInv' /\ PublishedOncePerCooldown' /\ SuppressedHasReason'
      BY <2>2 DEF IInv, vars, runner, store, feeds, resolvers, AtStored, CycleInv, IndexInv,
           PublishedOncePerCooldown, SuppressedHasReason
    <3>3. FedInv' /\ ScanInv'
      BY <2>2 DEF IInv, vars, runner, store, feeds, resolvers, FedInv, ScanInv, Behind
    <3> QED
      BY <3>1, <3>2, <3>3 DEF IInv
  <2> QED
    BY <2>1, <2>2
<1> QED
  BY <1>1, Initially, PTL DEF Spec

\* Every variable keeps its domain, for any services and threads.
THEOREM TypeCorrectness == Spec => []TypeOK
<1>1. IInv => TypeOK
  BY DEF IInv, RunnerTypes, StoreTypes, ResolverTypes, UnknownUntouched, TypeOK
<1> QED
  BY <1>1, Invariance, PTL

\* Two published predictions of a service are a cooldown apart.
THEOREM OnePredictionPerCooldown == Spec => []PublishedOncePerCooldown
<1>1. IInv => PublishedOncePerCooldown
  BY DEF IInv
<1> QED
  BY <1>1, Invariance, PTL

\* Only a published prediction keeps another one back.
THEOREM OnlyPublishedSuppress == Spec => []SuppressedHasReason
<1>1. IInv => SuppressedHasReason
  BY DEF IInv
<1> QED
  BY <1>1, Invariance, PTL

\* The cooldown lets one prediction through and hides others only behind it.
THEOREM CooldownIsSound == Spec => []CooldownKept
<1>1. PublishedOncePerCooldown /\ SuppressedHasReason => CooldownKept
  BY DEF CooldownKept
<1> QED
  BY <1>1, OnePredictionPerCooldown, OnlyPublishedSuppress, PTL

\* The outcome a prediction ends with was learnt by the calibrator, for any number of
\* threads that resolve it at the same time, unless the update with it raised.
THEOREM CalibratorLearns == Spec => []LearnsFinalOutcome
<1>1. IInv => LearnsFinalOutcome
  BY DEF IInv, FedInv, LearnsFinalOutcome, Resolving
<1> QED
  BY <1>1, Invariance, PTL

\* A record_outcome that returns normally leaves no prediction of its service open.
THEOREM RecordIsComplete == Spec => RecordsAllOpen
<1>1. ASSUME IInv, [Next]_vars,
             NEW a \in Agent, at[a] # "idle", at'[a] = "idle", size[a] = count,
             NEW p \in 1..count, info[p].service = incident[a]
      PROVE  outcome[p] # "pending"
  <2>1. at \in [Resolver -> {"idle", "scan", "set", "feed", "learn"}] /\ a \in Resolver
    BY <1>1, Constants DEF IInv, ResolverTypes
  <2>2. Resolve(a)
    BY <1>1, <2>1, PredictionsAssumption DEF Next, Loop, Start, LoopTop, Wake, CancelTask, Stop,
         Cycle, Store, BeginExpire, EndCycle, Record, Mark, Tick, Resolve, Scan, SetOutcome,
         BeginCycle, ReadOutcome, FeedCalibration, vars, resolvers
  <2>3. at[a] = "scan" /\ pos[a] = count
    BY <1>1, <2>1, <2>2, PredictionsAssumption DEF Resolve, Scan, SetOutcome, ReadOutcome,
         FeedCalibration, GoesOn
  <2> QED
    BY <1>1, <2>3 DEF IInv, ScanInv, Behind
<1>2. IInv /\ [Next]_vars =>
        [\A a \in Agent : at[a] # "idle" /\ at'[a] = "idle" /\ size[a] = count =>
           \A p \in 1..count : info[p].service = incident[a] => outcome[p] # "pending"]_vars
  BY <1>1
<1> QED
  BY <1>2, Invariance, PTL DEF Spec, RecordsAllOpen

\* A cycle begins only while the loop waits for it, however long it was queued: not
\* after stop has given up on the loop, and not after the loop has ended.
THEOREM StopEndsCycles == Spec => StopIsFinal
<1>1. IInv /\ [Next]_vars => [Begins => task = "await"]_vars
  BY DEF IInv, CycleInv, RunnerTypes, Begins, Next, Loop, Start, LoopTop, Wake, CancelTask, Stop,
       Cycle, BeginCycle, Store, BeginExpire, EndCycle, Record, Mark, Tick, Resolve, Scan,
       SetOutcome, ReadOutcome, FeedCalibration, vars, runner
<1> QED
  BY <1>1, Invariance, PTL DEF Spec, StopIsFinal
=============================================================================
