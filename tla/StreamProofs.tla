---------------------------- MODULE StreamProofs ----------------------------
(***************************************************************************)
(* Theorems about the two ways the events of an investigation reach a      *)
(* browser: live over the bus and the WebSocket (EventStream) and again    *)
(* from a snapshot (ReplayEngine).                                         *)
(***************************************************************************)
EXTENDS EventStream, ReplayEngine, FiniteSetTheorems, SequenceTheorems, TLAPS

(***************************************************************************)
(* EventStream                                                             *)
(***************************************************************************)

\* What the bus has of the events: the keys it remembers and the event it broadcasts
\* belong to stored events, and the table is no more than the memory until a restart.
BusInv ==
  /\ \A i \in 1..Len(seen) : \E d \in ToSet(mem) : Key(d) = seen[i]
  /\ taken # NoEvent => taken \in ToSet(mem)
  /\ IsFiniteSet(table)
  /\ restarts = 0 => table \subseteq ToSet(mem)
  /\ NoEventLost

\* The remembered keys are those of the newest stored events, each once; and when they
\* are not all, they are more than a trim leaves out.
Window ==
  /\ Len(seen) <= Len(mem)
  /\ \A i \in 1..Len(seen) : seen[i] = Key(mem[Len(mem) - Len(seen) + i])
  /\ \A i, j \in 1..Len(seen) : seen[i] = seen[j] => i = j
  /\ Len(seen) < Len(mem) => Len(seen) > SeenMax - SeenTrim
  /\ DedupWindow

\* A connection is subscribed, once, from its acknowledgement until it is gone, and
\* replays stored events only.
ConnInv ==
  /\ \A c \in Client : link[c] \in {0, conns[c]} /\ (conns[c] = 0 => lastSeq[c] = 0)
  /\ \A k \in Connection :
       /\ k[2] > conns[k[1]] <=> phase[k] = "new"
       /\ phase[k] \in {"ack", "replay", "open"} <=> k \in ToSet(subs)
       /\ k[2] = 1 => since[k] = 0
       /\ phase[k] = "open" => backlog[k] = <<>>
       /\ ToSet(backlog[k]) \subseteq ToSet(mem) \cup table
  /\ \A i, j \in 1..Len(subs) : subs[i] = subs[j] => i = j

\* A client on its first connection has received each stored event, or will replay it,
\* or is one of those it is being broadcast to.
Joined(c) == restarts = 0 /\ conns[c] = 1 /\ link[c] = 1

Has(c, e) == \/ e \in ToSet(recv[c]) \cup ToSet(backlog[<<c, 1>>])
             \/ e = taken /\ <<c, 1>> \in ToSet(todo)

FirstInv ==
  \A c \in Client : Joined(c) =>
    /\ phase[<<c, 1>>] # "gone"
    /\ phase[<<c, 1>>] \in {"replay", "open"} => \A e \in ToSet(mem) : Has(c, e)

StreamInv == TypeOK /\ BusInv /\ (Dynamo => Window) /\ ConnInv /\ FirstInv

----------------------------------------------------------------------------
(* The elements of a sequence *)

LEMMA Elements ==
  ASSUME NEW S, NEW s \in Seq(S)
  PROVE  /\ ToSet(s) \subseteq S
         /\ \A e : e \in ToSet(s) <=> \E i \in 1..Len(s) : s[i] = e
         /\ \A e : Contains(s, e) <=> e \in ToSet(s)
         /\ ToSet(s) = {} <=> s = <<>>
<1>1. DOMAIN s = 1..Len(s) /\ \A i \in 1..Len(s) : s[i] \in S
  OBVIOUS
<1>2. ToSet(s) = {s[i] : i \in 1..Len(s)}
  BY <1>1 DEF ToSet
<1>3. s = <<>> <=> ~(1 \in 1..Len(s))
  OBVIOUS
<1>4. s = <<>> => \A i \in 1..Len(s) : FALSE
  OBVIOUS
<1> QED
  BY <1>1, <1>2, <1>3, <1>4 DEF Contains

LEMMA AppendElements ==
  ASSUME NEW S, NEW s \in Seq(S), NEW x \in S
  PROVE  Append(s, x) \in Seq(S) /\ ToSet(Append(s, x)) = ToSet(s) \cup {x}
<1>1. /\ Append(s, x) \in Seq(S) /\ Len(Append(s, x)) = Len(s) + 1 /\ Len(s) \in Nat
      /\ \A i \in 1..Len(s) : Append(s, x)[i] = s[i]
      /\ Append(s, x)[Len(s) + 1] = x
  OBVIOUS
<1>2. \A e : e \in ToSet(Append(s, x)) <=> \E i \in 1..(Len(s) + 1) : Append(s, x)[i] = e
  BY <1>1, Elements
<1>3. \A e : e \in ToSet(s) <=> \E i \in 1..Len(s) : s[i] = e
  BY Elements
<1>4. ASSUME NEW e PROVE e \in ToSet(Append(s, x)) <=> e \in ToSet(s) \/ e = x
  <2>1. ASSUME e \in ToSet(Append(s, x)) PROVE e \in ToSet(s) \/ e = x
    <3>1. PICK i \in 1..(Len(s) + 1) : Append(s, x)[i] = e
      BY <2>1, <1>2
    <3>2. i \in 1..Len(s) \/ i = Len(s) + 1
      BY <1>1
    <3> QED
      BY <1>1, <1>3, <3>1, <3>2
  <2>2. \A i \in 1..Len(s) : i \in 1..(Len(s) + 1)
    BY <1>1
  <2>3. Len(s) + 1 \in 1..(Len(s) + 1)
    BY <1>1
  <2> QED
    BY <1>1, <1>2, <1>3, <2>1, <2>2, <2>3
<1> QED
  BY <1>1, <1>4

LEMMA TailElements ==
  ASSUME NEW S, NEW s \in Seq(S), s # <<>>
  PROVE  /\ Head(s) \in S /\ Tail(s) \in Seq(S) /\ Len(Tail(s)) = Len(s) - 1
         /\ ToSet(s) = {Head(s)} \cup ToSet(Tail(s))
<1>1. /\ Head(s) \in S /\ Head(s) = s[1] /\ Tail(s) \in Seq(S) /\ Len(Tail(s)) = Len(s) - 1
      /\ Len(s) \in Nat /\ Len(s) > 0
      /\ \A i \in 1..(Len(s) - 1) : Tail(s)[i] = s[i + 1]
  OBVIOUS
<1>2. \A e : e \in ToSet(Tail(s)) <=> \E i \in 1..(Len(s) - 1) : Tail(s)[i] = e
  BY <1>1, Elements
<1>3. \A e : e \in ToSet(s) <=> \E i \in 1..Len(s) : s[i] = e
  BY Elements
<1>4. ASSUME NEW e PROVE e \in ToSet(s) <=> e \in ToSet(Tail(s)) \/ e = Head(s)
  <2>1. ASSUME e \in ToSet(s) PROVE e \in ToSet(Tail(s)) \/ e = Head(s)
    <3>1. PICK i \in 1..Len(s) : s[i] = e
      BY <2>1, <1>3
    <3>2. i = 1 \/ (i - 1 \in 1..(Len(s) - 1) /\ i - 1 + 1 = i)
      BY <1>1
    <3> QED
      BY <1>1, <1>2, <3>1, <3>2
  <2>2. \A i \in 1..(Len(s) - 1) : i + 1 \in 1..Len(s)
    BY <1>1
  <2>3. 1 \in 1..Len(s)
    BY <1>1
  <2> QED
    BY <1>1, <1>2, <1>3, <2>1, <2>2, <2>3
<1> QED
  BY <1>1, <1>4

\* What is left of a sequence when the only e, at position p, is removed.
LEMMA RemoveOnly ==
  ASSUME NEW S, NEW s \in Seq(S), NEW e, NEW p \in 1..Len(s),
         \A k \in 1..Len(s) : s[k] = e <=> k = p
  PROVE  /\ RemoveFirst(s, e) \in Seq(S)
         /\ Len(RemoveFirst(s, e)) = Len(s) - 1
         /\ \A k \in 1..(Len(s) - 1) :
              RemoveFirst(s, e)[k] = IF k < p THEN s[k] ELSE s[k + 1]
<1>1. SelectInSeq(s, LAMBDA v : v = e) = p
  <2> DEFINE I == {i \in 1..Len(s) : s[i] = e}
  <2>1. I = {p}
    OBVIOUS
  <2>2. Min({p}) = p
    BY DEF Min
  <2> QED
    BY <2>1, <2>2 DEF SelectInSeq
<1>2. RemoveFirst(s, e) = SubSeq(s, 1, p - 1) \o SubSeq(s, p + 1, Len(s))
  BY <1>1 DEF RemoveFirst, RemoveAt
<1>3. \A k \in 1..Len(s) : s[k] \in S
  BY ElementOfSeq
<1>4. /\ SubSeq(s, 1, p - 1) \in Seq(S) /\ Len(SubSeq(s, 1, p - 1)) = p - 1
      /\ \A k \in 1..(p - 1) : SubSeq(s, 1, p - 1)[k] = s[k]
  BY <1>3, SubSeqProperties
<1>5. /\ SubSeq(s, p + 1, Len(s)) \in Seq(S) /\ Len(SubSeq(s, p + 1, Len(s))) = Len(s) - p
      /\ \A k \in 1..(Len(s) - p) : SubSeq(s, p + 1, Len(s))[k] = s[p + k]
  <2>1. p + 1 \in Int /\ Len(s) \in Int /\ \A k \in (p + 1)..Len(s) : s[k] \in S
    BY <1>3
  <2> QED
    BY <2>1, SubSeqProperties
<1> DEFINE lo == SubSeq(s, 1, p - 1)
           hi == SubSeq(s, p + 1, Len(s))
<1>6. lo \in Seq(S) /\ Len(lo) = p - 1 /\ \A k \in 1..(p - 1) : lo[k] = s[k]
  BY <1>4
<1>7. hi \in Seq(S) /\ Len(hi) = Len(s) - p /\ \A k \in 1..(Len(s) - p) : hi[k] = s[p + k]
  BY <1>5
<1> HIDE DEF lo, hi
<1>8. /\ lo \o hi \in Seq(S) /\ Len(lo \o hi) = Len(s) - 1
      /\ \A k \in 1..(Len(s) - 1) : (lo \o hi)[k] = IF k < p THEN lo[k] ELSE hi[k - (p - 1)]
  <2>1. /\ Len(lo) + Len(hi) = Len(s) - 1 /\ Len(lo) \in Nat /\ Len(hi) \in Nat
        /\ \A k \in 1..(Len(s) - 1) : k <= Len(lo) <=> k < p
    BY <1>6, <1>7
  <2>2. /\ lo \o hi \in Seq(S) /\ Len(lo \o hi) = Len(lo) + Len(hi)
        /\ \A k \in 1..(Len(lo) + Len(hi)) :
             (lo \o hi)[k] = IF k <= Len(lo) THEN lo[k] ELSE hi[k - Len(lo)]
    BY <1>6, <1>7, ConcatProperties
  <2> QED
    BY <1>6, <2>1, <2>2
<1>9. \A k \in 1..(Len(s) - 1) : (lo \o hi)[k] = IF k < p THEN s[k] ELSE s[k + 1]
  BY <1>6, <1>7, <1>8
<1> QED
  BY <1>2, <1>8, <1>9 DEF lo, hi

\* A sequence without repetitions loses an element, and only that, when it is removed.
LEMMA RemovedElements ==
  ASSUME NEW S, NEW s \in Seq(S), NEW x \in ToSet(s),
         \A i, j \in 1..Len(s) : s[i] = s[j] => i = j
  PROVE  /\ RemoveFirst(s, x) \in Seq(S)
         /\ ToSet(RemoveFirst(s, x)) = ToSet(s) \ {x}
         /\ \A i, j \in 1..Len(RemoveFirst(s, x)) :
              RemoveFirst(s, x)[i] = RemoveFirst(s, x)[j] => i = j
<1> DEFINE n == Len(s)
           r == RemoveFirst(s, x)
<1>1. n \in Nat /\ \A i \in 1..n : s[i] \in S
  BY ElementOfSeq
<1>2. PICK p \in 1..n : s[p] = x
  BY Elements
<1>3. \A i \in 1..n : s[i] = x <=> i = p
  BY <1>2
<1>4. r \in Seq(S) /\ Len(r) = n - 1
      /\ \A k \in 1..(n - 1) : r[k] = IF k < p THEN s[k] ELSE s[k + 1]
  <2>1. p \in 1..Len(s) /\ \A k \in 1..Len(s) : s[k] = x <=> k = p
    BY <1>3
  <2>2. /\ RemoveFirst(s, x) \in Seq(S) /\ Len(RemoveFirst(s, x)) = Len(s) - 1
        /\ \A k \in 1..(Len(s) - 1) :
             RemoveFirst(s, x)[k] = IF k < p THEN s[k] ELSE s[k + 1]
    BY <2>1, RemoveOnly
  <2> QED
    BY <2>2
<1> HIDE DEF r
<1>5. ASSUME NEW e PROVE e \in ToSet(r) <=> e \in ToSet(s) /\ e # x
  <2>1. e \in ToSet(r) <=> \E k \in 1..(n - 1) : r[k] = e
    BY <1>4, Elements
  <2>2. e \in ToSet(s) <=> \E i \in 1..n : s[i] = e
    BY Elements
  <2>3. ASSUME NEW k \in 1..(n - 1)
        PROVE  \E i \in 1..n : i # p /\ s[i] = r[k]
    BY <1>1, <1>4
  <2>4. ASSUME NEW i \in 1..n, i # p
        PROVE  \E k \in 1..(n - 1) : r[k] = s[i]
    <3>1. CASE i < p
      <4>1. i \in 1..(n - 1) /\ r[i] = s[i]
        BY <1>1, <1>4, <3>1
      <4> QED
        BY <4>1
    <3>2. CASE i > p
      <4>1. i - 1 \in 1..(n - 1) /\ r[i - 1] = s[i]
        BY <1>1, <1>4, <3>2
      <4> QED
        BY <4>1
    <3> QED
      BY <1>1, <2>4, <3>1, <3>2
  <2>5. ASSUME e \in ToSet(r) PROVE e \in ToSet(s) /\ e # x
    <3>1. PICK k \in 1..(n - 1) : r[k] = e
      BY <2>1, <2>5
    <3>2. PICK i \in 1..n : i # p /\ s[i] = r[k]
      BY <2>3
    <3> QED
      BY <1>3, <2>2, <3>1, <3>2
  <2>6. ASSUME e \in ToSet(s) /\ e # x PROVE e \in ToSet(r)
    <3>1. PICK i \in 1..n : s[i] = e
      BY <2>2, <2>6
    <3> QED
      BY <1>3, <2>1, <2>4, <2>6, <3>1
  <2> QED
    BY <2>5, <2>6
<1>6. \A i, j \in 1..Len(r) : r[i] = r[j] => i = j
  <2> DEFINE at(k) == IF k < p THEN k ELSE k + 1
  <2>1. \A k \in 1..(n - 1) : at(k) \in 1..n /\ r[k] = s[at(k)]
    BY <1>1, <1>4
  <2>2. \A i, j \in 1..(n - 1) : at(i) = at(j) => i = j
    BY <1>1
  <2> HIDE DEF at
  <2> QED
    BY <1>4, <2>1, <2>2
<1> QED
  BY <1>4, <1>5, <1>6 DEF r

----------------------------------------------------------------------------
(* The bus *)

LEMMA StreamInitially == Init => StreamInv
<1> SUFFICES ASSUME Init PROVE StreamInv
  OBVIOUS
<1>1. ToSet(<<>>) = {} /\ Len(<<>>) = 0
  BY DEF ToSet
<1>2. TypeOK
  BY BoundAssumption DEF Init, TypeOK, Phase, Connection
<1>3. BusInv
  BY <1>1, FS_EmptySet DEF Init, BusInv, NoEventLost
<1>4. Window
  BY <1>1, EventAssumption DEF Init, Window, DedupWindow
<1>5. ConnInv
  <2>1. ASSUME NEW k \in Connection PROVE k[1] \in Client /\ k[2] \in Nat /\ k[2] > 0
    BY BoundAssumption DEF Connection
  <2> QED
    BY <1>1, <2>1 DEF Init, ConnInv
<1>6. FirstInv
  BY DEF Init, FirstInv, Joined
<1> QED
  BY <1>2, <1>3, <1>4, <1>5, <1>6 DEF StreamInv

LEMMA WindowStays ==
  ASSUME Dynamo => Window, UNCHANGED <<seen, mem>>
  PROVE  (Dynamo => Window)'
<1>1. DedupWindow => DedupWindow'
  BY DEF DedupWindow, Key
<1> QED
  BY <1>1 DEF Window, Key

\* Events that are published are in the bus from then on.
LEMMA PublishStep ==
  ASSUME StreamInv, NEW e \in Event, Publish(e) \/ PutWaiting(e)
  PROVE  StreamInv'
<1>1. UNCHANGED <<seen, taken, todo, subs, storeVars, serverVars, clientVars, restarts>>
  BY DEF Publish, PutWaiting
<1>2. /\ queue \in Seq(Event) /\ Len(queue) <= QueueMax /\ QueueMax \in Nat
      /\ putters \subseteq published /\ published \subseteq Event
  BY BoundAssumption DEF StreamInv, TypeOK
<1>3. /\ published' \subseteq published \cup {e} /\ published' \subseteq Event
      /\ putters' \subseteq published' /\ published \subseteq published'
      /\ queue' \in Seq(Event) /\ Len(queue') <= QueueMax
      /\ InBus \cup (published' \ published) \subseteq InBus'
  <2>1. Append(queue, e) \in Seq(Event) /\ ToSet(Append(queue, e)) = ToSet(queue) \cup {e}
    BY <1>2, AppendElements
  <2>2. Len(queue) < QueueMax => Len(Append(queue, e)) <= QueueMax
    BY <1>2
  <2> QED
    BY <1>2, <2>1, <2>2 DEF Publish, PutWaiting, Enqueue, InBus
<1>4. TypeOK'
  BY <1>1, <1>3 DEF StreamInv, TypeOK, storeVars, serverVars, clientVars
<1>5. BusInv'
  BY <1>1, <1>3 DEF StreamInv, BusInv, NoEventLost, Key, storeVars
<1>6. (Dynamo => Window)'
  BY <1>1, WindowStays DEF StreamInv, storeVars
<1>7. ConnInv' /\ FirstInv'
  BY <1>1 DEF StreamInv, ConnInv, FirstInv, Joined, Has, storeVars, serverVars, clientVars
<1> QED
  BY <1>4, <1>5, <1>6, <1>7 DEF StreamInv

LEMMA FinishStep ==
  ASSUME StreamInv, FinishEvent
  PROVE  StreamInv'
<1>1. /\ UNCHANGED <<published, queue, putters, seen, todo, subs, storeVars, serverVars, clientVars,
                     restarts>>
      /\ taken' = NoEvent /\ todo = <<>>
  BY DEF FinishEvent
<1>2. TypeOK'
  BY <1>1 DEF StreamInv, TypeOK, storeVars, serverVars, clientVars
<1>3. BusInv'
  BY <1>1 DEF StreamInv, BusInv, NoEventLost, InBus, Key, storeVars
<1>4. (Dynamo => Window)'
  BY <1>1, WindowStays DEF StreamInv, storeVars
<1>5. ConnInv'
  BY <1>1 DEF StreamInv, ConnInv, storeVars, serverVars, clientVars
<1>6. FirstInv'
  <2>1. ToSet(todo) = {}
    BY <1>1, Elements DEF StreamInv, TypeOK
  <2> QED
    BY <1>1, <2>1 DEF StreamInv, FirstInv, Joined, Has, storeVars, serverVars, clientVars
<1> QED
  BY <1>2, <1>3, <1>4, <1>5, <1>6 DEF StreamInv

\* What is stored of an event that is taken.
LEMMA Stored ==
  ASSUME StreamInv, NEW e \in Event, StoreEvent(e)
  PROVE  /\ mem' \in Seq(Event) /\ ToSet(mem') = ToSet(mem) \cup {e}
         /\ table \subseteq table' /\ table' \subseteq table \cup {e}
         /\ Dynamo => mem' = Append(mem, e)
<1>1. mem \in Seq(Event)
  BY DEF StreamInv, TypeOK
<1>2. table' \in {table, table \cup {e}} /\ (Dynamo => mem' = Append(mem, e))
  BY ModeAssumption DEF StoreEvent
<1>3. CASE Dynamo
  <2>1. Append(mem, e) \in Seq(Event) /\ ToSet(Append(mem, e)) = ToSet(mem) \cup {e}
    BY <1>1, AppendElements
  <2> QED
    BY <1>2, <1>3, <2>1
<1>4. CASE ~Dynamo
  <2> DEFINE once == Append(mem, e)
  <2>1. once \in Seq(Event) /\ ToSet(once) = ToSet(mem) \cup {e}
    BY <1>1, AppendElements
  <2> HIDE DEF once
  <2>2. Append(once, e) \in Seq(Event) /\ ToSet(Append(once, e)) = ToSet(once) \cup {e}
    BY <2>1, AppendElements
  <2>3. mem \o <<e, e>> = Append(once, e)
    BY <1>1 DEF once
  <2> QED
    BY <1>2, <1>4, <2>1, <2>2, <2>3 DEF StoreEvent
<1> QED
  BY <1>3, <1>4

\* The keys remembered after one more, k: those of Append(seen, k) from some position on.
LEMMA Remembered ==
  ASSUME StreamInv, NEW k \in Nat
  PROVE  /\ Remember(k) \in Seq(Nat) /\ Len(Remember(k)) <= SeenMax
         /\ \E d \in {0, SeenTrim} :
              /\ Len(Remember(k)) = Len(seen) + 1 - d
              /\ d = 0 \/ Len(Remember(k)) > SeenMax - SeenTrim
              /\ \A i \in 1..(Len(seen) + 1 - d) : Remember(k)[i] = Append(seen, k)[d + i]
<1> DEFINE s == Append(seen, k)
<1>1. seen \in Seq(Nat) /\ Len(seen) \in Nat /\ Len(seen) <= SeenMax
  BY DEF StreamInv, TypeOK
<1>2. s \in Seq(Nat) /\ Len(s) = Len(seen) + 1 /\ \A i \in 1..(Len(seen) + 1) : s[i] \in Nat
  BY <1>1
<1>3. SeenMax \in Nat /\ SeenTrim \in Nat /\ SeenTrim >= 1 /\ SeenTrim <= SeenMax
  BY BoundAssumption
<1> HIDE DEF s
<1>4. CASE Len(s) > SeenMax
  <2>1. Remember(k) = SubSeq(s, SeenTrim + 1, Len(seen) + 1)
    BY <1>2, <1>4 DEF Remember, s
  <2>2. Len(seen) = SeenMax
    BY <1>1, <1>2, <1>3, <1>4
  <2>3. /\ SeenTrim + 1 \in Int /\ Len(seen) + 1 \in Int
        /\ \A i \in (SeenTrim + 1)..(Len(seen) + 1) : s[i] \in Nat
    BY <1>1, <1>2, <1>3
  <2>4. /\ Remember(k) \in Seq(Nat) /\ Len(Remember(k)) = Len(seen) + 1 - SeenTrim
        /\ \A i \in 1..(Len(seen) + 1 - SeenTrim) : Remember(k)[i] = s[SeenTrim + i]
    <3> HIDE DEF Remember
    <3>1. /\ Remember(k) \in Seq(Nat)
          /\ Len(Remember(k)) = IF SeenTrim + 1 <= Len(seen) + 1
                                  THEN (Len(seen) + 1) - (SeenTrim + 1) + 1 ELSE 0
          /\ \A i \in 1..((Len(seen) + 1) - (SeenTrim + 1) + 1) :
               Remember(k)[i] = s[(SeenTrim + 1) + i - 1]
      BY <2>1, <2>3, SubSeqProperties
    <3>2. (Len(seen) + 1) - (SeenTrim + 1) + 1 = Len(seen) + 1 - SeenTrim
      BY <1>1, <1>3
    <3>3. \A i \in Nat : (SeenTrim + 1) + i - 1 = SeenTrim + i
      BY <1>3
    <3> QED
      BY <1>3, <2>2, <3>1, <3>2, <3>3
  <2>5. Len(Remember(k)) <= SeenMax /\ Len(Remember(k)) > SeenMax - SeenTrim
    BY <1>3, <2>2, <2>4
  <2> QED
    BY <2>4, <2>5 DEF s
<1>5. CASE ~(Len(s) > SeenMax)
  <2>1. Remember(k) = s
    BY <1>5 DEF Remember, s
  <2>2. \A i \in 1..(Len(seen) + 1) : 0 + i = i
    BY <1>1
  <2> QED
    BY <1>1, <1>2, <1>3, <1>5, <2>1, <2>2 DEF s
<1> QED
  BY <1>4, <1>5

\* An event whose key is no longer remembered is far from the next one of its key: all
\* remembered keys came between.
LEMMA RepeatsAreFar ==
  ASSUME StreamInv, Window, NEW i \in 1..Len(mem),
         \A n \in 1..Len(seen) : seen[n] # Key(mem[i])
  PROVE  Cardinality({Key(mem[n]) : n \in (i + 1)..Len(mem)}) > SeenMax - SeenTrim
<1> DEFINE L == Len(seen)
           M == Len(mem)
           T == {Key(mem[n]) : n \in (i + 1)..M}
<1>1. /\ seen \in Seq(Nat) /\ mem \in Seq(Event) /\ L \in Nat /\ M \in Nat
      /\ SeenMax \in Nat /\ SeenTrim \in Nat
  BY BoundAssumption DEF StreamInv, TypeOK
<1>2. L <= M /\ \A n \in 1..L : seen[n] = Key(mem[M - L + n])
  BY DEF Window
<1> HIDE DEF L, M
<1>3. i <= M - L
  <2>1. SUFFICES ASSUME i > M - L PROVE FALSE
    BY <1>1 DEF M
  <2>2. i - (M - L) \in 1..L /\ M - L + (i - (M - L)) = i
    BY <1>1, <2>1 DEF M
  <2>3. seen[i - (M - L)] = Key(mem[i])
    BY <1>2, <2>2
  <2> QED
    BY <2>2, <2>3 DEF L
<1>4. L > SeenMax - SeenTrim
  <2>1. L < M
    BY <1>1, <1>3 DEF M
  <2> QED
    BY <2>1 DEF Window, L, M
<1>5. IsFiniteSet(T)
  <2> DEFINE f == [n \in (i + 1)..M |-> Key(mem[n])]
  <2>1. f \in Surjection((i + 1)..M, T)
    BY DEF Surjection
  <2>2. IsFiniteSet((i + 1)..M)
    BY <1>1, FS_Interval
  <2> HIDE DEF f, T
  <2> QED
    BY <2>1, <2>2, FS_Surjection
<1>6. seen \in Injection(1..L, T)
  <2>1. \A n \in 1..L : seen[n] \in T
    <3> SUFFICES ASSUME NEW n \in 1..L PROVE seen[n] \in T
      OBVIOUS
    <3>1. M - L + n \in (i + 1)..M
      BY <1>1, <1>2, <1>3
    <3> QED
      BY <1>2, <3>1
  <2>2. seen = [n \in 1..L |-> seen[n]]
    BY <1>1 DEF L
  <2>3. seen \in [1..L -> T]
    BY <2>1, <2>2
  <2>4. \A m, n \in 1..L : seen[m] = seen[n] => m = n
    BY DEF Window, L
  <2> QED
    BY <2>3, <2>4 DEF Injection, IsInjective
<1>7. Cardinality(1..L) <= Cardinality(T) /\ Cardinality(1..L) = L
  <2> HIDE DEF T
  <2>1. Cardinality(1..L) <= Cardinality(T)
    BY <1>5, <1>6, FS_Injection
  <2> QED
    BY <1>1, <2>1, FS_Interval
<1>8. Cardinality(T) \in Nat
  BY <1>5, FS_CardinalityType
<1> QED
  BY <1>1, <1>4, <1>7, <1>8 DEF M

\* A new key keeps the window.
LEMMA WindowMoves ==
  ASSUME StreamInv, Window, NEW e \in Event, mem' = Append(mem, e), seen' = Remember(Key(e)),
         \A n \in 1..Len(seen) : seen[n] # Key(e)
  PROVE  Window'
<1> DEFINE L == Len(seen)
           M == Len(mem)
           s == Append(seen, Key(e))
<1>1. /\ seen \in Seq(Nat) /\ mem \in Seq(Event) /\ L \in Nat /\ M \in Nat /\ L <= M
      /\ SeenMax \in Nat /\ SeenTrim \in Nat /\ Key(e) \in Nat
  BY BoundAssumption, EventAssumption DEF StreamInv, TypeOK, Window, Key
<1>2. PICK d \in {0, SeenTrim} :
        /\ Len(seen') = L + 1 - d
        /\ d = 0 \/ Len(seen') > SeenMax - SeenTrim
        /\ \A i \in 1..(L + 1 - d) : seen'[i] = s[d + i]
  BY <1>1, Remembered
<1>3. seen' \in Seq(Nat) /\ Len(seen') \in Nat /\ d \in Nat
  <2>1. Remember(Key(e)) \in Seq(Nat)
    BY <1>1, Remembered
  <2> QED
    BY <1>1, <2>1
<1>4. /\ mem' \in Seq(Event) /\ Len(mem') = M + 1 /\ mem'[M + 1] = e
      /\ \A i \in 1..M : mem'[i] = mem[i]
  BY <1>1
<1>5. /\ Len(s) = L + 1 /\ s[L + 1] = Key(e)
      /\ \A i \in 1..L : s[i] = seen[i]
  BY <1>1
<1> HIDE DEF s
<1>6. \A i \in 1..(L + 1) : s[i] = Key(mem'[M - L + i])
  <2>1. ASSUME NEW i \in 1..L PROVE s[i] = Key(mem'[M - L + i])
    <3>1. M - L + i \in 1..M
      BY <1>1
    <3>2. seen[i] = Key(mem[M - L + i])
      BY DEF Window
    <3> QED
      BY <1>4, <1>5, <3>1, <3>2
  <2>2. M - L + (L + 1) = M + 1
    BY <1>1
  <2>3. s[L + 1] = Key(mem'[M - L + (L + 1)])
    BY <1>4, <1>5, <2>2
  <2>4. \A i \in 1..(L + 1) : i \in 1..L \/ i = L + 1
    BY <1>1
  <2> QED
    BY <2>1, <2>3, <2>4
<1>7. \A i, j \in 1..(L + 1) : s[i] = s[j] => i = j
  <2>1. \A i, j \in 1..L : seen[i] = seen[j] => i = j
    BY DEF Window
  <2>2. \A i \in 1..(L + 1) : i \in 1..L \/ i = L + 1
    BY <1>1
  <2> QED
    BY <1>5, <2>1, <2>2
<1>8. Len(seen') <= Len(mem') /\ (Len(seen') < Len(mem') => Len(seen') > SeenMax - SeenTrim)
  <2>1. Len(seen') <= Len(mem')
    BY <1>1, <1>2, <1>3, <1>4
  <2>2. ASSUME d = 0, Len(seen') < Len(mem') PROVE Len(seen') > SeenMax - SeenTrim
    <3>1. L < M
      BY <1>1, <1>2, <1>4, <2>2
    <3>2. L > SeenMax - SeenTrim
      BY <3>1 DEF Window
    <3> QED
      BY <1>1, <1>2, <2>2, <3>2
  <2> QED
    BY <1>2, <2>1, <2>2
<1>9. ASSUME NEW i \in 1..Len(seen') PROVE seen'[i] = Key(mem'[Len(mem') - Len(seen') + i])
  <2>1. d + i \in 1..(L + 1) /\ M - L + (d + i) = Len(mem') - Len(seen') + i
    BY <1>1, <1>2, <1>3, <1>4
  <2> QED
    BY <1>2, <1>6, <2>1
<1>10. \A i, j \in 1..Len(seen') : seen'[i] = seen'[j] => i = j
  <2>1. \A i \in 1..Len(seen') : d + i \in 1..(L + 1) /\ seen'[i] = s[d + i]
    BY <1>1, <1>2, <1>3
  <2>2. \A i, j \in 1..Len(seen') : d + i = d + j => i = j
    BY <1>3
  <2> QED
    BY <1>7, <2>1, <2>2
<1>11. DedupWindow'
  <2> SUFFICES ASSUME Dynamo, NEW i \in 1..(M + 1), NEW j \in 1..(M + 1),
                      i < j, Key(mem'[i]) = Key(mem'[j])
               PROVE  Cardinality({Key(mem'[n]) : n \in (i + 1)..(j - 1)}) > SeenMax - SeenTrim
    <3>1. DOMAIN mem' = 1..(M + 1)
      BY <1>4
    <3> QED
      BY <3>1 DEF DedupWindow, Key
  <2>1. i \in 1..M /\ \A n \in (i + 1)..(j - 1) : n \in 1..M
    BY <1>1
  <2>2. {Key(mem'[n]) : n \in (i + 1)..(j - 1)} = {Key(mem[n]) : n \in (i + 1)..(j - 1)}
    BY <1>4, <2>1
  <2>3. CASE j = M + 1
    <3>1. Key(mem[i]) = Key(e) /\ j - 1 = M
      BY <1>1, <1>4, <2>1, <2>3
    <3>2. Cardinality({Key(mem[n]) : n \in (i + 1)..M}) > SeenMax - SeenTrim
      BY <2>1, <3>1, RepeatsAreFar
    <3> QED
      BY <2>2, <3>1, <3>2
  <2>4. CASE j # M + 1
    <3>1. j \in 1..M /\ 1..M = DOMAIN mem
      BY <1>1, <2>4
    <3>2. Key(mem[i]) = Key(mem[j])
      BY <1>4, <2>1, <3>1
    <3>3. Cardinality({Key(mem[n]) : n \in (i + 1)..(j - 1)}) > SeenMax - SeenTrim
      BY <2>1, <3>1, <3>2 DEF Window, DedupWindow
    <3> QED
      BY <2>2, <3>3
  <2> QED
    BY <2>3, <2>4
<1> QED
  BY <1>8, <1>9, <1>10, <1>11 DEF Window, Key

LEMMA TakeStep ==
  ASSUME StreamInv, Take
  PROVE  StreamInv'
<1>1. /\ taken = NoEvent /\ queue # <<>> /\ queue' = Tail(queue)
      /\ UNCHANGED <<published, putters, subs, serverVars, clientVars, restarts>>
  BY DEF Take
<1>2. PICK e \in Event : e = Head(queue)
  BY <1>1, TailElements DEF StreamInv, TypeOK
<1>3. /\ e \in Event /\ queue' \in Seq(Event) /\ Len(queue') = Len(queue) - 1
      /\ ToSet(queue) = {e} \cup ToSet(queue') /\ Len(queue) \in Nat
      /\ seen \in Seq(Nat) /\ mem \in Seq(Event) /\ subs \in Seq(Connection) /\ QueueMax \in Nat
      /\ Len(queue) <= QueueMax
  BY <1>1, <1>2, TailElements, BoundAssumption DEF StreamInv, TypeOK
<1>4. InBus \subseteq InBus' \cup {e}
  BY <1>1, <1>3 DEF InBus
<1>5. CASE Contains(seen, Key(e)) /\ UNCHANGED <<seen, taken, todo, storeVars>>
  <2>1. TypeOK'
    BY <1>1, <1>3, <1>5 DEF StreamInv, TypeOK, storeVars, serverVars, clientVars
  <2>2. \E d \in ToSet(mem) : Key(d) = Key(e)
    BY <1>3, <1>5 DEF StreamInv, BusInv, Contains
  <2>3. BusInv'
    BY <1>1, <1>4, <1>5, <2>2 DEF StreamInv, BusInv, NoEventLost, Key, storeVars
  <2>4. (Dynamo => Window)'
    BY <1>5, WindowStays DEF StreamInv, storeVars
  <2>5. ConnInv' /\ FirstInv'
    BY <1>1, <1>5 DEF StreamInv, ConnInv, FirstInv, Joined, Has, storeVars, serverVars, clientVars
  <2> QED
    BY <2>1, <2>3, <2>4, <2>5 DEF StreamInv
<1>6. CASE /\ ~Contains(seen, Key(e)) /\ seen' = Remember(Key(e)) /\ StoreEvent(e)
           /\ todo' = subs /\ taken' = e
  <2>1. /\ mem' \in Seq(Event) /\ ToSet(mem') = ToSet(mem) \cup {e}
        /\ table \subseteq table' /\ table' \subseteq table \cup {e}
        /\ Dynamo => mem' = Append(mem, e)
    BY <1>3, <1>6, Stored
  <2>2. Key(e) \in Nat
    BY <1>3, EventAssumption DEF Key
  <2>3. /\ seen' \in Seq(Nat) /\ Len(seen') <= SeenMax
        /\ \A i \in 1..Len(seen') : seen'[i] = Key(e) \/ \E n \in 1..Len(seen) : seen'[i] = seen[n]
    <3>1. Remember(Key(e)) \in Seq(Nat) /\ Len(Remember(Key(e))) <= SeenMax
      BY <2>2, Remembered
    <3>2. PICK d \in {0, SeenTrim} :
            /\ Len(seen') = Len(seen) + 1 - d
            /\ \A i \in 1..(Len(seen) + 1 - d) : seen'[i] = Append(seen, Key(e))[d + i]
      BY <1>6, <2>2, Remembered
    <3>3. d \in Nat /\ Len(seen) \in Nat
      BY <1>3, BoundAssumption
    <3>4. ASSUME NEW i \in 1..Len(seen')
          PROVE  seen'[i] = Key(e) \/ \E n \in 1..Len(seen) : seen'[i] = seen[n]
      <4>1. d + i \in 1..Len(seen) \/ d + i = Len(seen) + 1
        <5>1. i \in 1..(Len(seen) + 1 - d)
          BY <3>2
        <5> QED
          BY <3>3, <5>1
      <4>2. /\ Append(seen, Key(e))[Len(seen) + 1] = Key(e)
            /\ \A n \in 1..Len(seen) : Append(seen, Key(e))[n] = seen[n]
        BY <1>3, <2>2
      <4> QED
        BY <3>2, <4>1, <4>2
    <3> QED
      BY <1>6, <3>1, <3>4
  <2>4. TypeOK'
    BY <1>1, <1>3, <1>6, <2>1, <2>3 DEF StreamInv, TypeOK, serverVars, clientVars
  <2>5. BusInv'
    <3>1. \A i \in 1..Len(seen') : \E d \in ToSet(mem') : Key(d) = seen'[i]
      BY <2>1, <2>3 DEF StreamInv, BusInv
    <3>2. IsFiniteSet(table')
      <4>1. IsFiniteSet(table \cup {e})
        BY FS_AddElement DEF StreamInv, BusInv
      <4> QED
        BY <2>1, <4>1, FS_Subset
    <3>3. NoEventLost'
      BY <1>1, <1>4, <2>1 DEF StreamInv, BusInv, NoEventLost, Key
    <3> QED
      BY <1>1, <1>6, <2>1, <3>1, <3>2, <3>3 DEF StreamInv, BusInv, Key
  <2>6. (Dynamo => Window)'
    <3>1. \A n \in 1..Len(seen) : seen[n] # Key(e)
      BY <1>6 DEF Contains
    <3> QED
      BY <1>3, <1>6, <2>1, <3>1, WindowMoves DEF StreamInv
  <2>7. ConnInv'
    BY <1>1, <2>1 DEF StreamInv, ConnInv, serverVars, clientVars
  <2>8. FirstInv'
    <3> SUFFICES ASSUME NEW c \in Client, Joined(c)'
                 PROVE  /\ phase'[<<c, 1>>] # "gone"
                        /\ phase'[<<c, 1>>] \in {"replay", "open"} =>
                             \A f \in ToSet(mem') : Has(c, f)'
      BY DEF FirstInv
    <3>1. Joined(c) /\ phase[<<c, 1>>] # "gone"
      BY <1>1 DEF Joined, clientVars, StreamInv, FirstInv
    <3>2. <<c, 1>> \in Connection
      BY <3>1, BoundAssumption DEF Joined, Connection, StreamInv, TypeOK
    <3>3. UNCHANGED <<phase, recv, backlog>>
      BY <1>1 DEF serverVars, clientVars
    <3>4. ASSUME NEW f \in ToSet(mem), phase[<<c, 1>>] \in {"replay", "open"} PROVE Has(c, f)'
      <4>1. f # taken
        BY <1>1, <1>3, Elements, EventAssumption
      <4>2. Has(c, f)
        BY <3>1, <3>4 DEF StreamInv, FirstInv
      <4> QED
        BY <3>3, <4>1, <4>2 DEF Has
    <3>5. ASSUME phase[<<c, 1>>] \in {"replay", "open"} PROVE Has(c, e)'
      BY <1>6, <3>2, <3>5 DEF Has, StreamInv, ConnInv
    <3> QED
      BY <2>1, <3>1, <3>3, <3>4, <3>5
  <2> QED
    BY <2>4, <2>5, <2>6, <2>7, <2>8 DEF StreamInv
<1> QED
  BY <1>1, <1>2, <1>5, <1>6 DEF Take

----------------------------------------------------------------------------
(* The connections *)

\* What a delivery to connection k does to the clients.
LEMMA Delivered ==
  ASSUME StreamInv, NEW k \in Connection, NEW e \in Event, Deliver(k, e)
  PROVE  /\ recv' \in [Client -> Seq(Event)] /\ lastSeq' \in [Client -> Nat]
         /\ \A c \in Client :
              /\ ToSet(recv[c]) \subseteq ToSet(recv'[c])
              /\ recv'[c] = recv[c] \/ recv'[c] = Append(recv[c], e)
              /\ lastSeq'[c] = lastSeq[c] \/ link[c] # 0
         /\ link[k[1]] = k[2] => e \in ToSet(recv'[k[1]])
<1>1. /\ recv \in [Client -> Seq(Event)] /\ lastSeq \in [Client -> Nat]
      /\ k[1] \in Client /\ k[2] # 0 /\ SeqNum[e] \in Nat
  <2>1. k[1] \in Client /\ k[2] \in 1..MaxConn
    BY DEF Connection
  <2>2. SeqNum[e] \in Nat /\ MaxConn \in Nat
    BY EventAssumption, BoundAssumption
  <2>3. k[2] # 0
    BY <2>1, <2>2
  <2>4. recv \in [Client -> Seq(Event)] /\ lastSeq \in [Client -> Nat]
    BY DEF StreamInv, TypeOK
  <2> QED
    BY <2>1, <2>2, <2>3, <2>4
<1>2. CASE link[k[1]] = k[2]
  <2> DEFINE c == k[1]
  <2>1. /\ Append(recv[c], e) \in Seq(Event)
        /\ ToSet(Append(recv[c], e)) = ToSet(recv[c]) \cup {e}
    BY <1>1, AppendElements
  <2>2. /\ recv' = [recv EXCEPT ![c] = Append(@, e)]
        /\ lastSeq' = [lastSeq EXCEPT ![c] = IF SeqNum[e] > @ THEN SeqNum[e] ELSE @]
    BY <1>2 DEF Deliver
  <2>3. recv'[c] = Append(recv[c], e) /\ \A d \in Client \ {c} : recv'[d] = recv[d]
    BY <1>1, <2>2
  <2>4. recv' \in [Client -> Seq(Event)] /\ lastSeq' \in [Client -> Nat]
    BY <1>1, <2>1, <2>2
  <2>5. \A d \in Client : lastSeq'[d] = lastSeq[d] \/ link[d] # 0
    BY <1>1, <1>2, <2>2
  <2> QED
    BY <1>1, <1>2, <2>1, <2>3, <2>4, <2>5
<1>3. CASE link[k[1]] # k[2]
  BY <1>1, <1>3 DEF Deliver
<1> QED
  BY <1>2, <1>3

LEMMA BroadcastStep ==
  ASSUME StreamInv, Broadcast
  PROVE  StreamInv'
<1>1. /\ taken # NoEvent /\ todo # <<>> /\ todo' = Tail(todo)
      /\ UNCHANGED <<published, queue, putters, seen, taken, subs, storeVars, serverVars,
                     link, conns, restarts>>
  BY DEF Broadcast
<1>2. PICK k \in Connection : k = Head(todo)
  BY <1>1, TailElements DEF StreamInv, TypeOK
<1>3. taken \in Event /\ todo' \in Seq(Connection) /\ ToSet(todo) = {k} \cup ToSet(todo')
  BY <1>1, <1>2, TailElements DEF StreamInv, TypeOK
<1>4. /\ recv' \in [Client -> Seq(Event)] /\ lastSeq' \in [Client -> Nat]
      /\ \A c \in Client :
           /\ ToSet(recv[c]) \subseteq ToSet(recv'[c])
           /\ lastSeq'[c] = lastSeq[c] \/ link[c] # 0
      /\ phase[k] # "gone" /\ link[k[1]] = k[2] => taken \in ToSet(recv'[k[1]])
  <2>1. CASE phase[k] # "gone"
    <3>1. Deliver(k, taken)
      BY <1>2, <2>1 DEF Broadcast
    <3> QED
      BY <1>3, <3>1, Delivered
  <2>2. CASE phase[k] = "gone"
    BY <1>2, <2>2 DEF Broadcast, StreamInv, TypeOK
  <2> QED
    BY <2>1, <2>2
<1>5. TypeOK'
  BY <1>1, <1>3, <1>4 DEF StreamInv, TypeOK, storeVars, serverVars
<1>6. BusInv'
  BY <1>1 DEF StreamInv, BusInv, NoEventLost, InBus, Key, storeVars
<1>7. (Dynamo => Window)'
  BY <1>1, WindowStays DEF StreamInv, storeVars
<1>8. ConnInv'
  BY <1>1, <1>4 DEF StreamInv, ConnInv, storeVars, serverVars
<1>9. FirstInv'
  <2> SUFFICES ASSUME NEW c \in Client, Joined(c)'
               PROVE  /\ phase'[<<c, 1>>] # "gone"
                      /\ phase'[<<c, 1>>] \in {"replay", "open"} =>
                           \A e \in ToSet(mem') : Has(c, e)'
    BY DEF FirstInv
  <2>1. UNCHANGED <<phase, mem, backlog, taken>> /\ Joined(c) /\ link[c] = 1
    BY <1>1 DEF storeVars, serverVars, Joined
  <2>2. phase[<<c, 1>>] # "gone"
    BY <2>1 DEF StreamInv, FirstInv
  <2>3. ASSUME NEW e \in ToSet(mem), Has(c, e) PROVE Has(c, e)'
    <3>1. CASE k = <<c, 1>>
      BY <1>3, <1>4, <2>1, <2>2, <2>3, <3>1 DEF Has
    <3>2. CASE k # <<c, 1>>
      BY <1>3, <1>4, <2>1, <2>3, <3>2 DEF Has
    <3> QED
      BY <3>1, <3>2
  <2> QED
    BY <2>1, <2>2, <2>3 DEF StreamInv, FirstInv
<1> QED
  BY <1>5, <1>6, <1>7, <1>8, <1>9 DEF StreamInv

LEMMA ReplayStep ==
  ASSUME StreamInv, NEW k \in Connection, Replay(k)
  PROVE  StreamInv'
<1>1. /\ phase[k] = "replay" /\ backlog[k] # <<>>
      /\ backlog' = [backlog EXCEPT ![k] = Tail(@)]
      /\ UNCHANGED <<published, busVars, storeVars, phase, since, link, conns, restarts>>
  BY DEF Replay
<1>2. backlog \in [Connection -> Seq(Event)]
  BY DEF StreamInv, TypeOK
<1>3. PICK e \in Event : e = Head(backlog[k])
  BY <1>1, <1>2, TailElements
<1>4. /\ Tail(backlog[k]) \in Seq(Event)
      /\ ToSet(backlog[k]) = {e} \cup ToSet(Tail(backlog[k]))
  BY <1>1, <1>2, <1>3, TailElements
<1>5. /\ recv' \in [Client -> Seq(Event)] /\ lastSeq' \in [Client -> Nat]
      /\ \A c \in Client :
           /\ ToSet(recv[c]) \subseteq ToSet(recv'[c])
           /\ lastSeq'[c] = lastSeq[c] \/ link[c] # 0
      /\ link[k[1]] = k[2] => e \in ToSet(recv'[k[1]])
  BY <1>3, Delivered DEF Replay
<1>6. /\ backlog' \in [Connection -> Seq(Event)] /\ backlog'[k] = Tail(backlog[k])
      /\ \A h \in Connection \ {k} : backlog'[h] = backlog[h]
  BY <1>1, <1>2, <1>4
<1>7. TypeOK'
  BY <1>1, <1>5, <1>6 DEF StreamInv, TypeOK, storeVars, busVars
<1>8. BusInv'
  BY <1>1 DEF StreamInv, BusInv, NoEventLost, InBus, Key, storeVars, busVars
<1>9. (Dynamo => Window)'
  BY <1>1, WindowStays DEF StreamInv, storeVars, busVars
<1>10. ConnInv'
  <2>1. \A h \in Connection : /\ ToSet(backlog'[h]) \subseteq ToSet(backlog[h])
                              /\ phase[h] = "open" => backlog'[h] = backlog[h]
    BY <1>1, <1>4, <1>6
  <2> QED
    BY <1>1, <1>5, <2>1 DEF StreamInv, ConnInv, storeVars, busVars
<1>11. FirstInv'
  <2> SUFFICES ASSUME NEW c \in Client, Joined(c)'
               PROVE  /\ phase'[<<c, 1>>] # "gone"
                      /\ phase'[<<c, 1>>] \in {"replay", "open"} =>
                           \A f \in ToSet(mem') : Has(c, f)'
    BY DEF FirstInv
  <2>1. UNCHANGED <<phase, mem, taken, todo>> /\ Joined(c) /\ link[c] = 1
    BY <1>1 DEF storeVars, busVars, Joined
  <2>2. <<c, 1>> \in Connection
    BY <2>1, BoundAssumption DEF Joined, Connection, StreamInv, TypeOK
  <2>3. ASSUME NEW f \in ToSet(mem), Has(c, f) PROVE Has(c, f)'
    <3>1. CASE k = <<c, 1>>
      BY <1>4, <1>5, <1>6, <2>1, <2>3, <3>1 DEF Has
    <3>2. CASE k # <<c, 1>>
      BY <1>5, <1>6, <2>1, <2>2, <2>3, <3>2 DEF Has
    <3> QED
      BY <3>1, <3>2
  <2> QED
    BY <2>1, <2>3 DEF StreamInv, FirstInv
<1> QED
  BY <1>7, <1>8, <1>9, <1>10, <1>11 DEF StreamInv

LEMMA LoseLinkStep ==
  ASSUME StreamInv, NEW c \in Client, LoseLink(c)
  PROVE  StreamInv'
<1>1. /\ link' = [link EXCEPT ![c] = 0]
      /\ UNCHANGED <<published, busVars, storeVars, serverVars, conns, lastSeq, recv, restarts>>
      /\ link \in [Client -> 0..MaxConn] /\ MaxConn \in Nat
  BY BoundAssumption DEF LoseLink, StreamInv, TypeOK
<1>2. TypeOK'
  BY <1>1 DEF StreamInv, TypeOK, storeVars, busVars, serverVars
<1>3. BusInv'
  BY <1>1 DEF StreamInv, BusInv, NoEventLost, InBus, Key, storeVars, busVars
<1>4. (Dynamo => Window)'
  BY <1>1, WindowStays DEF StreamInv, storeVars, busVars
<1>5. ConnInv'
  BY <1>1 DEF StreamInv, ConnInv, storeVars, busVars, serverVars
<1>6. FirstInv'
  <2>1. \A d \in Client : Joined(d)' => Joined(d)
    BY <1>1 DEF Joined
  <2> QED
    BY <1>1, <2>1 DEF StreamInv, FirstInv, Has, storeVars, busVars, serverVars
<1> QED
  BY <1>2, <1>3, <1>4, <1>5, <1>6 DEF StreamInv

LEMMA ConnectStep ==
  ASSUME StreamInv, NEW c \in Client, Connect(c)
  PROVE  StreamInv'
<1>1. /\ conns \in [Client -> 0..MaxConn] /\ MaxConn \in Nat /\ lastSeq[c] \in Nat
      /\ link \in [Client -> 0..MaxConn] /\ subs \in Seq(Connection)
      /\ phase \in [Connection -> Phase] /\ since \in [Connection -> Nat]
  BY BoundAssumption DEF StreamInv, TypeOK
<1>2. PICK k \in Connection : k = <<c, conns[c] + 1>>
  BY <1>1 DEF Connect, Connection
<1>3. /\ conns' = [conns EXCEPT ![c] = @ + 1] /\ link' = [link EXCEPT ![c] = conns[c] + 1]
      /\ conns[c] < MaxConn /\ subs' = Append(subs, k)
      /\ phase' = [phase EXCEPT ![k] = "ack"] /\ since' = [since EXCEPT ![k] = lastSeq[c]]
      /\ UNCHANGED <<backlog, published, queue, putters, seen, taken, todo, storeVars, lastSeq,
                     recv, restarts>>
  BY <1>2 DEF Connect
<1>4. subs' \in Seq(Connection) /\ ToSet(subs') = ToSet(subs) \cup {k}
  BY <1>1, <1>3, AppendElements
<1>5. phase[k] = "new" /\ k \notin ToSet(subs)
  <2>1. k[2] > conns[k[1]]
    BY <1>1, <1>2
  <2>2. phase[k] = "new"
    BY <2>1 DEF StreamInv, ConnInv
  <2> QED
    BY <2>2 DEF StreamInv, ConnInv
<1>6. TypeOK'
  <2>1. conns[c] + 1 \in 0..MaxConn
    BY <1>1, <1>3
  <2>2. /\ conns' \in [Client -> 0..MaxConn] /\ link' \in [Client -> 0..MaxConn]
        /\ phase' \in [Connection -> Phase] /\ since' \in [Connection -> Nat]
    BY <1>1, <1>3, <2>1 DEF Phase
  <2> QED
    BY <1>3, <1>4, <2>2 DEF StreamInv, TypeOK, storeVars
<1>7. BusInv'
  BY <1>3 DEF StreamInv, BusInv, NoEventLost, InBus, Key, storeVars
<1>8. (Dynamo => Window)'
  BY <1>3, WindowStays DEF StreamInv, storeVars
<1>9. ConnInv'
  <2>1. \A d \in Client : link'[d] \in {0, conns'[d]} /\ (conns'[d] = 0 => lastSeq'[d] = 0)
    BY <1>1, <1>3 DEF StreamInv, ConnInv
  <2>2. ASSUME NEW h \in Connection, h # k
        PROVE  h[2] > conns'[h[1]] <=> h[2] > conns[h[1]]
    <3>1. h = <<h[1], h[2]>> /\ h[1] \in Client /\ h[2] \in Nat
      BY BoundAssumption DEF Connection
    <3> QED
      BY <1>1, <1>2, <1>3, <2>2, <3>1
  <2>3. ~(k[2] > conns'[k[1]])
    BY <1>1, <1>2, <1>3
  <2>4. k[2] = 1 => lastSeq[c] = 0
    BY <1>1, <1>2 DEF StreamInv, ConnInv
  <2>5. \A h \in Connection :
          /\ h[2] > conns'[h[1]] <=> phase'[h] = "new"
          /\ phase'[h] \in {"ack", "replay", "open"} <=> h \in ToSet(subs')
          /\ h[2] = 1 => since'[h] = 0
          /\ phase'[h] = "open" => backlog'[h] = <<>>
          /\ ToSet(backlog'[h]) \subseteq ToSet(mem') \cup table'
    BY <1>1, <1>3, <1>4, <2>2, <2>3, <2>4 DEF StreamInv, ConnInv, storeVars
  <2>6. \A i, j \in 1..Len(subs') : subs'[i] = subs'[j] => i = j
    <3>1. /\ Len(subs') = Len(subs) + 1 /\ Len(subs) \in Nat /\ subs'[Len(subs) + 1] = k
          /\ \A i \in 1..Len(subs) : subs'[i] = subs[i] /\ subs[i] # k
      BY <1>1, <1>3, <1>5, Elements
    <3>2. \A i \in 1..(Len(subs) + 1) : i \in 1..Len(subs) \/ i = Len(subs) + 1
      BY <3>1
    <3> QED
      BY <3>1, <3>2 DEF StreamInv, ConnInv
  <2> QED
    BY <2>1, <2>5, <2>6 DEF ConnInv
<1>10. FirstInv'
  <2> SUFFICES ASSUME NEW d \in Client, Joined(d)'
               PROVE  /\ phase'[<<d, 1>>] # "gone"
                      /\ phase'[<<d, 1>>] \in {"replay", "open"} =>
                           \A f \in ToSet(mem') : Has(d, f)'
    BY DEF FirstInv
  <2>1. CASE d = c
    <3>1. k = <<d, 1>>
      BY <1>1, <1>2, <1>3, <2>1 DEF Joined
    <3> QED
      BY <1>1, <1>3, <3>1
  <2>2. CASE d # c
    <3>1. Joined(d) /\ phase'[<<d, 1>>] = phase[<<d, 1>>]
      BY <1>1, <1>2, <1>3, <2>2 DEF Joined
    <3> QED
      BY <1>3, <3>1 DEF StreamInv, FirstInv, Has, storeVars
  <2> QED
    BY <2>1, <2>2
<1> QED
  BY <1>6, <1>7, <1>8, <1>9, <1>10 DEF StreamInv

\* What a connection replays is stored; and when it asks for everything, it is everything.
LEMMA HistoryIsStored ==
  ASSUME StreamInv, NEW from \in Nat, NEW h \in Histories(from)
  PROVE  /\ h \in Seq(Event) /\ ToSet(h) \subseteq ToSet(mem) \cup table
         /\ from = 0 => ToSet(mem) \subseteq ToSet(h)
<1>1. /\ mem \in Seq(Event) /\ table \subseteq Event /\ IsFiniteSet(table)
      /\ DOMAIN mem = 1..Len(mem) /\ Len(mem) \in Nat /\ \A i \in 1..Len(mem) : mem[i] \in Event
  BY ElementOfSeq DEF StreamInv, TypeOK, BusInv
<1>2. CASE Newer(from) # {}
  <2> DEFINE N == Newer(from)
             n == Cardinality(N)
  <2>1. N \subseteq 1..Len(mem)
    BY <1>1 DEF Newer
  <2>2. IsFiniteSet(N) /\ n \in Nat
    <3>1. IsFiniteSet(1..Len(mem))
      BY <1>1, FS_Interval
    <3> HIDE DEF N
    <3> QED
      BY <2>1, <3>1, FS_Subset, FS_CardinalityType
  <2>3. PICK f \in InOrder(N) : h = [i \in DOMAIN f |-> mem[f[i]]]
    BY <1>2 DEF Histories
  <2> HIDE DEF N
  <2>4. f \in [1..n -> N] /\ \A i, j \in 1..n : i # j => f[i] # f[j]
    BY DEF InOrder, SetToSeqs
  <2> HIDE DEF n
  <2>5. h = [i \in 1..n |-> mem[f[i]]] /\ \A i \in 1..n : f[i] \in 1..Len(mem)
    BY <2>1, <2>3, <2>4
  <2>6. h \in Seq(Event) /\ Len(h) = n
    BY <1>1, <2>2, <2>5
  <2>7. \A i \in 1..n : h[i] \in ToSet(mem)
    BY <1>1, <2>5 DEF ToSet
  <2>8. ToSet(h) \subseteq ToSet(mem)
    BY <2>6, <2>7, Elements
  <2>9. ASSUME from = 0, NEW e \in ToSet(mem) PROVE e \in ToSet(h)
    <3>1. PICK p \in 1..Len(mem) : mem[p] = e
      BY <1>1, <2>9, Elements
    <3>2. p \in N
      BY <1>1, <2>9, <3>1, EventAssumption DEF N, Newer
    <3>3. f \in Surjection(1..n, N)
      <4>1. f \in Injection(1..n, N)
        BY <2>4 DEF Injection, IsInjective
      <4>2. Cardinality(1..n) = Cardinality(N)
        BY <2>2, FS_Interval DEF n
      <4> QED
        BY <2>2, <4>1, <4>2, FS_Injection
    <3>4. PICK i \in 1..n : f[i] = p
      BY <3>2, <3>3 DEF Surjection
    <3>5. h[i] = e
      BY <2>5, <3>1, <3>4
    <3> QED
      BY <2>6, <3>5, Elements
  <2> QED
    BY <2>6, <2>8, <2>9
<1>3. CASE Newer(from) = {}
  <2> DEFINE n == Cardinality(QueryTable(from))
  <2>1. h \in [1..n -> QueryTable(from)]
    BY <1>3 DEF Histories, SetToSeqs
  <2>2. QueryTable(from) \subseteq table
    BY DEF QueryTable
  <2>3. n \in Nat
    BY <1>1, <2>2, FS_Subset, FS_CardinalityType
  <2> HIDE DEF n
  <2>4. h \in Seq(table)
    BY <2>1, <2>2, <2>3
  <2>5. h \in Seq(Event) /\ ToSet(h) \subseteq table
    BY <1>1, <2>4, Elements
  <2>6. from = 0 => ToSet(mem) = {}
    <3>1. from = 0 => 1..Len(mem) = {}
      BY <1>1, <1>3, EventAssumption DEF Newer
    <3> QED
      BY <1>1, <3>1 DEF ToSet
  <2> QED
    BY <2>5, <2>6
<1> QED
  BY <1>2, <1>3

LEMMA LoadHistoryStep ==
  ASSUME StreamInv, NEW k \in Connection, LoadHistory(k)
  PROVE  StreamInv'
<1>1. /\ phase[k] = "ack" /\ phase' = [phase EXCEPT ![k] = "replay"]
      /\ UNCHANGED <<since, published, busVars, storeVars, clientVars, restarts>>
      /\ phase \in [Connection -> Phase] /\ backlog \in [Connection -> Seq(Event)]
      /\ since[k] \in Nat
  BY DEF LoadHistory, StreamInv, TypeOK
<1>2. PICK h \in Histories(since[k]) : backlog' = [backlog EXCEPT ![k] = h]
  BY DEF LoadHistory
<1>3. /\ h \in Seq(Event) /\ ToSet(h) \subseteq ToSet(mem) \cup table
      /\ since[k] = 0 => ToSet(mem) \subseteq ToSet(h)
  BY <1>1, HistoryIsStored
<1>4. TypeOK'
  <2>1. phase' \in [Connection -> Phase] /\ backlog' \in [Connection -> Seq(Event)]
    BY <1>1, <1>2, <1>3 DEF Phase
  <2> QED
    BY <1>1, <2>1 DEF StreamInv, TypeOK, storeVars, busVars, clientVars
<1>5. BusInv'
  BY <1>1 DEF StreamInv, BusInv, NoEventLost, InBus, Key, storeVars, busVars
<1>6. (Dynamo => Window)'
  BY <1>1, WindowStays DEF StreamInv, storeVars, busVars
<1>7. ConnInv'
  BY <1>1, <1>2, <1>3 DEF StreamInv, ConnInv, storeVars, busVars, clientVars
<1>8. FirstInv'
  <2> SUFFICES ASSUME NEW c \in Client, Joined(c)'
               PROVE  /\ phase'[<<c, 1>>] # "gone"
                      /\ phase'[<<c, 1>>] \in {"replay", "open"} =>
                           \A f \in ToSet(mem') : Has(c, f)'
    BY DEF FirstInv
  <2>1. UNCHANGED <<mem, taken, todo, recv>> /\ Joined(c)
    BY <1>1 DEF storeVars, busVars, clientVars, Joined
  <2>2. CASE k = <<c, 1>>
    <3>1. since[k] = 0 /\ k[2] = 1
      BY <2>2 DEF StreamInv, ConnInv
    <3> QED
      BY <1>1, <1>2, <1>3, <2>1, <2>2, <3>1 DEF Has
  <2>3. CASE k # <<c, 1>>
    BY <1>1, <1>2, <2>1, <2>3 DEF StreamInv, FirstInv, Has
  <2> QED
    BY <2>2, <2>3
<1> QED
  BY <1>4, <1>5, <1>6, <1>7, <1>8 DEF StreamInv

LEMMA OpenStep ==
  ASSUME StreamInv, NEW k \in Connection, OpenConnection(k)
  PROVE  StreamInv'
<1>1. /\ phase[k] = "replay" /\ backlog[k] = <<>> /\ phase' = [phase EXCEPT ![k] = "open"]
      /\ UNCHANGED <<published, busVars, storeVars, since, backlog, clientVars, restarts>>
      /\ phase \in [Connection -> Phase]
  BY DEF OpenConnection, StreamInv, TypeOK
<1>2. TypeOK'
  BY <1>1 DEF StreamInv, TypeOK, storeVars, busVars, clientVars, Phase
<1>3. BusInv'
  BY <1>1 DEF StreamInv, BusInv, NoEventLost, InBus, Key, storeVars, busVars
<1>4. (Dynamo => Window)'
  BY <1>1, WindowStays DEF StreamInv, storeVars, busVars
<1>5. ConnInv'
  BY <1>1 DEF StreamInv, ConnInv, storeVars, busVars, clientVars
<1>6. FirstInv'
  BY <1>1 DEF StreamInv, FirstInv, Joined, Has, storeVars, busVars, clientVars
<1> QED
  BY <1>2, <1>3, <1>4, <1>5, <1>6 DEF StreamInv

LEMMA DisconnectStep ==
  ASSUME StreamInv, NEW k \in Connection, Disconnect(k)
  PROVE  StreamInv'
<1>1. /\ phase[k] = "open" /\ link[k[1]] # k[2] /\ phase' = [phase EXCEPT ![k] = "gone"]
      /\ subs' = RemoveFirst(subs, k)
      /\ UNCHANGED <<published, queue, putters, seen, taken, todo, storeVars, since, backlog,
                     clientVars, restarts>>
      /\ phase \in [Connection -> Phase] /\ subs \in Seq(Connection)
  BY DEF Disconnect, StreamInv, TypeOK
<1>2. k \in ToSet(subs) /\ \A i, j \in 1..Len(subs) : subs[i] = subs[j] => i = j
  BY <1>1 DEF StreamInv, ConnInv
<1>3. /\ subs' \in Seq(Connection) /\ ToSet(subs') = ToSet(subs) \ {k}
      /\ \A i, j \in 1..Len(subs') : subs'[i] = subs'[j] => i = j
  BY <1>1, <1>2, RemovedElements
<1>4. TypeOK'
  BY <1>1, <1>3 DEF StreamInv, TypeOK, storeVars, clientVars, Phase
<1>5. BusInv'
  BY <1>1 DEF StreamInv, BusInv, NoEventLost, InBus, Key, storeVars
<1>6. (Dynamo => Window)'
  BY <1>1, WindowStays DEF StreamInv, storeVars
<1>7. ConnInv'
  BY <1>1, <1>3 DEF StreamInv, ConnInv, storeVars, clientVars
<1>8. FirstInv'
  <2> SUFFICES ASSUME NEW c \in Client, Joined(c)'
               PROVE  /\ phase'[<<c, 1>>] # "gone"
                      /\ phase'[<<c, 1>>] \in {"replay", "open"} =>
                           \A f \in ToSet(mem') : Has(c, f)'
    BY DEF FirstInv
  <2>1. UNCHANGED <<mem, taken, todo, recv, backlog>> /\ Joined(c) /\ link[c] = 1
    BY <1>1 DEF storeVars, clientVars, Joined
  <2>2. k # <<c, 1>>
    BY <1>1, <2>1
  <2> QED
    BY <1>1, <2>1, <2>2 DEF StreamInv, FirstInv, Has
<1> QED
  BY <1>4, <1>5, <1>6, <1>7, <1>8 DEF StreamInv

LEMMA RestartStep ==
  ASSUME StreamInv, Restart
  PROVE  StreamInv'
<1>1. /\ restarts < MaxRestart /\ restarts' = restarts + 1 /\ restarts \in 0..MaxRestart
      /\ queue' = <<>> /\ putters' = {} /\ seen' = <<>> /\ taken' = NoEvent
      /\ todo' = <<>> /\ subs' = <<>> /\ mem' = <<>>
      /\ phase' = [k \in Connection |-> IF phase[k] = "new" THEN "new" ELSE "gone"]
      /\ backlog' = [k \in Connection |-> <<>>]
      /\ link' = [c \in Client |-> 0]
      /\ UNCHANGED <<published, table, since, conns, lastSeq, recv>>
      /\ MaxRestart \in Nat /\ MaxConn \in Nat /\ SeenMax \in Nat /\ QueueMax \in Nat
  BY BoundAssumption DEF Restart, StreamInv, TypeOK
<1>2. ToSet(<<>>) = {} /\ Len(<<>>) = 0
  BY DEF ToSet
<1>3. restarts' # 0 /\ restarts' \in 0..MaxRestart
  BY <1>1
<1>4. TypeOK'
  BY <1>1, <1>2, <1>3 DEF StreamInv, TypeOK, Phase
<1>5. BusInv'
  BY <1>1, <1>2, <1>3 DEF StreamInv, BusInv, NoEventLost
<1>6. Window'
  BY <1>1, <1>2 DEF Window, DedupWindow
<1>7. ConnInv'
  BY <1>1, <1>2 DEF StreamInv, ConnInv
<1>8. FirstInv'
  BY <1>3 DEF FirstInv, Joined
<1> QED
  BY <1>4, <1>5, <1>6, <1>7, <1>8 DEF StreamInv

----------------------------------------------------------------------------
(* The theorems *)

LEMMA StreamSteps == StreamInv /\ [Next]_vars => StreamInv'
<1> SUFFICES ASSUME StreamInv, [Next]_vars PROVE StreamInv'
  OBVIOUS
<1>1. CASE UNCHANGED vars
  <2>1. UNCHANGED <<published, queue, putters, seen, taken, todo, subs, mem, table, phase, since,
                    backlog, link, conns, lastSeq, recv, restarts>>
    BY <1>1 DEF vars, busVars, storeVars, serverVars, clientVars
  <2>2. TypeOK' /\ ConnInv' /\ FirstInv'
    BY <2>1 DEF StreamInv, TypeOK, ConnInv, FirstInv, Joined, Has
  <2>3. BusInv'
    BY <2>1 DEF StreamInv, BusInv, NoEventLost, InBus, Key
  <2>4. (Dynamo => Window)'
    BY <2>1, WindowStays DEF StreamInv
  <2> QED
    BY <2>2, <2>3, <2>4 DEF StreamInv
<1>2. CASE Next
  BY <1>2, PublishStep, TakeStep, BroadcastStep, FinishStep, ConnectStep, LoseLinkStep,
     LoadHistoryStep, ReplayStep, OpenStep, DisconnectStep, RestartStep
     DEF Next, BusStep, ConnectionStep
<1> QED
  BY <1>1, <1>2

\* The stream keeps its invariant.
THEOREM StreamInvariance == Spec => []StreamInv
BY StreamInitially, StreamSteps, PTL DEF Spec

\* Every variable of the stream stays in its domain, and queue and seen keys within
\* their limits.
THEOREM StreamTypes == Spec => []TypeOK
<1>1. StreamInv => TypeOK
  BY DEF StreamInv
<1> QED
  BY <1>1, StreamInvariance, PTL

\* No event is missed on its way from the publisher to a browser on its first
\* connection: EventStream's NothingMissed.
THEOREM WholeStream == Spec => []NothingMissed
<1>1. StreamInv => NothingMissed
  <2> SUFFICES ASSUME StreamInv PROVE FirstConnectionMissesNothing
    BY DEF StreamInv, BusInv, NothingMissed
  <2> SUFFICES ASSUME restarts = 0, NEW c \in Client, Established(c), conns[c] = 1,
                      NEW e \in Broadcasted(c)
               PROVE  e \in ToSet(recv[c])
    BY DEF FirstConnectionMissesNothing, CaughtUp
  <2>1. link[c] = 1 /\ phase[<<c, 1>>] = "open"
    BY DEF Established, StreamInv, ConnInv
  <2>2. <<c, 1>> \in Connection /\ todo \in Seq(Connection)
    BY <2>1, BoundAssumption DEF Connection, StreamInv, TypeOK
  <2>3. backlog[<<c, 1>>] = <<>> /\ ToSet(<<>>) = {}
    BY <2>1, <2>2 DEF StreamInv, ConnInv, ToSet
  <2>4. e \in ToSet(mem) /\ ~(e = taken /\ Contains(todo, <<c, 1>>))
    BY <2>1 DEF Broadcasted, StreamInv, BusInv
  <2>5. Has(c, e)
    BY <2>1, <2>4 DEF StreamInv, FirstInv, Joined
  <2> QED
    BY <2>2, <2>3, <2>4, <2>5, Elements DEF Has
<1> QED
  BY <1>1, StreamInvariance, PTL

\* An event whose key was processed before is stored again only after so many others
\* that its key was trimmed: EventStream's DedupWindow.
THEOREM DuplicatesAreFar == Spec => []DedupWindow
<1>1. StreamInv => DedupWindow
  BY DEF StreamInv, Window, DedupWindow
<1> QED
  BY <1>1, StreamInvariance, PTL

\* What a client receives is in a store before: EventStream's StoredBeforeDelivery.
THEOREM StoredFirst == Spec => StoredBeforeDelivery
<1>1. StreamInv /\ [Next]_vars =>
        [\A c \in Client :
           Len(recv'[c]) > Len(recv[c]) => Last(recv'[c]) \in ToSet(mem) \cup table]_vars
  <2> SUFFICES ASSUME StreamInv, Next, NEW c \in Client, Len(recv'[c]) > Len(recv[c])
               PROVE  Last(recv'[c]) \in ToSet(mem) \cup table
    OBVIOUS
  <2>1. recv \in [Client -> Seq(Event)] /\ todo \in Seq(Connection)
    BY DEF StreamInv, TypeOK
  <2>2. \A s \in Seq(Event), e \in Event : Last(Append(s, e)) = e
    BY DEF Last
  <2>3. ASSUME NEW k \in Connection, NEW e \in ToSet(mem) \cup table, Deliver(k, e)
        PROVE  Last(recv'[c]) \in ToSet(mem) \cup table
    <3>1. e \in Event
      BY Elements DEF StreamInv, TypeOK
    <3>2. recv'[c] = recv[c] \/ recv'[c] = Append(recv[c], e)
      BY <2>3, <3>1, Delivered
    <3>3. recv'[c] # recv[c]
      BY <2>1
    <3>4. recv'[c] = Append(recv[c], e) /\ recv[c] \in Seq(Event)
      BY <2>1, <3>2, <3>3
    <3>5. Last(recv'[c]) = e
      BY <2>2, <3>1, <3>4
    <3> QED
      BY <3>5
  <2>4. CASE Broadcast
    <3>1. taken \in ToSet(mem)
      BY <2>4 DEF Broadcast, StreamInv, BusInv
    <3>2. Head(todo) \in Connection
      BY <2>1, <2>4, TailElements DEF Broadcast
    <3>3. Deliver(Head(todo), taken)
      BY <2>1, <2>4 DEF Broadcast
    <3> QED
      BY <2>3, <3>1, <3>2, <3>3
  <2>5. ASSUME NEW k \in Connection, Replay(k) PROVE Last(recv'[c]) \in ToSet(mem) \cup table
    <3>1. Head(backlog[k]) \in ToSet(mem) \cup table
      BY <2>5, TailElements DEF Replay, StreamInv, TypeOK, ConnInv
    <3> QED
      BY <2>3, <2>5, <3>1 DEF Replay
  <2>6. CASE UNCHANGED recv
    BY <2>1, <2>6
  <2>7. Broadcast \/ (\E k \in Connection : Replay(k)) \/ UNCHANGED recv
    BY DEF Next, BusStep, ConnectionStep, Publish, PutWaiting, Take, FinishEvent, Connect,
       LoseLink, LoadHistory, OpenConnection, Disconnect, Restart, clientVars
  <2> QED
    BY <2>4, <2>5, <2>6, <2>7
<1> QED
  BY <1>1, StreamInvariance, PTL DEF Spec, StoredBeforeDelivery

(***************************************************************************)
(* ReplayEngine                                                            *)
(***************************************************************************)

\* The plan of a session is its investigation from the first event on, and what it has
\* sent is a beginning of that.
Follows(s) ==
  /\ \A k \in 1..Len(plan[s]) : plan[s][k] = k - 1
  /\ \A k \in 1..Len(sent[s]) : sent[s][k] = k - 1
  /\ Len(sent[s]) <= Len(plan[s])

\* A session without a request, and one whose task has not begun, has sent nothing; a
\* task that waits for the pause event has an event left; a session that completed
\* sent all of them.
Stage(s) ==
  /\ s \in sessions => pc[s] # "none"
  /\ pc[s] = "none" => sent[s] = <<>> /\ steps[s] = 0
  /\ pc[s] = "new" => /\ status[s] = "pending" /\ sent[s] = <<>> /\ steps[s] = 0
                      /\ Len(plan[s]) > 0
  /\ pc[s] \in {"pause", "unpaused"} => Len(sent[s]) < Len(plan[s])
  /\ status[s] = "completed" => pc[s] = "ended" /\ Len(sent[s]) = Len(plan[s])

\* While a session is paused, its task sends no second event; and in STEP mode a task that
\* was woken was asked to go on, or the session was aborted.
Control(s) ==
  /\ late[s] <= 1
  /\ status[s] = "paused" /\ pc[s] = "unpaused" => late[s] = 0
  /\ mode[s] = "step" =>
       /\ pc[s] # "sleep"
       /\ Len(sent[s]) <= steps[s] + 1
       /\ pc[s] \in {"stepped", "pause", "unpaused"} /\ status[s] # "aborted" =>
            Len(sent[s]) <= steps[s]

SessionInv == SessionsTypeOK /\ \A s \in Session : Follows(s) /\ Stage(s) /\ Control(s)

\* Only the session a step is about changes.
Alone(s) ==
  \A r \in Session \ {s} :
    /\ r \in sessions' => r \in sessions
    /\ UNCHANGED <<status[r], mode[r], plan[r], pc[r], sent[r], steps[r], late[r]>>

LEMMA OthersKeep ==
  ASSUME SessionInv, NEW s \in Session, Alone(s), NEW r \in Session \ {s}
  PROVE  Follows(r)' /\ Stage(r)' /\ Control(r)'
BY DEF SessionInv, Alone, Follows, Stage, Control

\* One more event.
LEMMA SendStep ==
  ASSUME SessionInv, NEW s \in Session, SendEvent(s), UNCHANGED <<fixed>>,
         Len(sent[s]) < Len(plan[s])
  PROVE  /\ sent'[s] \in Seq(Nat) /\ Len(sent'[s]) = Len(sent[s]) + 1
         /\ Follows(s)'
<1>1. /\ sent[s] \in Seq(Nat) /\ Len(sent[s]) \in Nat
      /\ plan[s] \in Seq(Nat) /\ Len(plan[s]) \in Nat
      /\ sent \in [Session -> Seq(Nat)]
  BY DEF SessionInv, SessionsTypeOK
<1> DEFINE n == Len(sent[s]) + 1
<1>2. n \in 1..Len(plan[s]) /\ plan[s][n] = n - 1 /\ n - 1 \in Nat
  <2>1. n \in 1..Len(plan[s]) /\ n - 1 \in Nat
    BY <1>1
  <2>2. \A k \in 1..Len(plan[s]) : plan[s][k] = k - 1
    BY DEF SessionInv, Follows
  <2> QED
    BY <2>1, <2>2
<1>3. sent'[s] = Append(sent[s], n - 1) /\ UNCHANGED plan
  BY <1>1, <1>2 DEF SendEvent, fixed
<1>4. /\ sent'[s] \in Seq(Nat) /\ Len(sent'[s]) = n /\ sent'[s][n] = n - 1
      /\ \A k \in 1..Len(sent[s]) : sent'[s][k] = sent[s][k]
  BY <1>1, <1>2, <1>3
<1>5. /\ \A k \in 1..Len(plan[s]) : plan[s][k] = k - 1
      /\ \A k \in 1..Len(sent[s]) : sent[s][k] = k - 1
  BY DEF SessionInv, Follows
<1>6. \A k \in 1..n : k \in 1..Len(sent[s]) \/ k = n
  BY <1>1
<1>7. \A k \in 1..Len(sent'[s]) : sent'[s][k] = k - 1
  BY <1>4, <1>5, <1>6
<1>8. plan'[s] = plan[s] /\ Len(sent'[s]) <= Len(plan[s])
  BY <1>1, <1>2, <1>3, <1>4
<1> QED
  BY <1>4, <1>5, <1>7, <1>8 DEF Follows

\* The session's parts of a step give the invariant.
LEMMA FromParts ==
  ASSUME SessionInv, NEW s \in Session, Alone(s), SessionsTypeOK',
         Follows(s)', Stage(s)', Control(s)'
  PROVE  SessionInv'
BY OthersKeep DEF SessionInv

LEMMA BeginStep ==
  ASSUME SessionInv, NEW s \in Session, BeginTask(s)
  PROVE  SessionInv'
<1>1. /\ pc[s] = "new" /\ status' = [status EXCEPT ![s] = "running"]
      /\ UNCHANGED <<sessions, mode, zero, plan, steps, timed, late>>
  BY DEF BeginTask, fixed
<1>2. /\ sent \in [Session -> Seq(Nat)] /\ plan \in [Session -> Seq(Nat)]
      /\ pc \in [Session -> TaskAt]
      /\ Len(plan[s]) > 0 /\ sent[s] = <<>> /\ steps[s] = 0
      /\ \A k \in 1..Len(plan[s]) : plan[s][k] = k - 1
  BY <1>1 DEF SessionInv, SessionsTypeOK, Stage, Follows
<1>3. CASE pc' = [pc EXCEPT ![s] = "raised"] /\ UNCHANGED sent
  <2>1. SessionsTypeOK'
    BY <1>1, <1>3 DEF SessionInv, SessionsTypeOK, Status, TaskAt
  <2>2. Alone(s)
    BY <1>1, <1>3 DEF SessionInv, SessionsTypeOK, Alone
  <2>3. Follows(s)' /\ Stage(s)' /\ Control(s)'
    BY <1>1, <1>3 DEF SessionInv, SessionsTypeOK, Follows, Stage, Control
  <2> QED
    BY <2>1, <2>2, <2>3, FromParts
<1>4. CASE /\ sent' = [sent EXCEPT ![s] = <<plan[s][1]>>]
           /\ \E at \in {"callback", NextWait(s)} : pc' = [pc EXCEPT ![s] = at]
  <2>1. /\ plan[s][1] = 0 /\ <<plan[s][1]>> \in Seq(Nat) /\ Len(<<plan[s][1]>>) = 1
        /\ <<plan[s][1]>>[1] = 0
    <3>1. 1 \in 1..Len(plan[s])
      BY <1>2
    <3>2. plan[s][1] = 0
      BY <1>2, <3>1
    <3> QED
      BY <3>2
  <2>2. SessionsTypeOK'
    BY <1>1, <1>2, <1>4, <2>1 DEF SessionInv, SessionsTypeOK, Status, TaskAt, NextWait
  <2>3. Alone(s)
    BY <1>1, <1>2, <1>4 DEF SessionInv, SessionsTypeOK, Alone
  <2>4. Follows(s)'
    BY <1>1, <1>2, <1>4, <2>1 DEF Follows
  <2>5. Stage(s)' /\ Control(s)'
    BY <1>1, <1>2, <1>4, <2>1 DEF SessionInv, SessionsTypeOK, Stage, Control, NextWait
  <2> QED
    BY <2>2, <2>3, <2>4, <2>5, FromParts
<1> QED
  BY <1>3, <1>4 DEF BeginTask

LEMMA TurnStep ==
  ASSUME SessionInv, NEW s \in Session, NextTurn(s) \/ Unpaused(s)
  PROVE  SessionInv'
<1>1. UNCHANGED <<sessions, mode, zero, plan, steps>> /\ pc[s] \in {"sleep", "stepped", "unpaused"}
  BY DEF NextTurn, Unpaused, fixed
<1>2. CASE Finish(s) /\ (AllSent(s) \/ Stopped(s))
  <2>1. UNCHANGED <<sent, late>>
    BY <1>2 DEF Finish
  <2>2. SessionsTypeOK' /\ Alone(s)
    BY <1>1, <1>2, <2>1 DEF SessionInv, SessionsTypeOK, Alone, Finish, Status, TaskAt, Stopped
  <2>3. Follows(s)'
    BY <1>1, <2>1 DEF SessionInv, Follows
  <2>4. Stage(s)' /\ Control(s)'
    BY <1>1, <1>2, <2>1 DEF SessionInv, SessionsTypeOK, Stage, Control, Finish, Stopped, AllSent
  <2> QED
    BY <2>2, <2>3, <2>4, FromParts
<1>3. CASE /\ pc[s] # "unpaused" /\ ~AllSent(s) /\ Held(s)
           /\ pc' = [pc EXCEPT ![s] = "pause"] /\ UNCHANGED <<status, timed, sent, late>>
  <2>1. SessionsTypeOK' /\ Alone(s)
    BY <1>1, <1>3 DEF SessionInv, SessionsTypeOK, Alone, TaskAt
  <2>2. Follows(s)' /\ Stage(s)' /\ Control(s)'
    BY <1>1, <1>3 DEF SessionInv, SessionsTypeOK, Follows, Stage, Control, AllSent, Held
  <2> QED
    BY <2>1, <2>2, FromParts
<1>4. CASE /\ SendEvent(s) /\ Len(sent[s]) < Len(plan[s]) /\ ~Stopped(s)
           /\ pc[s] = "unpaused" \/ ~Held(s)
  <2>1. /\ sent'[s] \in Seq(Nat) /\ Len(sent'[s]) = Len(sent[s]) + 1 /\ Len(sent[s]) \in Nat
        /\ Follows(s)'
    BY <1>1, <1>4, SendStep DEF fixed, SessionInv, SessionsTypeOK
  <2>2. PICK at \in {"callback", NextWait(s)} : pc' = [pc EXCEPT ![s] = at]
    BY <1>4 DEF SendEvent
  <2>3. /\ UNCHANGED <<status, timed>>
        /\ late' = [late EXCEPT ![s] = IF status[s] = "paused" THEN @ + 1 ELSE @]
        /\ sent' = [sent EXCEPT ![s] = sent'[s]]
    BY <1>4 DEF SendEvent, SessionInv, SessionsTypeOK
  <2>4. SessionsTypeOK'
    <3>1. late' \in [Session -> Nat] /\ sent' \in [Session -> Seq(Nat)]
      <4>1. late \in [Session -> Nat] /\ sent \in [Session -> Seq(Nat)]
        BY DEF SessionInv, SessionsTypeOK
      <4>2. late' \in [Session -> Nat]
        BY <2>3, <4>1
      <4>3. [sent EXCEPT ![s] = sent'[s]] \in [Session -> Seq(Nat)]
        BY <2>1, <4>1
      <4> QED
        BY <2>3, <4>2, <4>3
    <3>2. pc' \in [Session -> TaskAt] /\ \A r \in Session : pc'[r] = "none" <=> pc[r] = "none"
      BY <1>1, <2>2 DEF SessionInv, SessionsTypeOK, TaskAt, NextWait
    <3> QED
      BY <1>1, <2>3, <3>1, <3>2 DEF SessionInv, SessionsTypeOK
  <2>5. Alone(s)
    BY <1>1, <2>2, <2>3 DEF SessionInv, SessionsTypeOK, Alone
  <2>6. Stage(s)'
    BY <1>1, <1>4, <2>1, <2>2, <2>3 DEF SessionInv, SessionsTypeOK, Stage, NextWait
  <2>7. Control(s)'
    BY <1>1, <1>4, <2>1, <2>2, <2>3 DEF SessionInv, SessionsTypeOK, Control, NextWait, Held, Stopped
  <2> QED
    BY <2>1, <2>4, <2>5, <2>6, <2>7, FromParts
<1>5. Len(sent[s]) \in Nat /\ Len(plan[s]) \in Nat /\ Len(sent[s]) <= Len(plan[s])
  BY DEF SessionInv, SessionsTypeOK, Follows
<1>6. CASE NextTurn(s)
  BY <1>2, <1>3, <1>4, <1>5, <1>6 DEF NextTurn, AllSent
<1>7. CASE Unpaused(s)
  BY <1>2, <1>4, <1>5, <1>7 DEF Unpaused, SessionInv, Stage
<1> QED
  BY <1>6, <1>7

LEMMA ControlSteps ==
  ASSUME SessionInv, NEW s \in Session,
         CallbackReturns(s) \/ Pause(s) \/ Resume(s) \/ Step(s) \/ Abort(s)
  PROVE  SessionInv'
<1>1. UNCHANGED <<sessions, mode, zero, plan, timed, sent>>
  BY DEF CallbackReturns, Pause, Resume, Step, Abort, fixed
<1>2. Follows(s)'
  BY <1>1 DEF SessionInv, Follows
<1>3. CASE CallbackReturns(s)
  <2>1. SessionsTypeOK' /\ Alone(s)
    BY <1>1, <1>3, StepAssumption DEF SessionInv, SessionsTypeOK, Alone, Status, TaskAt,
       CallbackReturns, fixed, NextWait
  <2>2. Stage(s)'
    BY <1>1, <1>3 DEF SessionInv, SessionsTypeOK, Stage, CallbackReturns, fixed, NextWait
  <2>3. Control(s)'
    BY <1>1, <1>3 DEF SessionInv, SessionsTypeOK, Control, CallbackReturns, fixed, NextWait
  <2> QED
    BY <1>2, <2>1, <2>2, <2>3, FromParts
<1>4. CASE Pause(s)
  <2>1. SessionsTypeOK' /\ Alone(s)
    BY <1>1, <1>4, StepAssumption DEF SessionInv, SessionsTypeOK, Alone, Status, TaskAt,
       Pause, Known, fixed
  <2>2. Stage(s)'
    BY <1>1, <1>4 DEF SessionInv, SessionsTypeOK, Stage, Pause, Known, fixed
  <2>3. Control(s)'
    BY <1>1, <1>4 DEF SessionInv, SessionsTypeOK, Control, Pause, Known, fixed
  <2> QED
    BY <1>2, <2>1, <2>2, <2>3, FromParts
<1>5. CASE Resume(s)
  <2>1. SessionsTypeOK' /\ Alone(s)
    BY <1>1, <1>5, StepAssumption DEF SessionInv, SessionsTypeOK, Alone, Status, TaskAt,
       Resume, Known, fixed
  <2>2. Stage(s)'
    BY <1>1, <1>5 DEF SessionInv, SessionsTypeOK, Stage, Resume, Known, fixed
  <2>3. Control(s)'
    BY <1>1, <1>5 DEF SessionInv, SessionsTypeOK, Control, Resume, Known, fixed
  <2> QED
    BY <1>2, <2>1, <2>2, <2>3, FromParts
<1>6. CASE Step(s)
  <2>1. SessionsTypeOK' /\ Alone(s)
    BY <1>1, <1>6, StepAssumption DEF SessionInv, SessionsTypeOK, Alone, Status, TaskAt,
       Step, Known
  <2>2. Stage(s)'
    BY <1>1, <1>6 DEF SessionInv, SessionsTypeOK, Stage, Step, Known
  <2>3. Control(s)'
    BY <1>1, <1>6 DEF SessionInv, SessionsTypeOK, Control, Step, Known
  <2> QED
    BY <1>2, <2>1, <2>2, <2>3, FromParts
<1>7. CASE Abort(s)
  <2>1. SessionsTypeOK' /\ Alone(s)
    BY <1>1, <1>7, StepAssumption DEF SessionInv, SessionsTypeOK, Stage, Alone, Status, TaskAt,
       Abort, Known, Woken, fixed
  <2>2. Stage(s)'
    BY <1>1, <1>7 DEF SessionInv, SessionsTypeOK, Stage, Abort, Known, Woken, fixed
  <2>3. Control(s)'
    BY <1>1, <1>7 DEF SessionInv, SessionsTypeOK, Control, Abort, Known, Woken, fixed
  <2> QED
    BY <1>2, <2>1, <2>2, <2>3, FromParts
<1> QED
  BY <1>3, <1>4, <1>5, <1>6, <1>7

\* A session is accepted with a whole investigation as its plan.
LEMMA PlanIsWhole ==
  ASSUME NEW x \in Snapshots, Valid(x)
  PROVE  /\ Ascending(x.seqs) \in Seq(Nat) /\ Len(Ascending(x.seqs)) > 0
         /\ \A k \in 1..Len(Ascending(x.seqs)) : Ascending(x.seqs)[k] = k - 1
<1> DEFINE n == Len(x.seqs)
<1>1. x.seqs \in Seq(Nat) /\ x.seqs # <<>> /\ n \in Nat /\ n > 0
  BY SnapshotAssumption DEF Valid
<1>2. Ascending(x.seqs) = [i \in 1..n |-> i - 1]
  BY DEF Valid
<1>3. \A i \in 1..n : i - 1 \in Nat
  BY <1>1
<1>4. [i \in 1..n |-> i - 1] \in Seq(Nat)
  BY <1>1, <1>3, IsASeq
<1>5. Len([i \in 1..n |-> i - 1]) = n
  BY <1>1, <1>4
<1> QED
  BY <1>1, <1>2, <1>4, <1>5

LEMMA StartStep ==
  ASSUME SessionInv, NEW s \in Session, NEW x \in Snapshots, NEW m \in Modes, NEW z \in ZeroSpeed,
         StartReplay(s, x, m, z)
  PROVE  SessionInv'
<1>1. /\ status[s] = "none" /\ Valid(x) /\ UNCHANGED <<timed, sent, steps, late>>
      /\ sessions' \subseteq sessions \cup {s}
      /\ status' = [status EXCEPT ![s] = "pending"]
      /\ mode' = [mode EXCEPT ![s] = m]
      /\ zero' = [zero EXCEPT ![s] = z]
      /\ plan' = [plan EXCEPT ![s] = Ascending(x.seqs)]
      /\ pc' = [pc EXCEPT ![s] = "new"]
  BY DEF StartReplay
<1>2. /\ Ascending(x.seqs) \in Seq(Nat) /\ Len(Ascending(x.seqs)) > 0
      /\ \A k \in 1..Len(Ascending(x.seqs)) : Ascending(x.seqs)[k] = k - 1
  BY <1>1, PlanIsWhole
<1>3. m \in {"live", "fast", "step"} /\ z \in BOOLEAN
  BY ReplayModeAssumption
<1>4. SessionsTypeOK'
  <2>1. plan' \in [Session -> Seq(Nat)] /\ zero' \in [Session -> BOOLEAN]
    BY <1>1, <1>2, <1>3 DEF SessionInv, SessionsTypeOK
  <2> QED
    BY <1>1, <1>3, <2>1 DEF SessionInv, SessionsTypeOK, Status, TaskAt
<1>5. Alone(s)
  BY <1>1 DEF SessionInv, SessionsTypeOK, Alone
<1>6. pc[s] = "none" /\ sent[s] = <<>> /\ steps[s] = 0 /\ late[s] <= 1
  BY <1>1 DEF SessionInv, SessionsTypeOK, Stage, Control
<1>7. /\ plan'[s] = Ascending(x.seqs) /\ pc'[s] = "new" /\ status'[s] = "pending"
      /\ sent'[s] = <<>> /\ steps'[s] = 0 /\ late'[s] <= 1
  BY <1>1, <1>6 DEF SessionInv, SessionsTypeOK
<1>8. Follows(s)'
  BY <1>2, <1>7 DEF Follows
<1>9. Stage(s)' /\ Control(s)'
  BY <1>2, <1>7 DEF Stage, Control
<1> QED
  BY <1>4, <1>5, <1>8, <1>9, FromParts

LEMMA ReplayInitially == ReplayInit => SessionInv
BY StepAssumption
   DEF ReplayInit, SessionInv, SessionsTypeOK, Follows, Stage, Control, Status, TaskAt

LEMMA ReplaySteps == SessionInv /\ [ReplayNext]_replayVars => SessionInv'
<1> SUFFICES ASSUME SessionInv, [ReplayNext]_replayVars PROVE SessionInv'
  OBVIOUS
<1>1. CASE UNCHANGED replayVars
  BY <1>1 DEF SessionInv, SessionsTypeOK, Follows, Stage, Control, replayVars
<1>2. CASE ReplayNext
  BY <1>2, StartStep, BeginStep, TurnStep, ControlSteps DEF ReplayNext, TaskStep
<1> QED
  BY <1>1, <1>2

\* The replay sessions keep their invariant.
THEOREM SessionInvariance == ReplaySpec => []SessionInv
BY ReplayInitially, ReplaySteps, PTL DEF ReplaySpec

\* Every variable of the replay sessions stays in its domain.
THEOREM SessionTypes == ReplaySpec => []SessionsTypeOK
<1>1. SessionInv => SessionsTypeOK
  BY DEF SessionInv
<1> QED
  BY <1>1, SessionInvariance, PTL

\* What a session sends is the stored investigation from its start, whole once it says
\* COMPLETED: ReplayEngine's ReplaysWhole.
THEOREM WholeReplay == ReplaySpec => []ReplaysWhole
<1>1. SessionInv => ReplaysWhole
  <2> SUFFICES ASSUME SessionInv, NEW s \in Session
               PROVE  /\ sent[s] = [i \in 1..Len(sent[s]) |-> i - 1]
                      /\ status[s] = "completed" => Len(sent[s]) = Len(plan[s])
    BY DEF SessionInv, ReplaysWhole, ReplaysInOrder, CompletedMeansAllSent
  <2>1. sent[s] \in Seq(Nat) /\ \A k \in 1..Len(sent[s]) : sent[s][k] = k - 1
    BY DEF SessionInv, SessionsTypeOK, Follows
  <2> DEFINE n == Len(sent[s])
  <2>2. n \in Nat /\ \A i \in 1..n : i - 1 \in Nat
    BY <2>1
  <2>3. [i \in 1..n |-> i - 1] \in Seq(Nat) /\ Len([i \in 1..n |-> i - 1]) = n
    BY <2>2, IsASeq
  <2>4. sent[s] = [i \in 1..n |-> i - 1]
    BY <2>1, <2>3, SeqEqual
  <2> QED
    BY <2>4 DEF SessionInv, Stage
<1> QED
  BY <1>1, SessionInvariance, PTL

\* A pause lets one event through at most, and in STEP mode every event after the first
\* was asked for: ReplayEngine's ControlsHold.
THEOREM ControlledReplay == ReplaySpec => []ControlsHold
<1>1. SessionInv => ControlsHold
  BY DEF SessionInv, Control, ControlsHold, PauseHolds, StepsAreAskedFor
<1> QED
  BY <1>1, SessionInvariance, PTL

\* A session that was aborted sends nothing any more: the safety half of ReplayEngine's
\* AbortIsFinal.
THEOREM SilentAfterAbort == ReplaySpec => AbortStops
<1>1. SessionInv /\ [ReplayNext]_replayVars =>
        [\A s \in Session : status[s] = "aborted" => sent'[s] = sent[s]]_replayVars
  <2> SUFFICES ASSUME SessionInv, ReplayNext, NEW s \in Session, status[s] = "aborted"
               PROVE  sent'[s] = sent[s]
    BY DEF replayVars
  <2>1. PICK r \in Session :
          \/ \E x \in Snapshots, m \in Modes, z \in ZeroSpeed : StartReplay(r, x, m, z)
          \/ TaskStep(r)
          \/ Pause(r) \/ Resume(r) \/ Step(r) \/ Abort(r)
    BY DEF ReplayNext
  <2>2. sent \in [Session -> Seq(Nat)] /\ (pc[s] = "new" => status[s] = "pending")
    BY DEF SessionInv, SessionsTypeOK, Stage
  <2>3. CASE \/ \E x \in Snapshots, m \in Modes, z \in ZeroSpeed : StartReplay(r, x, m, z)
             \/ CallbackReturns(r) \/ Pause(r) \/ Resume(r) \/ Step(r) \/ Abort(r)
    BY <2>3 DEF StartReplay, CallbackReturns, Pause, Resume, Step, Abort
  <2>4. CASE BeginTask(r)
    BY <2>2, <2>4 DEF BeginTask
  <2>5. CASE NextTurn(r) \/ Unpaused(r)
    BY <2>2, <2>5 DEF NextTurn, Unpaused, Finish, SendEvent, Stopped
  <2> QED
    BY <2>1, <2>3, <2>4, <2>5 DEF TaskStep
<1> QED
  BY <1>1, SessionInvariance, PTL DEF ReplaySpec, AbortStops
=============================================================================
