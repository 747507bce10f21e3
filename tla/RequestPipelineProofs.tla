------------------------ MODULE RequestPipelineProofs ------------------------
(***************************************************************************)
(* The statuses of answers, and the limiter: what it lets through and whom *)
(* it refuses, for every number of clients and requests and all limits.    *)
(***************************************************************************)
EXTENDS RequestPipeline, FiniteSetTheorems, SequenceTheorems, TLAPS

Filtered == {"BadRequest", "NotFound", "EntityNotFound", "Unauthorized", "Forbidden"}

(* Two filters catch what has a filter of its own: the first, which        *)
(* catches all, and that one.                                              *)
LEMMA TwoCatch ==
  ASSUME NEW e \in Exceptions, NEW n \in 2..5, e \in GlobalFilters[n].catches,
         \A i \in 2..5 : e \in GlobalFilters[i].catches => i = n
  PROVE  StatusOf(e) = GlobalFilters[n].status
<1>1. Len(GlobalFilters) = 5 /\ GlobalFilters[1].catches = Exceptions
  BY DEF GlobalFilters
<1>2. Catching(e) = {1, n}
  BY <1>1 DEF Catching
<1>3. n \in Nat /\ n > 1
  OBVIOUS
<1>4. n \in Catching(e) /\ \A j \in Catching(e) : n >= j
  BY <1>2, <1>3
<1>5. \A i \in Catching(e) : (\A j \in Catching(e) : i >= j) => i = n
  BY <1>2, <1>3
<1>6. (CHOOSE i \in Catching(e) : \A j \in Catching(e) : i >= j) = n
  BY <1>4, <1>5
<1> QED BY <1>6 DEF StatusOf

(* What has no filter of its own goes to the catch-all filter.             *)
LEMMA OneCatches ==
  ASSUME NEW e \in Exceptions \ Filtered
  PROVE  StatusOf(e) = 500
<1>1. Len(GlobalFilters) = 5 /\ GlobalFilters[1].catches = Exceptions
      /\ GlobalFilters[1].status = 500
      /\ \A i \in 2..5 : GlobalFilters[i].catches \subseteq Filtered
  BY DEF GlobalFilters, Filtered
<1>2. Catching(e) = {1}
  BY <1>1 DEF Catching
<1>3. (CHOOSE i \in Catching(e) : \A j \in Catching(e) : i >= j) = 1
  BY <1>2
<1> QED BY <1>1, <1>3 DEF StatusOf

(* The status of every exception (main.ts:82-88).                          *)
LEMMA Answers ==
  /\ StatusOf("BadRequest") = 400
  /\ StatusOf("NotFound") = 404
  /\ StatusOf("EntityNotFound") = 404
  /\ StatusOf("Unauthorized") = 401
  /\ StatusOf("Forbidden") = 403
  /\ \A e \in Exceptions : StatusOf(e) \in Statuses
<1>1. /\ GlobalFilters[2] = [catches |-> {"BadRequest"}, status |-> 400]
      /\ GlobalFilters[3] = [catches |-> {"NotFound", "EntityNotFound"}, status |-> 404]
      /\ GlobalFilters[4] = [catches |-> {"Unauthorized"}, status |-> 401]
      /\ GlobalFilters[5] = [catches |-> {"Forbidden"}, status |-> 403]
  BY DEF GlobalFilters
<1>2. \A i \in 2..5 : i = 2 \/ i = 3 \/ i = 4 \/ i = 5
  OBVIOUS
<1>3. StatusOf("BadRequest") = 400
  BY <1>1, <1>2, TwoCatch DEF Exceptions
<1>4. StatusOf("NotFound") = 404
  BY <1>1, <1>2, TwoCatch DEF Exceptions
<1>5. StatusOf("EntityNotFound") = 404
  BY <1>1, <1>2, TwoCatch DEF Exceptions
<1>6. StatusOf("Unauthorized") = 401
  BY <1>1, <1>2, TwoCatch DEF Exceptions
<1>7. StatusOf("Forbidden") = 403
  BY <1>1, <1>2, TwoCatch DEF Exceptions
<1>8. \A e \in Exceptions : StatusOf(e) \in Statuses
  BY <1>3, <1>4, <1>5, <1>6, <1>7, OneCatches DEF Filtered, Statuses
<1> QED BY <1>3, <1>4, <1>5, <1>6, <1>7, <1>8

-----------------------------------------------------------------------------
(* An exception that was thrown has ended the request, with the status of  *)
(* the filter it goes to.                                                  *)
Sound(x) ==
  /\ x.cause # "none" => x.status = StatusOf(x.cause)
  /\ x.pc # "idle" => x.cause = "none"

IndInv == req \in [Slots -> Requests] /\ \A r \in Slots : Sound(req[r])

(* A step of one request.                                                  *)
LEMMA SlotStep ==
  ASSUME IndInv, NEW r \in Slots, NEW x \in Requests, Sound(x),
         req' = [req EXCEPT ![r] = x]
  PROVE  IndInv'
<1>1. req' \in [Slots -> Requests] /\ \A q \in Slots : Sound(req'[q])
  BY DEF IndInv
<1> QED BY <1>1 DEF IndInv, Sound, StatusOf, Catching, GlobalFilters

(* An exception ends the request.                                          *)
LEMMA ThrowStep ==
  ASSUME IndInv, NEW r \in Slots, NEW e \in Exceptions, Throw(r, e)
  PROVE  IndInv'
<1> DEFINE x == [req[r] EXCEPT !.pc = "idle", !.cause = e, !.status = StatusOf(e)]
<1>1. req' = [req EXCEPT ![r] = x]
  BY DEF Throw
<1>2. StatusOf(e) \in Statuses /\ req[r] \in Requests
  BY Answers DEF IndInv
<1>3. x \in Requests /\ x.cause = e /\ x.status = StatusOf(e) /\ x.pc = "idle"
  BY <1>2 DEF Requests
<1> HIDE DEF x
<1> QED BY <1>1, <1>3, SlotStep DEF Sound

(* A request goes on.                                                      *)
LEMMA PassStep ==
  ASSUME IndInv, NEW r \in Slots, NEW pc \in {"guards", "pipe", "handler"}, Pass(r, pc),
         req[r].pc # "idle"
  PROVE  IndInv'
<1> DEFINE x == [req[r] EXCEPT !.pc = pc]
<1>1. req' = [req EXCEPT ![r] = x]
  BY DEF Pass
<1>2. req[r] \in Requests /\ Sound(req[r])
  BY DEF IndInv
<1>3. x \in Requests /\ x.cause = req[r].cause /\ x.status = req[r].status
  BY <1>2 DEF Requests
<1> HIDE DEF x
<1> QED BY <1>1, <1>2, <1>3, SlotStep DEF Sound

(* What may be thrown on the way is an exception.                          *)
LEMMA Errors ==
  ASSUME NEW route \in Routes
  PROVE  /\ GuardErrors(route) \subseteq Exceptions
         /\ PipeErrors(route) \subseteq Exceptions
         /\ HandlerErrors(route) \subseteq Exceptions
BY DEF Routes, GuardErrors, PipeErrors, HandlerErrors, Exceptions, Public

(* No request is there at first.                                           *)
LEMMA InitIndInv == Init => IndInv
<1>1. (CHOOSE c \in Clients : TRUE) \in Clients
  BY LimitAssumption
<1>2. Idle \in Requests /\ Sound(Idle)
  BY <1>1 DEF Idle, Requests, Routes, Sound
<1> QED BY <1>2 DEF Init, IndInv

(* Every step keeps the invariant.                                         *)
LEMMA NextIndInv == IndInv /\ [Next]_vars => IndInv'
<1> SUFFICES ASSUME IndInv, [Next]_vars PROVE IndInv'
  OBVIOUS
<1>1. ASSUME req' = req PROVE IndInv'
  <2>1. req' \in [Slots -> Requests] /\ \A r \in Slots : Sound(req'[r])
    BY <1>1 DEF IndInv
  <2> QED BY <2>1 DEF IndInv, Sound, StatusOf, Catching, GlobalFilters
<1>2. ASSUME NEW r \in Slots, NEW c \in Clients, NEW route \in Routes, Arrive(r, c, route)
      PROVE  IndInv'
  <2> DEFINE x == [Idle EXCEPT !.pc = "limiter", !.client = c, !.route = route]
  <2>1. x \in Requests /\ Sound(x)
    BY DEF Idle, Requests, Sound
  <2> QED BY <1>2, <2>1, SlotStep DEF Arrive
<1>3. ASSUME NEW r \in Slots, ThrottlerPasses(r) PROVE IndInv'
  BY <1>3, PassStep DEF ThrottlerPasses
<1>4. ASSUME NEW r \in Slots, ThrottlerRefuses(r) PROVE IndInv'
  BY <1>4, ThrowStep DEF ThrottlerRefuses, Exceptions
<1>5. ASSUME NEW r \in Slots PROVE req[r].route \in Routes
  BY DEF IndInv, Requests
<1>6. ASSUME NEW r \in Slots, Guards(r) PROVE IndInv'
  <2>1. CASE Pass(r, "pipe")
    BY <1>6, <2>1, PassStep DEF Guards
  <2>2. ASSUME NEW e \in GuardErrors(req[r].route), Throw(r, e) PROVE IndInv'
    BY <1>5, <2>2, ThrowStep, Errors
  <2> QED BY <1>6, <2>1, <2>2 DEF Guards
<1>7. ASSUME NEW r \in Slots, Pipe(r) PROVE IndInv'
  <2>1. CASE Pass(r, "handler")
    BY <1>7, <2>1, PassStep DEF Pipe
  <2>2. ASSUME NEW e \in PipeErrors(req[r].route), Throw(r, e) PROVE IndInv'
    BY <1>5, <2>2, ThrowStep, Errors
  <2> QED BY <1>7, <2>1, <2>2 DEF Pipe
<1>8. ASSUME NEW r \in Slots, Handler(r) PROVE IndInv'
  <2> DEFINE ok == IF req[r].route \in {"login", "register"} THEN 201 ELSE 200
             x  == [req[r] EXCEPT !.pc = "idle", !.status = ok]
  <2>1. req[r] \in Requests /\ Sound(req[r]) /\ req[r].pc = "handler"
    BY <1>8 DEF Handler, IndInv
  <2>2. CASE req' = [req EXCEPT ![r] = x]
    <3>1. ok \in Statuses
      BY DEF Statuses
    <3> HIDE DEF ok
    <3>2. x \in Requests /\ x.cause = "none"
      BY <2>1, <3>1 DEF Requests, Sound
    <3> HIDE DEF x
    <3> QED BY <2>2, <3>2, SlotStep DEF Sound
  <2>3. CASE \E e \in HandlerErrors(req[r].route) : Throw(r, e)
    BY <1>5, <2>3, ThrowStep, Errors
  <2>4. req' = [req EXCEPT ![r] = x] \/ \E e \in HandlerErrors(req[r].route) : Throw(r, e)
    <3>1. \/ req' = [req EXCEPT ![r].pc = "idle", ![r].status = ok]
          \/ \E e \in HandlerErrors(req[r].route) : Throw(r, e)
      BY <1>8, Zenon DEF Handler
    <3>2. [req EXCEPT ![r].pc = "idle", ![r].status = ok] = [req EXCEPT ![r] = x]
      <4> HIDE DEF ok
      <4> QED OBVIOUS
    <3> QED BY <3>1, <3>2, Zenon
  <2> QED BY <2>2, <2>3, <2>4
<1> QED
  BY <1>1, <1>2, <1>3, <1>4, <1>6, <1>7, <1>8 DEF Next, Serve, Tick, vars

-----------------------------------------------------------------------------
(* An exception that has a filter of its own is answered with the status   *)
(* of its own, whoever throws it (main.ts:82-88).                          *)
THEOREM OwnStatuses == Spec => []OwnStatus
<1>1. IndInv => OwnStatus
  BY Answers DEF IndInv, Sound, OwnStatus
<1> QED BY <1>1, InitIndInv, NextIndInv, PTL DEF Spec

-----------------------------------------------------------------------------
(***************************************************************************)
(* The limiter.  What it has counted for a key and the history of what was *)
(* asked with that key go together: without a block each counted request   *)
(* is one that was asked for, as long ago as it has lost of its window;    *)
(* with one, the one request too many is as long ago as the block has lost *)
(* of its, and what is still counted ends with the block at the latest.    *)
(***************************************************************************)
Sorted(h) == \A i, j \in 1..Len(h) : i <= j => h[i] <= h[j]

Counts(h, b, a, w, limit) ==
  /\ h \in Seq(1..w) /\ Sorted(h) /\ Len(h) <= limit
  /\ b \in 0..w
  /\ b = 0 => a = [i \in 1..Len(h) |-> w - h[i]]
  /\ b > 0 => /\ a = [i \in 1..(limit + 1) |-> w - b]
              /\ \A i \in 1..Len(h) : h[i] <= b

LimiterInv ==
  /\ DOMAIN hits = Keys /\ DOMAIN block = Keys /\ DOMAIN asked = Keys
  /\ \A k \in Keys : Counts(hits[k], block[k], asked[k], WindowOf(k[2]), LimitOf(k[2]))

(* A function on 1..n is a sequence of length n.                           *)
LEMMA OnInterval ==
  ASSUME NEW S, NEW n \in Nat, NEW f \in [1..n -> S]
  PROVE  f \in Seq(S) /\ Len(f) = n
<1>1. f \in Seq(S)
  BY SeqDef
<1>2. Len(f) \in Nat /\ 1..Len(f) = 1..n
  BY <1>1, LenProperties
<1>3. Len(f) = n
  <2>1. Len(f) <= n
    BY <1>2
  <2>2. n <= Len(f)
    BY <1>2
  <2> QED BY <1>2, <2>1, <2>2
<1> QED BY <1>1, <1>3

(* A set of places that holds all places before each of its own is the     *)
(* first so many of them.                                                  *)
LEMMA FirstPlaces ==
  ASSUME NEW n \in Nat, NEW e \in SUBSET (1..n),
         \A i \in e : \A j \in 1..n : j <= i => j \in e
  PROVE  Cardinality(e) \in 0..n /\ e = 1..Cardinality(e)
<1> DEFINE m == Cardinality(e)
<1>1. IsFiniteSet(1..n) /\ Cardinality(1..n) = n
  BY FS_Interval
<1>2. IsFiniteSet(e) /\ m \in Nat /\ m <= n
  BY <1>1, FS_Subset, FS_CardinalityType
<1>3. ASSUME NEW i \in e PROVE i <= m
  <2>1. 1..i \in SUBSET e
    OBVIOUS
  <2>2. Cardinality(1..i) = i
    BY FS_Interval
  <2> QED BY <1>2, <2>1, <2>2, FS_Subset
<1>4. e \in SUBSET (1..m)
  BY <1>2, <1>3
<1>5. IsFiniteSet(1..m) /\ Cardinality(1..m) = m
  BY <1>2, FS_Interval
<1>6. e = 1..m
  <2> HIDE DEF m
  <2> QED BY <1>4, <1>5, FS_Subset DEF m
<1> QED BY <1>2, <1>6

(* What is left when the first so many requests have left the window.      *)
LEMMA WithoutFirst ==
  ASSUME NEW n \in Nat, NEW s \in [1..n -> Int], NEW e \in SUBSET (1..n),
         \A i \in e : \A j \in 1..n : j <= i => j \in e
  PROVE  \E m \in 0..n : /\ e = 1..m
                         /\ Without(s, e) = [i \in 1..(n - m) |-> s[i + m]]
BY OnInterval, FirstPlaces DEF Without

(* A tick ends the window of the oldest of the counted requests ...        *)
LEMMA AgedIs ==
  ASSUME NEW w \in Nat, NEW h \in Seq(1..w), Sorted(h)
  PROVE  \E m \in 0..Len(h) :
           /\ \A i \in 1..Len(h) : h[i] <= 1 <=> i <= m
           /\ Aged(h) = [i \in 1..(Len(h) - m) |-> h[i + m] - 1]
<1> DEFINE n == Len(h)
           s == [i \in 1..n |-> h[i] - 1]
           e == {i \in 1..n : h[i] <= 1}
<1>1. n \in Nat /\ \A i \in 1..n : h[i] \in 1..w
  BY LenProperties
<1>2. s \in [1..n -> Int]
  BY <1>1
<1>3. \A i \in e : \A j \in 1..n : j <= i => j \in e
  BY <1>1 DEF Sorted
<1>4. PICK m \in 0..n : e = 1..m /\ Without(s, e) = [i \in 1..(n - m) |-> s[i + m]]
  <2> HIDE DEF s
  <2>1. e \in SUBSET (1..n)
    OBVIOUS
  <2> HIDE DEF e, n
  <2> QED BY <1>1, <1>2, <1>3, <2>1, WithoutFirst
<1>5. [i \in 1..(n - m) |-> s[i + m]] = [i \in 1..(n - m) |-> h[i + m] - 1]
  <2>1. \A i \in 1..(n - m) : i + m \in 1..n
    BY <1>1, <1>4
  <2>2. \A i \in 1..(n - m) : s[i + m] = h[i + m] - 1
    BY <2>1
  <2> HIDE DEF s, n
  <2> QED BY <2>2
<1>6. \A i \in 1..n : h[i] <= 1 <=> i <= m
  <2>1. \A i \in 1..n : i \in e <=> i \in 1..m
    BY <1>4
  <2> QED BY <1>1, <1>4, <2>1
<1> QED BY <1>4, <1>5, <1>6 DEF Aged

(* ... and makes those too old that were asked for a window ago.           *)
LEMMA RecentIs ==
  ASSUME NEW w \in Nat, NEW n \in Nat, NEW a \in [1..n -> Int],
         \A i, j \in 1..n : i <= j => a[j] <= a[i]
  PROVE  \E m \in 0..n :
           /\ \A i \in 1..n : a[i] + 1 >= w <=> i <= m
           /\ Recent(a, w) = [i \in 1..(n - m) |-> a[i + m] + 1]
<1> DEFINE s == [i \in 1..n |-> a[i] + 1]
           e == {i \in 1..n : a[i] + 1 >= w}
<1>0. Len(a) = n
  BY OnInterval
<1>2. s \in [1..n -> Int]
  OBVIOUS
<1>3. \A i \in e : \A j \in 1..n : j <= i => j \in e
  OBVIOUS
<1>4. PICK m \in 0..n : e = 1..m /\ Without(s, e) = [i \in 1..(n - m) |-> s[i + m]]
  <2> HIDE DEF s
  <2>1. e \in SUBSET (1..n)
    OBVIOUS
  <2> HIDE DEF e
  <2> QED BY <1>2, <1>3, <2>1, WithoutFirst
<1>5. [i \in 1..(n - m) |-> s[i + m]] = [i \in 1..(n - m) |-> a[i + m] + 1]
  <2>1. \A i \in 1..(n - m) : i + m \in 1..n
    BY <1>4
  <2>2. \A i \in 1..(n - m) : s[i + m] = a[i + m] + 1
    BY <2>1
  <2> HIDE DEF s
  <2> QED BY <2>2
<1>6. \A i \in 1..n : a[i] + 1 >= w <=> i <= m
  <2>1. \A i \in 1..n : i \in e <=> i \in 1..m
    BY <1>4
  <2> QED BY <1>4, <2>1
<1> QED BY <1>0, <1>4, <1>5, <1>6 DEF Recent

(* What was asked for with a key: a sequence, of more than the limit with  *)
(* a block and as many as are counted without one.                         *)
LEMMA AskedIs ==
  ASSUME NEW w \in Nat \ {0}, NEW limit \in Nat \ {0}, NEW h, NEW b, NEW a,
         Counts(h, b, a, w, limit)
  PROVE  /\ Len(h) \in Nat /\ \A i \in 1..Len(h) : h[i] \in 1..w
         /\ a \in Seq(0..(w - 1))
         /\ b = 0 => Len(a) = Len(h)
         /\ b > 0 => Len(a) = limit + 1
<1>1. Len(h) \in Nat /\ \A i \in 1..Len(h) : h[i] \in 1..w
  BY LenProperties DEF Counts
<1>2. CASE b = 0
  <2>1. a \in [1..Len(h) -> 0..(w - 1)]
    BY <1>1, <1>2 DEF Counts
  <2>2. a \in Seq(0..(w - 1)) /\ Len(a) = Len(h)
    BY <1>1, <2>1, OnInterval
  <2> QED BY <1>1, <1>2, <2>2
<1>3. CASE b \in 1..w
  <2>1. a \in [1..(limit + 1) -> 0..(w - 1)]
    BY <1>3 DEF Counts
  <2>2. a \in Seq(0..(w - 1)) /\ Len(a) = limit + 1
    BY <1>1, <2>1, OnInterval
  <2> QED BY <1>1, <1>3, <2>2
<1> QED BY <1>2, <1>3 DEF Counts

(* A request that is let through is counted, and was asked for now.        *)
LEMMA PassCounts ==
  ASSUME NEW w \in Nat \ {0}, NEW limit \in Nat \ {0}, NEW h, NEW a,
         Counts(h, 0, a, w, limit), Len(h) < limit
  PROVE  Counts(Append(h, w), 0, Append(a, 0), w, limit)
<1> DEFINE n == Len(h)
           g == Append(h, w)
<1>1. h \in Seq(1..w) /\ n \in Nat /\ \A i \in 1..n : h[i] \in 1..w
  BY AskedIs DEF Counts
<1>2. a \in Seq(0..(w - 1)) /\ Len(a) = n /\ \A i \in 1..n : a[i] = w - h[i]
  <2>1. 0 \in Nat /\ a \in Seq(0..(w - 1)) /\ Len(a) = n
    BY AskedIs
  <2>2. a = [i \in 1..n |-> w - h[i]]
    BY DEF Counts
  <2> QED BY <2>1, <2>2
<1>3. g \in Seq(1..w) /\ Len(g) = n + 1
  BY <1>1
<1>4. g[n + 1] = w /\ \A i \in 1..n : g[i] = h[i]
  BY <1>1
<1>5. \A i \in 1..(n + 1) : i \in 1..n \/ i = n + 1
  BY <1>1
<1>6. Sorted(g)
  <2> SUFFICES ASSUME NEW i \in 1..(n + 1), NEW j \in 1..(n + 1), i <= j
               PROVE  g[i] <= g[j]
    BY <1>3 DEF Sorted
  <2>1. CASE j \in 1..n
    <3>1. i \in 1..n
      BY <1>1, <2>1
    <3> QED BY <1>4, <2>1, <3>1 DEF Counts, Sorted
  <2>2. CASE j = n + 1
    <3>1. g[i] \in 1..w
      BY <1>1, <1>4, <1>5
    <3> QED BY <1>4, <2>2, <3>1
  <2> QED BY <1>5, <2>1, <2>2
<1>7. Append(a, 0) = [i \in 1..(n + 1) |-> w - g[i]]
  <2>1. Append(a, 0) \in Seq(0..(w - 1)) /\ Len(Append(a, 0)) = n + 1
    <3>1. 0 \in 0..(w - 1) /\ a \in Seq(0..(w - 1)) /\ Len(a) = n
      BY <1>2
    <3> HIDE DEF n
    <3> QED BY <3>1, AppendProperties
  <2>2. Append(a, 0) \in [1..(n + 1) -> 0..(w - 1)]
    BY <2>1, LenProperties
  <2>3. Append(a, 0)[n + 1] = 0 /\ \A i \in 1..n : Append(a, 0)[i] = a[i]
    BY <1>1, <1>2
  <2>4. \A i \in 1..(n + 1) : Append(a, 0)[i] = w - g[i]
    BY <1>2, <1>4, <1>5, <2>3
  <2> HIDE DEF g, n
  <2> QED BY <2>2, <2>4
<1>8. Len(g) <= limit /\ 0 \in 0..w
  BY <1>1, <1>3
<1> HIDE DEF g
<1>9. Counts(g, 0, Append(a, 0), w, limit)
  BY <1>3, <1>6, <1>7, <1>8 DEF Counts
<1> QED BY <1>9 DEF g

(* The one request too many starts a block.                                *)
LEMMA RefuseCounts ==
  ASSUME NEW w \in Nat \ {0}, NEW limit \in Nat \ {0}, NEW h, NEW a,
         Counts(h, 0, a, w, limit), Len(h) >= limit
  PROVE  Counts(h, w, [i \in 1..(limit + 1) |-> 0], w, limit)
<1>1. [i \in 1..(limit + 1) |-> 0] = [i \in 1..(limit + 1) |-> w - w]
  OBVIOUS
<1>2. \A i \in 1..Len(h) : h[i] <= w
  BY AskedIs
<1> QED BY <1>1, <1>2 DEF Counts

(* In a tick what is counted and what was asked for grow older alike.      *)
LEMMA TickCounts ==
  ASSUME NEW w \in Nat \ {0}, NEW limit \in Nat \ {0}, NEW h, NEW b, NEW a,
         Counts(h, b, a, w, limit)
  PROVE  Counts(Aged(h), IF b > 0 THEN b - 1 ELSE 0, Recent(a, w), w, limit)
<1> DEFINE n == Len(h)
           g == Aged(h)
           c == IF b > 0 THEN b - 1 ELSE 0
<1>1. n \in Nat /\ (\A i \in 1..n : h[i] \in 1..w) /\ b \in 0..w
  BY AskedIs DEF Counts
<1>2. PICK m \in 0..n : /\ \A i \in 1..n : h[i] <= 1 <=> i <= m
                        /\ g = [i \in 1..(n - m) |-> h[i + m] - 1]
  BY AgedIs DEF Counts
<1> HIDE DEF g
<1>3. \A i \in 1..(n - m) : i + m \in 1..n /\ g[i] = h[i + m] - 1
  BY <1>1, <1>2
<1>4. g \in [1..(n - m) -> 1..w]
  <2>1. \A i \in 1..(n - m) : h[i + m] - 1 \in 1..w
    BY <1>1, <1>2, <1>3
  <2> QED BY <1>2, <2>1
<1>5. g \in Seq(1..w) /\ Len(g) = n - m /\ n - m \in Nat
  BY <1>1, <1>4, OnInterval
<1>6. Sorted(g)
  <2> SUFFICES ASSUME NEW i \in 1..(n - m), NEW j \in 1..(n - m), i <= j
               PROVE  g[i] <= g[j]
    BY <1>5 DEF Sorted
  <2>1. h[i + m] <= h[j + m]
    BY <1>3 DEF Counts, Sorted
  <2> QED BY <1>1, <1>3, <2>1
<1>7. Len(g) <= limit
  BY <1>1, <1>5 DEF Counts
<1>8. CASE b = 0
  <2>1. a \in [1..n -> Int] /\ \A i \in 1..n : a[i] = w - h[i]
    BY <1>1, <1>8 DEF Counts
  <2>2. \A i, j \in 1..n : i <= j => a[j] <= a[i]
    <3> SUFFICES ASSUME NEW i \in 1..n, NEW j \in 1..n, i <= j
                 PROVE  a[j] <= a[i]
      OBVIOUS
    <3>1. h[i] <= h[j]
      BY DEF Counts, Sorted
    <3>2. h[i] \in Int /\ h[j] \in Int /\ a[i] = w - h[i] /\ a[j] = w - h[j]
      BY <1>1, <2>1
    <3> QED BY <3>1, <3>2
  <2>3. PICK p \in 0..n : /\ \A i \in 1..n : a[i] + 1 >= w <=> i <= p
                          /\ Recent(a, w) = [i \in 1..(n - p) |-> a[i + p] + 1]
    BY <1>1, <2>1, <2>2, RecentIs, Zenon
  <2>4. \A i \in 1..n : i <= p <=> i <= m
    <3> SUFFICES ASSUME NEW i \in 1..n PROVE i <= p <=> i <= m
      OBVIOUS
    <3>1. h[i] \in Int /\ a[i] = w - h[i]
      BY <1>1, <2>1
    <3>2. a[i] + 1 >= w <=> h[i] <= 1
      BY <3>1
    <3> QED BY <1>2, <2>3, <3>2
  <2>5. p = m
    BY <1>1, <2>4
  <2>6. \A i \in 1..(n - m) : a[i + m] + 1 = w - g[i]
    <3> SUFFICES ASSUME NEW i \in 1..(n - m) PROVE a[i + m] + 1 = w - g[i]
      OBVIOUS
    <3>1. i + m \in 1..n /\ g[i] = h[i + m] - 1
      BY <1>3
    <3>2. h[i + m] \in 1..w /\ a[i + m] = w - h[i + m]
      BY <1>1, <2>1, <3>1
    <3> QED BY <3>1, <3>2
  <2>7. Recent(a, w) = [i \in 1..Len(g) |-> w - g[i]]
    BY <1>5, <2>3, <2>5, <2>6
  <2>8. c = 0 /\ 0 \in 0..w
    BY <1>8
  <2> HIDE DEF c
  <2>9. Counts(g, c, Recent(a, w), w, limit)
    BY <1>5, <1>6, <1>7, <2>7, <2>8 DEF Counts
  <2> QED BY <2>9 DEF g, c
<1>9. CASE b > 0
  <2> DEFINE all == limit + 1
  <2>0. all \in Nat /\ all > 0
    OBVIOUS
  <2>1. /\ a = [i \in 1..all |-> w - b]
        /\ \A i \in 1..n : h[i] <= b
    BY <1>9 DEF Counts
  <2> HIDE DEF all
  <2>2. a \in [1..all -> Int] /\ \A i \in 1..all : a[i] = w - b
    BY <1>1, <2>1
  <2>3. PICK p \in 0..all : /\ \A i \in 1..all : a[i] + 1 >= w <=> i <= p
                            /\ Recent(a, w) = [i \in 1..(all - p) |-> a[i + p] + 1]
    <3>1. \A i, j \in 1..all : i <= j => a[j] <= a[i]
      BY <1>1, <2>2
    <3> QED BY <2>0, <2>2, <3>1, RecentIs
  <2>4. CASE b = 1
    <3>1. m = n
      BY <1>1, <1>2, <2>1, <2>4
    <3>2. p = all
      BY <1>1, <2>0, <2>2, <2>3, <2>4
    <3>3. c = 0 /\ Len(g) = 0
      BY <1>1, <1>5, <2>4, <3>1
    <3>4. Recent(a, w) = [i \in 1..Len(g) |-> w - g[i]]
      BY <2>0, <2>3, <3>2, <3>3
    <3>5. 0 \in 0..w
      OBVIOUS
    <3> HIDE DEF c
    <3>6. Counts(g, c, Recent(a, w), w, limit)
      BY <1>5, <1>6, <1>7, <3>3, <3>4, <3>5 DEF Counts
    <3> QED BY <3>6 DEF g, c
  <2>5. CASE b > 1
    <3>1. p = 0
      BY <1>1, <2>0, <2>2, <2>3, <2>5
    <3>2. c = b - 1 /\ c \in 0..w /\ c > 0
      BY <1>1, <1>9, <2>5
    <3>3. Recent(a, w) = [i \in 1..all |-> w - c]
      <4>1. \A i \in 1..all : a[i + p] + 1 = w - c
        BY <1>1, <2>2, <3>1, <3>2
      <4>2. all - p = all
        BY <2>0, <3>1
      <4> HIDE DEF c
      <4> QED BY <2>3, <4>1, <4>2
    <3>4. \A i \in 1..Len(g) : g[i] <= c
      <4> SUFFICES ASSUME NEW i \in 1..(n - m) PROVE g[i] <= c
        BY <1>5
      <4>1. i + m \in 1..n /\ g[i] = h[i + m] - 1
        BY <1>3
      <4>2. h[i + m] \in Int /\ h[i + m] <= b
        BY <1>1, <2>1, <4>1
      <4> QED BY <1>1, <3>2, <4>1, <4>2
    <3> HIDE DEF c
    <3>5. Counts(g, c, Recent(a, w), w, limit)
      BY <1>5, <1>6, <1>7, <3>2, <3>3, <3>4 DEF Counts, all
    <3> QED BY <3>5 DEF g, c
  <2> QED BY <1>1, <1>9, <2>4, <2>5
<1> QED BY <1>1, <1>8, <1>9

-----------------------------------------------------------------------------
(* Every route has a limit and a window.                                   *)
LEMMA Bounds ==
  ASSUME NEW route
  PROVE  LimitOf(route) \in Nat \ {0} /\ WindowOf(route) \in Nat \ {0}
BY LimitAssumption DEF LimitOf, WindowOf

LEMMA KeyOfRequest ==
  ASSUME IndInv, NEW r \in Slots
  PROVE  Key(r) \in Keys /\ Key(r)[2] = req[r].route
BY DEF IndInv, Requests, Key, Keys

CountsAt(k) == Counts(hits[k], block[k], asked[k], WindowOf(k[2]), LimitOf(k[2]))

(* A step that is about one key.                                           *)
LEMMA OneKey ==
  ASSUME LimiterInv, NEW k \in Keys, CountsAt(k)',
         DOMAIN hits' = Keys, DOMAIN block' = Keys, DOMAIN asked' = Keys,
         \A q \in Keys \ {k} : hits'[q] = hits[q] /\ block'[q] = block[q] /\ asked'[q] = asked[q]
  PROVE  LimiterInv'
BY DEF LimiterInv, CountsAt

(* What the limiter has counted holds before a request and after it, and   *)
(* one that is let through has not asked too often.                        *)
LEMMA PassKeeps ==
  ASSUME IndInv, LimiterInv, NEW r \in Slots, ThrottlerPasses(r)
  PROVE  LimiterInv' /\ ~Pressed(Key(r))'
<1>1. PICK k \in Keys : k = Key(r) /\ k[2] = req[r].route
  BY KeyOfRequest
<1> DEFINE w == WindowOf(k[2])
           limit == LimitOf(k[2])
<1>2. w \in Nat \ {0} /\ limit \in Nat \ {0}
  BY Bounds
<1>3. /\ Counts(hits[k], block[k], asked[k], w, limit)
      /\ DOMAIN hits = Keys /\ DOMAIN block = Keys /\ DOMAIN asked = Keys
  BY <1>1 DEF LimiterInv
<1>4. /\ block[k] = 0 /\ Len(hits[k]) < limit
      /\ hits' = [hits EXCEPT ![k] = Append(@, w)]
      /\ Ask(k) /\ block' = block
  BY <1>1 DEF ThrottlerPasses
<1> HIDE DEF w, limit
<1>5. Len(hits[k]) \in Nat /\ Len(asked[k]) = Len(hits[k])
  BY <1>2, <1>3, <1>4, AskedIs
<1>6. asked' = [asked EXCEPT ![k] = Append(@, 0)]
  <2>1. ~Pressed(k) /\ Len(asked[k]) # LimitOf(k[2])
    BY <1>2, <1>4, <1>5 DEF Pressed, limit
  <2> QED BY <1>4, <2>1 DEF Ask
<1>7. Counts(Append(hits[k], w), 0, Append(asked[k], 0), w, limit)
  BY <1>2, <1>3, <1>4, PassCounts
<1>8. hits'[k] = Append(hits[k], w) /\ block'[k] = 0 /\ asked'[k] = Append(asked[k], 0)
  BY <1>1, <1>3, <1>4, <1>6
<1>9. CountsAt(k)'
  BY <1>7, <1>8 DEF CountsAt, w, limit
<1>10. DOMAIN hits' = Keys /\ DOMAIN block' = Keys /\ DOMAIN asked' = Keys
  BY <1>3, <1>4, <1>6
<1>11. \A q \in Keys \ {k} : hits'[q] = hits[q] /\ block'[q] = block[q] /\ asked'[q] = asked[q]
  BY <1>3, <1>4, <1>6
<1>12. ~Pressed(Key(r))'
  <2>1. Key(r)' = k
    BY <1>1 DEF ThrottlerPasses, Pass, IndInv, Key
  <2>2. Len(asked'[k]) = Len(hits[k]) + 1
    <3>1. asked[k] \in Seq(0..(w - 1)) /\ 0 \in 0..(w - 1)
      BY <1>2, <1>3, AskedIs
    <3> QED BY <1>5, <1>8, <3>1, AppendProperties
  <2>3. ~(Len(asked'[k]) > limit)
    BY <1>2, <1>4, <1>5, <2>2
  <2> QED BY <2>1, <2>3 DEF Pressed, limit
<1>13. LimiterInv'
  BY <1>1, <1>9, <1>10, <1>11, OneKey
<1> QED BY <1>12, <1>13

(* A refusal keeps it as well, and comes to one who has asked too often.   *)
LEMMA RefuseKeeps ==
  ASSUME IndInv, LimiterInv, NEW r \in Slots, ThrottlerRefuses(r)
  PROVE  LimiterInv' /\ Pressed(Key(r))'
<1>1. PICK k \in Keys : k = Key(r) /\ k[2] = req[r].route
  BY KeyOfRequest
<1> DEFINE w == WindowOf(k[2])
           limit == LimitOf(k[2])
<1>2. w \in Nat \ {0} /\ limit \in Nat \ {0}
  BY Bounds
<1>3. /\ Counts(hits[k], block[k], asked[k], w, limit)
      /\ DOMAIN hits = Keys /\ DOMAIN block = Keys /\ DOMAIN asked = Keys
  BY <1>1 DEF LimiterInv
<1>4. /\ block[k] > 0 \/ Len(hits[k]) >= limit
      /\ block' = [block EXCEPT ![k] = IF @ > 0 THEN @ ELSE w]
      /\ Ask(k) /\ hits' = hits
  BY <1>1 DEF ThrottlerRefuses
<1>5. Key(r)' = k
  BY <1>1 DEF ThrottlerRefuses, Throw, IndInv, Key
<1> HIDE DEF w, limit
<1>6. /\ Len(hits[k]) \in Nat /\ Len(hits[k]) <= limit /\ block[k] \in 0..w
      /\ block[k] = 0 => Len(asked[k]) = Len(hits[k])
      /\ block[k] > 0 => Len(asked[k]) = limit + 1
  BY <1>2, <1>3, AskedIs DEF Counts
<1>7. asked' = [asked EXCEPT ![k] = asked'[k]]
  BY <1>1, <1>3, <1>4 DEF Ask
<1>8. CountsAt(k)' /\ Len(asked'[k]) = limit + 1
  <2>1. CASE block[k] > 0
    <3>1. block'[k] = block[k]
      BY <1>1, <1>3, <1>4, <2>1
    <3>2. Pressed(k) /\ Len(asked[k]) # LimitOf(k[2])
      BY <1>2, <1>6, <2>1 DEF Pressed, limit
    <3>3. asked'[k] = asked[k]
      BY <1>1, <1>3, <1>4, <3>2 DEF Ask
    <3> QED BY <1>3, <1>4, <1>6, <2>1, <3>1, <3>3 DEF CountsAt, w, limit
  <2>2. CASE block[k] = 0
    <3>1. block'[k] = w /\ Len(hits[k]) = limit
      BY <1>1, <1>2, <1>3, <1>4, <1>6, <2>2
    <3>2. ~Pressed(k) /\ Len(asked[k]) = LimitOf(k[2])
      BY <1>2, <1>6, <2>2, <3>1 DEF Pressed, limit
    <3>3. asked'[k] = [i \in 1..(limit + 1) |-> 0]
      BY <1>1, <1>3, <1>4, <3>2 DEF Ask, limit
    <3>4. Counts(hits[k], w, asked'[k], w, limit)
      BY <1>2, <1>3, <1>6, <2>2, <3>1, <3>3, RefuseCounts
    <3>5. Len(asked'[k]) = limit + 1
      <4>1. [i \in 1..(limit + 1) |-> 0] \in [1..(limit + 1) -> {0}] /\ limit + 1 \in Nat
        BY <1>2
      <4> QED BY <3>3, <4>1, OnInterval
    <3> QED BY <1>4, <3>1, <3>4, <3>5 DEF CountsAt, w, limit
  <2> QED BY <1>2, <1>6, <2>1, <2>2
<1>9. DOMAIN hits' = Keys /\ DOMAIN block' = Keys /\ DOMAIN asked' = Keys
  BY <1>3, <1>4 DEF Ask
<1>10. \A q \in Keys \ {k} : hits'[q] = hits[q] /\ block'[q] = block[q] /\ asked'[q] = asked[q]
  BY <1>3, <1>4 DEF Ask
<1>11. LimiterInv'
  BY <1>1, <1>8, <1>9, <1>10, OneKey
<1>12. Pressed(Key(r))'
  BY <1>2, <1>5, <1>8 DEF Pressed, limit
<1> QED BY <1>11, <1>12

(* Every key grows older in a tick.                                        *)
LEMMA TickKeeps ==
  ASSUME LimiterInv, Tick
  PROVE  LimiterInv'
<1>1. DOMAIN hits' = Keys /\ DOMAIN block' = Keys /\ DOMAIN asked' = Keys
  BY DEF Tick
<1>2. ASSUME NEW k \in Keys PROVE CountsAt(k)'
  <2>1. /\ hits'[k] = Aged(hits[k])
        /\ block'[k] = IF block[k] > 0 THEN block[k] - 1 ELSE 0
        /\ asked'[k] = Recent(asked[k], WindowOf(k[2]))
    BY DEF Tick
  <2>2. Counts(hits[k], block[k], asked[k], WindowOf(k[2]), LimitOf(k[2]))
    BY DEF LimiterInv
  <2> QED BY <2>1, <2>2, Bounds, TickCounts DEF CountsAt
<1> QED BY <1>1, <1>2 DEF LimiterInv, CountsAt

(* At first nothing is counted and nothing was asked for.                  *)
LEMMA InitLimiter == Init => LimiterInv
<1> SUFFICES ASSUME Init PROVE LimiterInv
  OBVIOUS
<1>1. ASSUME NEW k \in Keys PROVE CountsAt(k)
  <2> DEFINE w == WindowOf(k[2])
             limit == LimitOf(k[2])
  <2>1. hits[k] = <<>> /\ block[k] = 0 /\ asked[k] = <<>>
    BY DEF Init
  <2>2. w \in Nat \ {0} /\ limit \in Nat \ {0}
    BY Bounds
  <2> HIDE DEF w, limit
  <2>3. Counts(<<>>, 0, <<>>, w, limit)
    <3>1. <<>> \in Seq(1..w) /\ Len(<<>>) = 0 /\ Sorted(<<>>)
      BY EmptySeq DEF Sorted
    <3>2. <<>> = [i \in 1..0 |-> w - <<>>[i]]
      OBVIOUS
    <3>3. 0 \in 0..w /\ 0 <= limit
      BY <2>2
    <3> QED BY <3>1, <3>2, <3>3 DEF Counts
  <2> QED BY <2>1, <2>3 DEF CountsAt, w, limit
<1> QED BY <1>1 DEF LimiterInv, CountsAt, Init

LEMMA NextLimiter == IndInv /\ LimiterInv /\ [Next]_vars => LimiterInv'
<1> SUFFICES ASSUME IndInv, LimiterInv, [Next]_vars PROVE LimiterInv'
  OBVIOUS
<1>1. ASSUME UNCHANGED <<hits, block, asked>> PROVE LimiterInv'
  BY <1>1 DEF LimiterInv
<1>2. ASSUME NEW r \in Slots, Serve(r) PROVE LimiterInv'
  BY <1>1, <1>2, PassKeeps, RefuseKeeps DEF Serve, Guards, Pipe, Handler
<1> QED BY <1>1, <1>2, TickKeeps DEF Next, Arrive, vars

LEMMA LimiterHolds == Spec => [](IndInv /\ LimiterInv)
BY InitIndInv, NextIndInv, InitLimiter, NextLimiter, PTL DEF Spec

-----------------------------------------------------------------------------
(* Type correctness: no request counts for longer than its window, and no  *)
(* block lasts longer than one.                                            *)
THEOREM RequestTypes == Spec => []TypeOK
<1>1. IndInv /\ LimiterInv => TypeOK
  <2> SUFFICES ASSUME IndInv, LimiterInv PROVE TypeOK
    OBVIOUS
  <2>1. ASSUME NEW k \in Keys
        PROVE  /\ hits[k] \in Seq(1..WindowOf(k[2])) /\ block[k] \in 0..WindowOf(k[2])
               /\ asked[k] \in Seq(0..(WindowOf(k[2]) - 1))
    <3>1. Counts(hits[k], block[k], asked[k], WindowOf(k[2]), LimitOf(k[2]))
      BY DEF LimiterInv
    <3>2. asked[k] \in Seq(0..(WindowOf(k[2]) - 1))
      BY <3>1, Bounds, AskedIs
    <3> QED BY <3>1, <3>2 DEF Counts
  <2> QED BY <2>1 DEF TypeOK, LimiterInv, IndInv
<1> QED BY <1>1, LimiterHolds, PTL

(* The limiter refuses a client if and only if it asked more often than    *)
(* the limit within one window, blocks included: no one who keeps to the   *)
(* limit is refused, no one who does not is let through                    *)
(* (app.module.ts:31-43, throttle.decorator.ts:7-28).                      *)
THEOREM LimiterIsJust == Spec => RefusesIffPressed
<1>1. IndInv /\ LimiterInv /\ [Next]_vars
        => [\A r \in Slots : /\ ThrottlerRefuses(r) => Pressed(Key(r))'
                             /\ ThrottlerPasses(r) => ~Pressed(Key(r))']_vars
  BY PassKeeps, RefuseKeeps
<1> QED BY <1>1, LimiterHolds, PTL DEF Spec, RefusesIffPressed
=============================================================================
