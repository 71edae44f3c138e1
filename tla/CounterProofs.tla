---------------------------- MODULE CounterProofs ----------------------------
(***************************************************************************)
(* Theorems about the two components that decide by counters alone and     *)
(* share nothing else: RateLimiter's tokens, and further down the bytes    *)
(* and requests of BatchSizing.                                            *)
(*                                                                         *)
(* RateLimiter, for any rate, burst and cutoff with which whoever is       *)
(* forgotten would have had a full bucket: what was granted in the window  *)
(* and what could be granted now add up to at most a burst and what came   *)
(* back since the window began.                                            *)
(***************************************************************************)
EXTENDS RateLimiter, BatchSizing, FiniteSetTheorems, TLAPS

\* What the watched caller could be granted at once.
Available == IF Watched \in buckets THEN Refilled(Watched) ELSE Burst

Account == granted + Available <= Burst + Rate * (now - since)

\* The ticker is on time, and its last turn left no stale bucket.
Ticking ==
  /\ now <= ticked + Period
  /\ \A ip \in buckets : ticked - lastSeen[ip] <= StaleAfter

IInv == TypeOK /\ Account /\ Ticking

\* How a product with the rate grows.
LEMMA Growth ==
  ASSUME NEW r \in Nat, NEW a \in Nat, NEW b \in Nat
  PROVE  /\ r * a \in Nat
         /\ r * (a + 1) = r * a + r
         /\ r * 0 = 0
         /\ a <= b => r * a <= r * b
  OBVIOUS

\* The refilled amount is between nothing and a burst.
LEMMA RefilledType ==
  ASSUME TypeOK, NEW ip \in IP
  PROVE  /\ Refilled(ip) \in 0 .. Burst
         /\ tokens[ip] \in Nat /\ Rate * (now - lastSeen[ip]) \in Nat
         /\ now - lastSeen[ip] \in Nat /\ now - since \in Nat
         /\ Rate * (now - since) \in Nat
<1>1. now - lastSeen[ip] \in Nat /\ tokens[ip] \in 0 .. Burst /\ now - since \in Nat
  BY DEF TypeOK
<1>2. Rate * (now - lastSeen[ip]) \in Nat /\ Rate * (now - since) \in Nat
  BY <1>1, Growth, SizesAssumption
<1>. QED
  BY <1>1, <1>2, SizesAssumption DEF Refilled

\* The invariant holds initially.
LEMMA InitHolds == Init => IInv
<1> SUFFICES ASSUME Init PROVE IInv
  OBVIOUS
<1> USE SizesAssumption DEF Init
<1>1. TypeOK
  BY DEF TypeOK
<1>2. Rate * (now - since) = 0
  BY Growth
<1>3. Account
  BY <1>2 DEF Account, Available
<1>4. Ticking
  BY DEF Ticking
<1>. QED
  BY <1>1, <1>3, <1>4 DEF IInv

\* A request that is answered at once leaves its caller's bucket refilled, less
\* what it was granted; nobody else's bucket changes.
LEMMA RequestHolds ==
  ASSUME IInv, NEW ip \in IP, NEW t \in 0 .. Burst, NEW parts \in Nat,
         buckets' = buckets \cup {ip},
         tokens' = [tokens EXCEPT ![ip] = t],
         lastSeen' = [lastSeen EXCEPT ![ip] = now],
         Counted(ip, parts),
         UNCHANGED <<now, ticked, since>>,
         ip = Watched => t + parts = Available
  PROVE  IInv'
<1>. USE DEF IInv
<1>1. TypeOK /\ Watched \in IP /\ now \in Nat
  BY SizesAssumption DEF TypeOK
<1>2. TypeOK'
  BY <1>1 DEF TypeOK, Counted
<1>3. Ticking'
  <2>1. ticked - now <= StaleAfter
    BY <1>1, SizesAssumption DEF TypeOK
  <2>2. \A other \in IP : lastSeen'[other] = IF other = ip THEN now ELSE lastSeen[other]
    BY <1>1 DEF TypeOK
  <2>. QED
    BY <1>1, <2>1, <2>2 DEF Ticking, TypeOK
<1>4. CASE ip = Watched
  <2>1. /\ Watched \in buckets' /\ tokens'[Watched] = t /\ lastSeen'[Watched] = now
        /\ now' = now
    BY <1>1, <1>4 DEF TypeOK
  <2>2. Rate * (now - now) = 0
    BY <1>1, Growth, SizesAssumption
  <2>3. Available' = t
    BY <2>1, <2>2, SizesAssumption DEF Available, Refilled
  <2>4. granted' = granted + parts /\ since' = since
    BY <1>4 DEF Counted
  <2>5. granted \in Nat /\ Available \in Nat /\ Rate * (now - since) \in Nat
    BY <1>1, RefilledType, SizesAssumption DEF Available, TypeOK
  <2>6. Account'
    BY <1>4, <2>1, <2>3, <2>4, <2>5, SizesAssumption DEF Account
  <2>. QED
    BY <1>2, <1>3, <2>6
<1>5. CASE ip # Watched
  <2>1. /\ Watched \in buckets' <=> Watched \in buckets
        /\ tokens'[Watched] = tokens[Watched] /\ lastSeen'[Watched] = lastSeen[Watched]
        /\ now' = now /\ since' = since /\ granted' = granted
    BY <1>1, <1>5 DEF TypeOK, Counted
  <2>2. Account'
    BY <2>1 DEF Account, Available, Refilled
  <2>. QED
    BY <1>2, <1>3, <2>2
<1>. QED
  BY <1>4, <1>5

\* Forgetting a caller gives it nothing: its bucket would be full again.
LEMMA CleanupHolds ==
  ASSUME IInv, Cleanup
  PROVE  IInv'
<1>. USE DEF IInv
<1>1. /\ TypeOK /\ Watched \in IP
      /\ now = ticked + Period /\ ticked' = now
      /\ buckets' = {ip \in buckets : ~Stale(ip)}
      /\ \A ip \in IP : tokens'[ip] = IF ip \in buckets /\ Stale(ip) THEN 0 ELSE tokens[ip]
      /\ \A ip \in IP : lastSeen'[ip] = IF ip \in buckets /\ Stale(ip) THEN 0 ELSE lastSeen[ip]
      /\ now' = now /\ since' = since /\ granted' = granted
  BY SizesAssumption DEF Cleanup, CleanupDue
<1>2. TypeOK'
  BY <1>1, SizesAssumption DEF TypeOK, Cleanup
<1>3. Ticking'
  <2>1. \A ip \in buckets' : now - lastSeen'[ip] <= StaleAfter
    <3> SUFFICES ASSUME NEW ip \in buckets' PROVE now - lastSeen'[ip] <= StaleAfter
      OBVIOUS
    <3>1. ip \in IP /\ ip \in buckets /\ ~Stale(ip) /\ lastSeen'[ip] = lastSeen[ip]
      BY <1>1 DEF TypeOK
    <3>2. lastSeen[ip] \in Nat /\ now \in Nat
      BY <1>1, <3>1 DEF TypeOK
    <3>. QED
      BY <3>1, <3>2, SizesAssumption DEF Stale
  <2>. QED
    BY <1>1, <2>1, SizesAssumption DEF Ticking, TypeOK
<1>4. CASE Watched \in buckets /\ Stale(Watched)
  <2>1. Available' = Burst
    BY <1>1, <1>4 DEF Available
  <2>2. StaleAfter <= now - lastSeen[Watched] /\ now - lastSeen[Watched] \in Nat
    BY <1>1, <1>4, RefilledType, SizesAssumption DEF Stale, TypeOK
  <2>3. Rate * StaleAfter <= Rate * (now - lastSeen[Watched]) /\ Rate * StaleAfter \in Nat
    BY <2>2, Growth, SizesAssumption
  <2>4. /\ tokens[Watched] \in Nat /\ Rate * (now - lastSeen[Watched]) \in Nat
    BY <1>1, RefilledType
  <2>5. Available = Burst
    BY <1>4, <2>3, <2>4, RefillsAssumption, SizesAssumption DEF Available, Refilled
  <2>6. Account'
    BY <1>1, <2>1, <2>5 DEF Account
  <2>. QED
    BY <1>2, <1>3, <2>6
<1>5. CASE ~(Watched \in buckets /\ Stale(Watched))
  <2>1. /\ Watched \in buckets' <=> Watched \in buckets
        /\ tokens'[Watched] = tokens[Watched] /\ lastSeen'[Watched] = lastSeen[Watched]
    BY <1>1, <1>5
  <2>2. Account'
    BY <1>1, <2>1 DEF Account, Available, Refilled
  <2>. QED
    BY <1>2, <1>3, <2>2
<1>. QED
  BY <1>4, <1>5

\* As time passes no more comes back than the rate says.
LEMMA PassHolds ==
  ASSUME IInv, Pass
  PROVE  IInv'
<1>. USE DEF IInv
<1>1. /\ TypeOK /\ Watched \in IP /\ now' = now + 1 /\ now < ticked + Period
      /\ UNCHANGED <<buckets, tokens, lastSeen, ticked, since, granted>>
  BY SizesAssumption DEF Pass, bucketVars, CleanupDue
<1>2. TypeOK'
  BY <1>1 DEF TypeOK
<1>3. Ticking'
  BY <1>1, SizesAssumption DEF Ticking, TypeOK
<1>4. /\ now - since \in Nat /\ now - lastSeen[Watched] \in Nat
      /\ tokens[Watched] \in Nat /\ granted \in Nat
  BY <1>1, RefilledType DEF TypeOK
<1>5. /\ Rate * (now - since) \in Nat
      /\ Rate * ((now - since) + 1) = Rate * (now - since) + Rate
      /\ Rate * (now - lastSeen[Watched]) \in Nat
      /\ Rate * ((now - lastSeen[Watched]) + 1) = Rate * (now - lastSeen[Watched]) + Rate
  BY <1>4, Growth, SizesAssumption
<1>6. /\ (now - since) + 1 = now' - since'
      /\ (now - lastSeen[Watched]) + 1 = now' - lastSeen'[Watched]
  BY <1>1, <1>4 DEF TypeOK
<1>7. Available' <= Available + Rate
  BY <1>1, <1>4, <1>5, <1>6, SizesAssumption DEF Available, Refilled
<1>8. Available \in Nat /\ Available' \in Nat
  BY <1>1, <1>2, <1>4, <1>5, <1>6, SizesAssumption DEF Available, Refilled
<1>9. Account'
  BY <1>1, <1>4, <1>5, <1>6, <1>7, <1>8, SizesAssumption DEF Account
<1>. QED
  BY <1>2, <1>3, <1>9

\* A window may begin at any time.
LEMMA ObserveHolds ==
  ASSUME IInv, Observe
  PROVE  IInv'
<1>. USE DEF IInv
<1>1. /\ TypeOK /\ since' = now /\ granted' = 0 /\ now \in Nat
      /\ UNCHANGED <<now, buckets, tokens, lastSeen, ticked>>
  BY DEF Observe, bucketVars, TypeOK
<1>2. TypeOK' /\ Ticking'
  BY <1>1 DEF TypeOK, Ticking
<1>3. Rate * (now' - since') = 0
  BY <1>1, Growth, SizesAssumption
<1>4. Available \in 0 .. Burst /\ Available' = Available
  BY <1>1, RefilledType, SizesAssumption DEF Available, Refilled
<1>5. Account'
  BY <1>1, <1>3, <1>4, SizesAssumption DEF Account
<1>. QED
  BY <1>2, <1>5

\* Every step preserves the invariant.
LEMMA StepHolds == IInv /\ [Next]_vars => IInv'
<1> SUFFICES ASSUME IInv, [Next]_vars PROVE IInv'
  OBVIOUS
<1>0. TypeOK /\ Burst - Unit \in 0 .. Burst /\ Unit \in Nat
  BY SizesAssumption DEF IInv
<1>1. ASSUME NEW ip \in IP, AllowNew(ip) PROVE IInv'
  <2>1. (Burst - Unit) + Unit = Burst
    BY SizesAssumption
  <2>2. ip = Watched => (Burst - Unit) + Unit = Available
    BY <1>1, <2>1 DEF AllowNew, Available
  <2>. QED
    BY <1>0, <1>1, <2>2, RequestHolds DEF AllowNew
<1>2. ASSUME NEW ip \in IP, Allow(ip) PROVE IInv'
  <2>1. buckets \cup {ip} = buckets /\ buckets' = buckets
    BY <1>2 DEF Allow
  <2>2. Refilled(ip) - Unit \in 0 .. Burst /\ Refilled(ip) \in Nat
    BY <1>0, <1>2, RefilledType, SizesAssumption DEF Allow
  <2>3. ip = Watched => Refilled(ip) - Unit + Unit = Available
    BY <1>0, <1>2, <2>2 DEF Allow, Available
  <2>. QED
    BY <1>0, <1>2, <2>1, <2>2, <2>3, RequestHolds DEF Allow
<1>3. ASSUME NEW ip \in IP, Refuse(ip) PROVE IInv'
  <2>1. buckets \cup {ip} = buckets /\ buckets' = buckets
    BY <1>3 DEF Refuse
  <2>2. Refilled(ip) \in 0 .. Burst
    BY <1>0, RefilledType
  <2>3. ip = Watched => Refilled(ip) + 0 = Available
    BY <1>3, <2>2 DEF Refuse, Available
  <2>4. Counted(ip, 0)
    BY <1>0, <1>3 DEF Refuse, Counted, TypeOK
  <2>. QED
    BY <1>3, <2>1, <2>2, <2>3, <2>4, RequestHolds DEF Refuse
<1>4. CASE UNCHANGED vars
  BY <1>4 DEF IInv, TypeOK, Account, Available, Refilled, Ticking, vars, bucketVars
<1>. QED
  BY <1>1, <1>2, <1>3, <1>4, CleanupHolds, PassHolds, ObserveHolds DEF Next

\* The inductive invariant holds always.
THEOREM Invariance == Spec => []IInv
  BY InitHolds, StepHolds, PTL DEF Spec

\* Every variable keeps its type, and no bucket overflows.
THEOREM TypeCorrect == Spec => []TypeOK
<1>1. IInv => TypeOK
  BY DEF IInv
<1>. QED
  BY <1>1, Invariance, PTL

\* No caller gets more than a burst and the rate in any window, for any limits
\* and any interleaving of callers, cleanups and pauses.
THEOREM WindowsAreBounded == Spec => []WindowBound
<1>1. IInv => WindowBound
  <2> SUFFICES ASSUME IInv PROVE WindowBound
    OBVIOUS
  <2>1. Available \in Nat /\ granted \in Nat /\ Rate * (now - since) \in Nat
    BY RefilledType, SizesAssumption DEF IInv, Available, TypeOK
  <2>. QED
    BY <2>1, SizesAssumption DEF IInv, Account, WindowBound
<1>. QED
  BY <1>1, Invariance, PTL

\* Buckets are forgotten in time.
THEOREM BucketsAreForgotten == Spec => []BucketsExpire
<1>1. IInv => BucketsExpire
  <2> SUFFICES ASSUME IInv, NEW ip \in buckets
               PROVE  now - lastSeen[ip] <= StaleAfter + Period
    BY DEF BucketsExpire
  <2>1. ip \in IP /\ lastSeen[ip] \in Nat /\ now \in Nat /\ ticked \in Nat
    BY DEF IInv, TypeOK
  <2>. QED
    BY <2>1, SizesAssumption DEF IInv, Ticking
<1>. QED
  BY <1>1, Invariance, PTL
-----------------------------------------------------------------------------
(* BatchSizing, for any number of workers, sources, pieces and bytes: batches *)
(* do not grow on their own.                                                 *)

\* The workers that have added their bytes to s and not yet their request.
Updaters(s) == {v \in Worker : pc[v] = "addRequest" /\ src[v] = s}

\* A worker that claimed something has picked a source, and has read no more
\* requests than there are.
Picked ==
  \A w \in Worker :
    /\ pc[w] \in {"sizing", "fetch", "addBytes", "addRequest"} => src[w] \in Source
    /\ pc[w] = "sizing" => rc[w] <= requestCount[src[w]]

\* As long as nothing disturbed a size, batches and bodies are one piece, and a
\* source has moved at most one piece for each request that was added or will be.
Undisturbed ==
  ~disturbed =>
    /\ \A w \in Worker : batch[w] = {} \/ \E i \in 0 .. N - 1 : batch[w] = {i}
    /\ \A w \in Worker : pc[w] = "addBytes" => body[w] <= Grid
    /\ \A s \in Source :
         bytesMoved[s] <= Grid * (requestCount[s] + Cardinality(Updaters(s)))

Invariant == BatchTypeOK /\ Picked /\ Undisturbed
-----------------------------------------------------------------------------
\* The average of n requests that moved at most g bytes each is at most g.
LEMMA AverageIsAPiece ==
  ASSUME NEW b \in Nat, NEW n \in Nat \ {0}, NEW g \in Nat, b <= g * n
  PROVE  b \div n \in Nat /\ b \div n <= g
<1> DEFINE q == b \div n
<1>1. q \in Nat /\ q * n <= b
  OBVIOUS
<1>2. q > g => q * n >= (g + 1) * n
  BY <1>1
<1>3. (g + 1) * n = g * n + n
  OBVIOUS
<1>4. g * n \in Nat /\ q * n \in Nat
  BY <1>1
<1>. QED
  BY <1>1, <1>2, <1>3, <1>4

\* Such an average is worth one piece (adaptive.go 104-111).
LEMMA OnePiece ==
  ASSUME NEW a \in Nat, a <= Grid
  PROVE  Pieces(a) = 1
<1>1. Grid \in Nat /\ Grid > 0 /\ MaxBatch \in Nat
  BY BatchAssumption
<1>2. Capped(a) \in Nat /\ Capped(a) <= Grid
  BY <1>1 DEF Capped
<1>3. Capped(a) >= Grid => Capped(a) = Grid
  BY <1>1, <1>2
<1>4. Grid \div Grid = 1
  BY <1>1
<1>. QED
  BY <1>3, <1>4 DEF Pieces

\* Whatever the average, a batch has at least one piece.
LEMMA SomePieces ==
  ASSUME NEW a \in Nat
  PROVE  Pieces(a) \in Nat \ {0}
<1>1. Grid \in Nat /\ Grid > 0 /\ MaxBatch \in Nat
  BY BatchAssumption
<1>2. Capped(a) \in Nat
  BY <1>1 DEF Capped
<1>3. Capped(a) >= Grid => Capped(a) \div Grid \in Nat /\ Capped(a) \div Grid # 0
  BY <1>1, <1>2
<1>. QED
  BY <1>3 DEF Pieces

\* A batch stays in the grid; one piece is one piece (adaptive.go 329-336).
LEMMA Ends ==
  ASSUME cursor \in 0 .. N, NEW n \in Nat
  PROVE  /\ End(n) \in 0 .. N
         /\ cursor .. End(n) - 1 \subseteq 0 .. N - 1
         /\ n = 1 => \/ cursor .. End(n) - 1 = {}
                     \/ \E i \in 0 .. N - 1 : cursor .. End(n) - 1 = {i}
<1>1. N \in Nat /\ cursor \in Nat /\ cursor <= N
  BY BatchAssumption
<1>2. End(n) \in Nat /\ End(n) <= N /\ End(n) <= cursor + n
  BY <1>1 DEF End
<1>3. ASSUME n = 1, cursor .. End(n) - 1 # {}
      PROVE  cursor .. End(n) - 1 = {cursor} /\ cursor \in 0 .. N - 1
  BY <1>1, <1>2, <1>3
<1>. QED
  BY <1>1, <1>2, <1>3

\* What one piece asks for is at most a piece (adaptive.go 503-513).
LEMMA OnePieceBytes ==
  ASSUME NEW b, b = {} \/ \E i \in 0 .. N - 1 : b = {i}
  PROVE  BytesOf(b) <= Grid
<1>1. Grid \in Nat /\ Grid > 0 /\ LastSize \in Nat /\ LastSize <= Grid
  BY BatchAssumption
<1>2. CASE b = {}
  <2>1. Cardinality(b) = 0 /\ N - 1 \notin b
    BY <1>2, FS_EmptySet
  <2>. QED
    BY <1>1, <2>1 DEF BytesOf
<1>3. CASE \E i \in 0 .. N - 1 : b = {i}
  <2>1. Cardinality(b) = 1
    BY <1>3, FS_Singleton
  <2>. QED
    BY <1>1, <2>1 DEF BytesOf
<1>. QED
  BY <1>2, <1>3

\* Bytes are counted in naturals.
LEMMA BytesType ==
  ASSUME NEW b \in SUBSET (0 .. N - 1)
  PROVE  BytesOf(b) \in Nat
<1>1. /\ Grid \in Nat /\ Grid > 0 /\ LastSize \in Nat /\ LastSize <= Grid
      /\ N \in Nat /\ LastSize > 0
  BY BatchAssumption
<1>2. IsFiniteSet(b) /\ Cardinality(b) \in Nat
  <2>1. IsFiniteSet(0 .. N - 1)
    BY <1>1, FS_Interval
  <2>. QED
    BY <2>1, FS_Subset, FS_CardinalityType
<1>3. Cardinality(b) * Grid \in Nat
  BY <1>1, <1>2
<1>4. CASE N - 1 \in b
  <2>1. Cardinality(b) >= 1
    BY <1>2, <1>4, FS_EmptySet
  <2>2. Cardinality(b) * Grid >= Grid
    BY <1>1, <1>2, <2>1
  <2>. QED
    BY <1>1, <1>3, <1>4, <2>2 DEF BytesOf
<1>5. CASE N - 1 \notin b
  BY <1>1, <1>3, <1>5 DEF BytesOf
<1>. QED
  BY <1>4, <1>5
-----------------------------------------------------------------------------
\* Nothing has been claimed or added yet.
LEMMA InitInvariant == BatchInit => Invariant
<1> SUFFICES ASSUME BatchInit PROVE Invariant
  OBVIOUS
<1>1. N \in Nat /\ Grid \in Nat
  BY BatchAssumption
<1>2. BatchTypeOK
  <2>1. None \notin Worker
    BY WorkerAssumption
  <2>2. \A w \in Worker : pc[w] = "sizing" <=> mutex = w
    BY <2>1 DEF BatchInit
  <2>3. src \in [Worker -> Source \cup {None}] /\ batch \in [Worker -> SUBSET (0 .. N - 1)]
    BY DEF BatchInit
  <2>4. /\ bytesMoved \in [Source -> Nat] /\ requestCount \in [Source -> Nat]
        /\ rc \in [Worker -> Nat] /\ body \in [Worker -> Nat]
    BY DEF BatchInit
  <2>5. cursor \in 0 .. N /\ mutex \in Worker \cup {None}
    BY <1>1 DEF BatchInit
  <2>6. disturbed \in BOOLEAN
    BY DEF BatchInit
  <2>7. pc \in [Worker -> {"pick", "sizing", "fetch", "addBytes", "addRequest", "exited"}]
    BY DEF BatchInit
  <2>. QED
    BY <2>2, <2>3, <2>4, <2>5, <2>6, <2>7 DEF BatchTypeOK
<1>3. Picked
  BY DEF BatchInit, Picked
<1>4. ASSUME NEW s \in Source
      PROVE  bytesMoved[s] <= Grid * (requestCount[s] + Cardinality(Updaters(s)))
  <2>1. Updaters(s) = {}
    BY DEF BatchInit, Updaters
  <2>. QED
    BY <1>1, <2>1, FS_EmptySet DEF BatchInit
<1>5. Undisturbed
  BY <1>4 DEF BatchInit, Undisturbed
<1>. QED
  BY <1>2, <1>3, <1>5 DEF Invariant

\* The average a worker computes.
LEMMA AverageType ==
  ASSUME BatchTypeOK, Picked, NEW w \in Worker, pc[w] = "sizing", ~ rc[w] < 2
  PROVE  /\ bytesMoved[src[w]] \in Nat /\ rc[w] \in Nat \ {0}
         /\ bytesMoved[src[w]] \div rc[w] \in Nat
  BY DEF BatchTypeOK, Picked

\* Every step keeps the types,
LEMMA TypeStep ==
  ASSUME BatchTypeOK, Picked, [BatchNext]_batchVars
  PROVE  BatchTypeOK'
<1> USE DEF BatchTypeOK, counterVars, claimVars, workerVars, Goto
<1>0. N \in Nat /\ FileSize \in Nat /\ None \notin Worker
  BY BatchAssumption, WorkerAssumption DEF FileSize
<1>1. ASSUME NEW w \in Worker, ReadRequests(w) PROVE BatchTypeOK'
  BY <1>0, <1>1 DEF ReadRequests
<1>2. ASSUME NEW w \in Worker, Size(w) PROVE BatchTypeOK'
  <2> DEFINE n == IF rc[w] < 2 THEN 1 ELSE Pieces(bytesMoved[src[w]] \div rc[w])
  <2>1. n \in Nat
    BY <1>2, AverageType, SomePieces DEF Size
  <2>2. Claim(w, n) /\ mutex' = None /\ disturbed' \in BOOLEAN
    BY <1>2 DEF Size
  <2>3. cursor' \in 0 .. N /\ batch' \in [Worker -> SUBSET (0 .. N - 1)]
    BY <2>1, <2>2, Ends DEF Claim
  <2>4. \A v \in Worker : pc'[v] = "sizing" <=> mutex' = v
    BY <1>0, <1>2, <2>2 DEF Size, Claim
  <2>. QED
    BY <1>2, <2>2, <2>3, <2>4 DEF Size, Claim
<1>3. ASSUME NEW w \in Worker, TakeOne(w) PROVE BatchTypeOK'
  <2>1. CASE cursor' = cursor + 1 /\ UNCHANGED <<pc, src, batch>>
    BY <1>0, <1>3, <2>1 DEF TakeOne
  <2>2. CASE Claim(w, 1) /\ \E s \in Source : src' = [src EXCEPT ![w] = s]
    <3>1. cursor' \in 0 .. N /\ batch' \in [Worker -> SUBSET (0 .. N - 1)]
      BY <2>2, Ends DEF Claim
    <3>. QED
      BY <1>0, <1>3, <2>2, <3>1 DEF TakeOne, Claim
  <2>. QED
    BY <1>3, <2>1, <2>2 DEF TakeOne
<1>4. ASSUME NEW w \in Worker, Fetch(w) PROVE BatchTypeOK'
  <2>1. BytesOf(batch[w]) \in Nat
    BY BytesType
  <2>2. body' \in [Worker -> Nat]
    BY <1>0, <1>4, <2>1 DEF Fetch
  <2>3. disturbed' \in BOOLEAN
    BY <1>4 DEF Fetch
  <2>. QED
    BY <1>4, <2>2, <2>3 DEF Fetch
<1>5. ASSUME NEW w \in Worker, FetchFails(w) PROVE BatchTypeOK'
  BY <1>5 DEF FetchFails
<1>6. ASSUME NEW w \in Worker, AddBytes(w) PROVE BatchTypeOK'
  BY <1>6 DEF AddBytes, Picked
<1>7. ASSUME NEW w \in Worker, AddRequest(w) PROVE BatchTypeOK'
  BY <1>7 DEF AddRequest, Picked
<1>8. ASSUME NEW w \in Worker, Leave(w) PROVE BatchTypeOK'
  BY <1>8 DEF Leave
<1>9. CASE UNCHANGED batchVars
  BY <1>9 DEF batchVars
<1>. QED
  BY <1>1, <1>2, <1>3, <1>4, <1>5, <1>6, <1>7, <1>8, <1>9 DEF BatchNext

\* what a worker knows of its source,
LEMMA PickedStep ==
  ASSUME BatchTypeOK, Picked, [BatchNext]_batchVars
  PROVE  Picked'
<1> USE DEF BatchTypeOK, Picked, counterVars, claimVars, workerVars, Goto
<1>1. ASSUME NEW w \in Worker, ReadRequests(w) PROVE Picked'
  BY <1>1 DEF ReadRequests
<1>2. ASSUME NEW w \in Worker, Size(w) PROVE Picked'
  BY <1>2 DEF Size, Claim
<1>3. ASSUME NEW w \in Worker, TakeOne(w) PROVE Picked'
  BY <1>3 DEF TakeOne, Claim
<1>4. ASSUME NEW w \in Worker, Fetch(w) PROVE Picked'
  BY <1>4 DEF Fetch
<1>5. ASSUME NEW w \in Worker, FetchFails(w) PROVE Picked'
  BY <1>5 DEF FetchFails
<1>6. ASSUME NEW w \in Worker, AddBytes(w) PROVE Picked'
  BY <1>6 DEF AddBytes
<1>7. ASSUME NEW w \in Worker, AddRequest(w) PROVE Picked'
  BY <1>7 DEF AddRequest
<1>8. ASSUME NEW w \in Worker, Leave(w) PROVE Picked'
  BY <1>8 DEF Leave
<1>9. CASE UNCHANGED batchVars
  BY <1>9 DEF batchVars
<1>. QED
  BY <1>1, <1>2, <1>3, <1>4, <1>5, <1>6, <1>7, <1>8, <1>9 DEF BatchNext

\* A step leaves the updaters alone unless it is one of the two additions.
LEMMA UpdatersStay ==
  ASSUME BatchTypeOK, Picked, NEW w \in Worker, NEW s \in Source,
         \/ ReadRequests(w) \/ Size(w) \/ TakeOne(w) \/ Fetch(w) \/ FetchFails(w) \/ Leave(w)
  PROVE  Updaters(s)' = Updaters(s)
<1> USE DEF BatchTypeOK, Updaters, Goto, claimVars, workerVars
<1>1. CASE ReadRequests(w)
  BY <1>1 DEF ReadRequests
<1>2. CASE Size(w)
  BY <1>2 DEF Size, Claim
<1>3. CASE TakeOne(w)
  BY <1>3 DEF TakeOne, Claim
<1>4. CASE Fetch(w)
  BY <1>4 DEF Fetch
<1>5. CASE FetchFails(w) \/ Leave(w)
  BY <1>5 DEF FetchFails, Leave
<1>. QED
  BY <1>1, <1>2, <1>3, <1>4, <1>5

\* and the account of each source.
LEMMA UndisturbedStep ==
  ASSUME BatchTypeOK, Picked, Undisturbed, [BatchNext]_batchVars
  PROVE  Undisturbed'
<1> DEFINE Moved(s) == bytesMoved[s] <= Grid * (requestCount[s] + Cardinality(Updaters(s)))
           Small(b) == b = {} \/ \E i \in 0 .. N - 1 : b = {i}
<1>0. SUFFICES ASSUME ~disturbed'
               PROVE  /\ \A w \in Worker : Small(batch'[w])
                      /\ \A w \in Worker : pc'[w] = "addBytes" => body'[w] <= Grid
                      /\ \A s \in Source : Moved(s)'
  BY DEF Undisturbed
<1>a. ~disturbed
  BY <1>0 DEF BatchNext, ReadRequests, Size, TakeOne, Fetch, FetchFails, AddBytes, AddRequest,
              Leave, batchVars
<1>b. /\ \A w \in Worker : Small(batch[w])
      /\ \A w \in Worker : pc[w] = "addBytes" => body[w] <= Grid
      /\ \A s \in Source : Moved(s)
  BY <1>a DEF Undisturbed
<1>c. Grid \in Nat /\ Grid > 0
  BY BatchAssumption
<1>d. ASSUME NEW s \in Source PROVE IsFiniteSet(Updaters(s)) /\ Cardinality(Updaters(s)) \in Nat
  BY WorkerAssumption, FS_Subset, FS_CardinalityType DEF Updaters
<1>e. ASSUME NEW w \in Worker, NEW n \in Nat, Claim(w, n), n = 1
      PROVE  \A v \in Worker : Small(batch'[v])
  BY <1>b, <1>e, Ends DEF Claim, BatchTypeOK
<1>1. ASSUME NEW w \in Worker, ReadRequests(w) PROVE Undisturbed'
  BY <1>1, <1>b, UpdatersStay DEF ReadRequests, Undisturbed, Goto, counterVars, BatchTypeOK
<1>2. ASSUME NEW w \in Worker, Size(w) PROVE Undisturbed'
  <2> DEFINE s == src[w]
  <2>1. /\ s \in Source /\ ~Updating(s) /\ requestCount[s] = rc[w]
        /\ UNCHANGED <<bytesMoved, requestCount, body>>
    BY <1>0, <1>2 DEF Size, Picked, counterVars
  <2>2. Updaters(s) = {}
    BY <2>1 DEF Updating, Updaters
  <2>3. bytesMoved[s] <= Grid * rc[w]
    <3>1. Cardinality(Updaters(s)) = 0 /\ requestCount[s] \in Nat
      BY <2>1, <2>2, FS_EmptySet DEF BatchTypeOK
    <3>2. requestCount[s] + Cardinality(Updaters(s)) = rc[w]
      BY <2>1, <3>1
    <3>3. bytesMoved[s] <= Grid * (requestCount[s] + Cardinality(Updaters(s)))
      BY <1>b, <2>1
    <3>. QED
      BY <3>2, <3>3
  <2>4. ASSUME ~ rc[w] < 2 PROVE Pieces(bytesMoved[s] \div rc[w]) = 1
    <3>1. bytesMoved[s] \in Nat /\ rc[w] \in Nat \ {0}
      BY <1>2, <2>4, AverageType DEF Size
    <3>. QED
      BY <1>c, <2>3, <3>1, AverageIsAPiece, OnePiece
  <2>5. Claim(w, 1)
    BY <1>2, <2>4 DEF Size
  <2>6. \A v \in Worker : Small(batch'[v])
    BY <1>e, <2>5
  <2>7. \A v \in Worker : pc'[v] = "addBytes" => body'[v] <= Grid
    BY <1>b, <2>1, <2>5 DEF Claim, Goto, BatchTypeOK
  <2>8. ASSUME NEW r \in Source PROVE Moved(r)'
    BY <1>2, <1>b, <2>1, UpdatersStay
  <2>. QED
    BY <2>6, <2>7, <2>8 DEF Undisturbed
<1>3. ASSUME NEW w \in Worker, TakeOne(w) PROVE Undisturbed'
  <2>1. \A v \in Worker : Small(batch'[v])
    BY <1>3, <1>b, <1>e DEF TakeOne
  <2>2. \A v \in Worker : pc'[v] = "addBytes" => body'[v] <= Grid
    BY <1>3, <1>b DEF TakeOne, Claim, Goto, BatchTypeOK
  <2>3. ASSUME NEW r \in Source PROVE Moved(r)'
    BY <1>3, <1>b, UpdatersStay DEF TakeOne, counterVars
  <2>. QED
    BY <2>1, <2>2, <2>3 DEF Undisturbed
<1>4. ASSUME NEW w \in Worker, Fetch(w) PROVE Undisturbed'
  <2>1. body' = [body EXCEPT ![w] = BytesOf(batch[w])] /\ UNCHANGED batch
    BY <1>0, <1>4 DEF Fetch
  <2>2. BytesOf(batch[w]) <= Grid
    BY <1>b, OnePieceBytes
  <2>3. \A v \in Worker : pc'[v] = "addBytes" => body'[v] <= Grid
    BY <1>4, <1>b, <2>1, <2>2 DEF Fetch, Goto, BatchTypeOK
  <2>4. ASSUME NEW r \in Source PROVE Moved(r)'
    BY <1>4, <1>b, UpdatersStay DEF Fetch, counterVars
  <2>. QED
    BY <1>b, <2>1, <2>3, <2>4 DEF Undisturbed
<1>5. ASSUME NEW w \in Worker, FetchFails(w) \/ Leave(w) PROVE Undisturbed'
  <2>1. UNCHANGED <<bytesMoved, requestCount, batch, body>>
    BY <1>5 DEF FetchFails, Leave, counterVars
  <2>2. \A v \in Worker : pc'[v] = "addBytes" => pc[v] = "addBytes"
    BY <1>5 DEF FetchFails, Leave, Goto, BatchTypeOK
  <2>3. ASSUME NEW r \in Source PROVE Moved(r)'
    BY <1>5, <1>b, <2>1, UpdatersStay
  <2>. QED
    BY <1>b, <2>1, <2>2, <2>3 DEF Undisturbed
<1>6. ASSUME NEW w \in Worker, AddBytes(w) PROVE Undisturbed'
  <2>1. /\ pc[w] = "addBytes" /\ pc' = [pc EXCEPT ![w] = "addRequest"]
        /\ bytesMoved' = [bytesMoved EXCEPT ![src[w]] = @ + body[w]] /\ src[w] \in Source
        /\ UNCHANGED <<requestCount, src, batch, body>>
    BY <1>6 DEF AddBytes, Goto, Picked
  <2>2. body[w] \in Nat /\ body[w] <= Grid
    BY <1>b, <2>1 DEF BatchTypeOK
  <2>3. ASSUME NEW r \in Source, r # src[w] PROVE Moved(r)'
    <3>1. Updaters(r)' = Updaters(r)
      BY <2>1, <2>3 DEF Updaters, BatchTypeOK
    <3>. QED
      BY <1>b, <2>1, <2>3, <3>1 DEF BatchTypeOK
  <2>4. Moved(src[w])'
    <3> DEFINE s == src[w]
               n == requestCount[s] + Cardinality(Updaters(s))
    <3>1. Updaters(s)' = Updaters(s) \cup {w} /\ w \notin Updaters(s)
      BY <2>1 DEF Updaters, BatchTypeOK
    <3>2. Cardinality(Updaters(s)') = Cardinality(Updaters(s)) + 1
      BY <1>d, <2>1, <3>1, FS_AddElement
    <3>3. n \in Nat /\ Cardinality(Updaters(s)) \in Nat /\ requestCount[s] \in Nat
      BY <1>d, <2>1 DEF BatchTypeOK
    <3>4. Grid * (n + 1) = Grid * n + Grid
      BY <1>c, <3>3
    <3>5. bytesMoved[s] \in Nat /\ bytesMoved[s] <= Grid * n
      BY <1>b, <2>1 DEF BatchTypeOK
    <3>6. bytesMoved'[s] = bytesMoved[s] + body[w]
      BY <2>1 DEF BatchTypeOK
    <3>7. requestCount'[s] + Cardinality(Updaters(s)') = n + 1
      BY <2>1, <3>2, <3>3
    <3>8. Grid * n \in Nat
      BY <1>c, <3>3
    <3>9. bytesMoved'[s] <= Grid * (n + 1)
      BY <1>c, <2>2, <3>4, <3>5, <3>6, <3>8
    <3>. QED
      BY <2>1, <3>7, <3>9
  <2>5. \A v \in Worker : pc'[v] = "addBytes" => body'[v] <= Grid
    BY <1>b, <2>1 DEF BatchTypeOK
  <2>. QED
    BY <1>b, <2>1, <2>3, <2>4, <2>5 DEF Undisturbed
<1>7. ASSUME NEW w \in Worker, AddRequest(w) PROVE Undisturbed'
  <2>1. PICK s \in Source : s = src[w]
    BY <1>7 DEF AddRequest, Picked
  <2>2. /\ pc[w] = "addRequest" /\ pc' = [pc EXCEPT ![w] = "pick"]
        /\ requestCount' = [requestCount EXCEPT ![s] = @ + 1]
        /\ src' = [src EXCEPT ![w] = None] /\ batch' = [batch EXCEPT ![w] = {}]
        /\ body' = [body EXCEPT ![w] = 0] /\ UNCHANGED bytesMoved
    BY <1>7, <2>1 DEF AddRequest, Goto
  <2>3. ASSUME NEW r \in Source, r # s PROVE Moved(r)'
    <3>1. Updaters(r)' = Updaters(r)
      BY <2>1, <2>2, <2>3 DEF Updaters, BatchTypeOK
    <3>. QED
      BY <1>b, <2>2, <2>3, <3>1 DEF BatchTypeOK
  <2>4. Moved(s)'
    <3>1. w \in Updaters(s)
      BY <1>7, <2>1, <2>2 DEF Updaters
    <3>2. Updaters(s)' = Updaters(s) \ {w}
      BY <1>7, <2>1, <2>2 DEF Updaters, BatchTypeOK
    <3>3. Cardinality(Updaters(s)') = Cardinality(Updaters(s)) - 1
      BY <1>d, <3>1, <3>2, FS_RemoveElement
    <3>4. Cardinality(Updaters(s)) \in Nat /\ requestCount[s] \in Nat
      BY <1>d DEF BatchTypeOK
    <3>5. requestCount'[s] + Cardinality(Updaters(s)')
            = requestCount[s] + Cardinality(Updaters(s))
      BY <2>2, <3>3, <3>4 DEF BatchTypeOK
    <3>. QED
      BY <1>b, <2>2, <3>5
  <2>5. \A v \in Worker : pc'[v] = "addBytes" => body'[v] <= Grid
    BY <1>b, <2>2 DEF BatchTypeOK
  <2>6. \A v \in Worker : Small(batch'[v])
    BY <1>b, <2>2 DEF BatchTypeOK
  <2>. QED
    BY <2>3, <2>4, <2>5, <2>6 DEF Undisturbed
<1>8. CASE UNCHANGED batchVars
  BY <1>b, <1>8 DEF batchVars, counterVars, workerVars, Undisturbed, Updaters
<1>. QED
  BY <1>0, <1>1, <1>2, <1>3, <1>4, <1>5, <1>6, <1>7, <1>8 DEF BatchNext, Undisturbed
-----------------------------------------------------------------------------
\* The inductive invariant holds always.
LEMMA BatchInvariance == BatchSpec => []Invariant
<1>1. Invariant /\ [BatchNext]_batchVars => Invariant'
  BY TypeStep, PickedStep, UndisturbedStep DEF Invariant
<1>. QED
  BY <1>1, InitInvariant, PTL DEF BatchSpec

\* Every variable has its type, cursorMu is held while a batch is sized, and no
\* claim reaches beyond the grid (adaptive.go 324-336).
THEOREM BatchTypes == BatchSpec => []BatchTypeOK
<1>1. Invariant => BatchTypeOK
  BY DEF Invariant
<1>. QED
  BY <1>1, BatchInvariance, PTL

\* A batch of several pieces needs a size computed in the midst of another
\* worker's update, or a body larger than was asked for (adaptive.go 98-112,
\* 547-548).
THEOREM BatchesStaySingle == BatchSpec => []BatchesGrowByAccident
<1>1. Invariant => BatchesGrowByAccident
  <2> SUFFICES ASSUME Invariant, NEW w \in Worker, ~disturbed
               PROVE  ~(Cardinality(batch[w]) > 1)
    BY DEF BatchesGrowByAccident
  <2>1. batch[w] = {} \/ \E i \in 0 .. N - 1 : batch[w] = {i}
    BY DEF Invariant, Undisturbed
  <2>2. Cardinality(batch[w]) = 0 \/ Cardinality(batch[w]) = 1
    BY <2>1, FS_EmptySet, FS_Singleton
  <2>. QED
    BY <2>2
<1>. QED
  BY <1>1, BatchInvariance, PTL
=============================================================================
