------------------------ MODULE ProgressStreamProofs ------------------------
(***************************************************************************)
(* Theorems about ProgressStream: types, and how far the order of updates  *)
(* may go wrong, for any number of pieces and any buffer, with and without *)
(* the last update.                                                        *)
(***************************************************************************)
EXTENDS ProgressStream, FiniteSetTheorems, SequenceTheorems, TLAPS

\* The parts of InTransit: what the caller has, what the forwarder has.
Shown == IF seen >= 0 THEN <<seen>> ELSE <<>>
Holding == IF forwarder = "send" THEN <<held>> ELSE <<>>

\* A sequence s of updates goes back at j.
BackAt(s, j) == \E i \in 1 .. j - 1 : s[i] > s[j]

\* Whoever is overtaken was overtaken by the last update, and nobody else is.
Order(s) ==
  /\ \A i \in 1 .. Len(s) : s[i] <= done
  /\ \A i, j \in 1 .. Len(s) : i < j /\ s[i] > s[j] => s[i] = N /\ engine # "working"
  /\ \A j, k \in 1 .. Len(s) : BackAt(s, j) /\ BackAt(s, k) => j = k

\* A count that was read and not yet sent is behind nothing but the last update,
\* and is the last count once somebody is overtaken.
Pending(s) ==
  ticker = "send" =>
    /\ reading <= done
    /\ \A i \in 1 .. Len(s) : s[i] <= reading \/ (s[i] = N /\ engine # "working")
    /\ (\E j \in 1 .. Len(s) : BackAt(s, j)) => reading = N

\* The engine goes on with all its pieces.
Stage == engine \in {"assemble", "close", "returning"} => done = N

Invariant == TypeOK /\ Stage /\ Order(InTransit) /\ Pending(InTransit)
-----------------------------------------------------------------------------
LEMMA Sizes == N \in Nat /\ N > 0 /\ Capacity \in Nat /\ LastFlush \in BOOLEAN
  BY SizesAssumption

\* Adding to the buffer and taking from it.
LEMMA BufferTypes ==
  ASSUME TypeOK
  PROVE  /\ \A x \in Update : Append(progress, x) \in Seq(Update)
         /\ \A x \in Update : Len(Append(progress, x)) = Len(progress) + 1
         /\ progress # <<>> => /\ Head(progress) \in Update
                               /\ Tail(progress) \in Seq(Update)
                               /\ Len(Tail(progress)) = Len(progress) - 1
  BY HeadTailProperties DEF TypeOK

LEMMA TypeStep ==
  ASSUME TypeOK, [Next]_vars
  PROVE  TypeOK'
<1> USE DEF TypeOK, engineVars, tickerVars, channelVars, callerVars
<1>0. /\ N \in Nat /\ N > 0 /\ Capacity \in Nat /\ LastFlush \in BOOLEAN
      /\ N \in Update /\ 0 \in Update
  BY Sizes DEF Update
<1>a. ASSUME NEW x \in Update, TrySend(x)
      PROVE  progress' \in Seq(Update) /\ Len(progress') <= Capacity
  <2>1. Len(progress) \in Nat
    OBVIOUS
  <2>. QED
    BY <1>0, <1>a, <2>1, BufferTypes DEF TrySend
<1>1. CASE FinishPiece
  BY <1>0, <1>1 DEF FinishPiece, Update
<1>2. CASE Join
  BY <1>0, <1>2 DEF Join
<1>3. CASE Flush
  <2>1. progress' \in Seq(Update) /\ Len(progress') <= Capacity
    BY <1>0, <1>3, <1>a DEF Flush
  <2>. QED
    BY <1>3, <2>1 DEF Flush
<1>4. CASE Close
  BY <1>4 DEF Close, CloseAfter
<1>5. CASE Return
  BY <1>5 DEF Return
<1>6. CASE Fail
  BY <1>6 DEF Fail
<1>7. CASE Tick
  BY <1>7 DEF Tick
<1>8. CASE TickSend
  <2>1. progress' \in Seq(Update) /\ Len(progress') <= Capacity
    BY <1>8, <1>a DEF TickSend
  <2>2. crash' \in BOOLEAN
    BY <1>8 DEF TickSend
  <2>. QED
    BY <1>0, <1>8, <2>1, <2>2 DEF TickSend
<1>9. CASE TickStop
  BY <1>9 DEF TickStop
<1>10. CASE Receive
  <2>1. progress' \in Seq(Update) /\ Len(progress') <= Capacity /\ held' \in Update
    BY <1>0, <1>10, BufferTypes DEF Receive
  <2>. QED
    BY <1>10, <2>1 DEF Receive
<1>11. CASE Forward
  BY <1>0, <1>11 DEF Forward
<1>12. CASE EndOfStream
  BY <1>12 DEF EndOfStream
<1>13. CASE UNCHANGED vars
  BY <1>13 DEF vars
<1>. QED
  BY <1>1, <1>2, <1>3, <1>4, <1>5, <1>6, <1>7, <1>8, <1>9, <1>10, <1>11, <1>12, <1>13
     DEF Next, EngineStep, EngineAdvance, TickerStep, CallerStep

LEMMA StageStep ==
  ASSUME TypeOK, Stage, [Next]_vars
  PROVE  Stage'
<1> USE DEF Stage, engineVars
<1>1. CASE EngineStep
  BY <1>1 DEF EngineStep, EngineAdvance, FinishPiece, Join, AllDone, Flush, Close, Return, Fail
<1>2. CASE TickerStep \/ CallerStep
  BY <1>2 DEF TickerStep, Tick, TickSend, TickStop, CallerStep, Receive, Forward, EndOfStream
<1>3. CASE UNCHANGED vars
  BY <1>3 DEF vars
<1>. QED
  BY <1>1, <1>2, <1>3 DEF Next
-----------------------------------------------------------------------------
LEMMA TransitType ==
  ASSUME TypeOK
  PROVE  /\ Shown \in Seq(Update) /\ Holding \in Seq(Update) /\ progress \in Seq(Update)
         /\ Shown \o Holding \in Seq(Update)
         /\ InTransit = (Shown \o Holding) \o progress
         /\ InTransit \in Seq(Update)
<1>1. Shown \in Seq(Update)
  <2>1. seen >= 0 => seen \in Update
    BY Sizes DEF TypeOK, Update
  <2>. QED
    BY <2>1 DEF Shown
<1>2. Holding \in Seq(Update) /\ progress \in Seq(Update)
  BY DEF TypeOK, Holding
<1>3. Shown \o Holding \in Seq(Update)
  BY <1>1, <1>2, ConcatProperties
<1>4. InTransit = (Shown \o Holding) \o progress
  BY DEF InTransit, Shown, Holding
<1>. QED
  BY <1>1, <1>2, <1>3, <1>4, ConcatProperties

\* A send that is not dropped makes InTransit one longer.
LEMMA SendAppends ==
  ASSUME TypeOK, NEW x \in Update, TrySend(x), UNCHANGED callerVars
  PROVE  InTransit' = InTransit \/ InTransit' = Append(InTransit, x)
<1>1. Shown' = Shown /\ Holding' = Holding
  BY DEF callerVars, Shown, Holding
<1>2. InTransit' = (Shown \o Holding) \o progress'
  BY <1>1 DEF InTransit, Shown, Holding
<1>3. CASE progress' = progress
  BY <1>2, <1>3, TransitType
<1>4. CASE progress' = Append(progress, x)
  <2>1. <<x>> \in Seq(Update) /\ Append(progress, x) = progress \o <<x>>
    BY AppendIsConcat, TransitType
  <2>2. (Shown \o Holding) \o (progress \o <<x>>) = ((Shown \o Holding) \o progress) \o <<x>>
    BY <2>1, ConcatAssociative, TransitType
  <2>3. InTransit' = InTransit \o <<x>>
    BY <1>2, <1>4, <2>1, <2>2, TransitType
  <2>4. InTransit \o <<x>> = Append(InTransit, x)
    BY AppendIsConcat, TransitType
  <2>. QED
    BY <2>3, <2>4
<1>. QED
  BY <1>3, <1>4 DEF TrySend

\* The forwarder takes an update: it stays where it is among those in transit.
LEMMA ReceiveKeeps ==
  ASSUME TypeOK, Receive
  PROVE  InTransit' = InTransit
<1>1. /\ Shown' = Shown /\ Holding = <<>> /\ Holding' = <<Head(progress)>>
      /\ progress' = Tail(progress) /\ progress # <<>>
  BY DEF Receive, Shown, Holding
<1>2. InTransit' = (Shown \o <<Head(progress)>>) \o Tail(progress)
  BY <1>1 DEF InTransit, Shown, Holding
<1>3. /\ <<Head(progress)>> \in Seq(Update) /\ Tail(progress) \in Seq(Update)
      /\ Len(progress) \in Nat
  BY <1>1, HeadTailProperties, TransitType
<1>4. progress = <<Head(progress)>> \o Tail(progress)
  <2> DEFINE s == <<Head(progress)>> \o Tail(progress)
  <2>1. s \in Seq(Update) /\ Len(s) = 1 + Len(Tail(progress))
    BY <1>3, ConcatProperties
  <2>2. Len(s) = Len(progress)
    BY <1>1, <1>3, <2>1, HeadTailProperties, TransitType
  <2>3. ASSUME NEW i \in 1 .. Len(s) PROVE s[i] = progress[i]
    BY <1>1, <1>3, <2>1, <2>2, ConcatProperties, HeadTailProperties, TransitType
  <2>. QED
    BY <2>1, <2>2, <2>3, SeqEqual, TransitType
<1>5. Shown \o Holding = Shown
  BY <1>1, ConcatEmptySeq, TransitType
<1>6. (Shown \o <<Head(progress)>>) \o Tail(progress)
        = Shown \o (<<Head(progress)>> \o Tail(progress))
  <2>1. Shown \in Seq(Update)
    BY TransitType
  <2>. QED
    BY <1>3, <2>1, ConcatAssociative
<1>. QED
  BY <1>2, <1>4, <1>5, <1>6, TransitType

\* The caller takes an update and forgets the one before.
LEMMA ForwardDrops ==
  ASSUME TypeOK, Forward
  PROVE  /\ InTransit' \in Seq(Update)
         /\ \/ InTransit' = InTransit
            \/ /\ Len(InTransit') = Len(InTransit) - 1
               /\ \A i \in 1 .. Len(InTransit) - 1 : InTransit'[i] = InTransit[i + 1]
<1>1. /\ held \in Update /\ held >= 0 /\ Holding = <<held>> /\ Holding' = <<>>
      /\ Shown' = <<held>> /\ progress' = progress
  BY Sizes DEF Forward, Shown, Holding, TypeOK, Update, channelVars
<1>2. <<held>> \in Seq(Update) /\ Len(<<held>>) = 1 /\ <<held>>[1] = held
  BY <1>1
<1>3. InTransit' = (<<held>> \o <<>>) \o progress
  BY <1>1 DEF InTransit, Shown, Holding
<1>4. InTransit' = <<held>> \o progress /\ InTransit' \in Seq(Update)
  <2>1. InTransit' = <<held>> \o progress
    BY <1>2, <1>3, ConcatEmptySeq
  <2>. QED
    BY <1>2, <2>1, ConcatProperties, TransitType
<1>5. CASE Shown = <<>>
  BY <1>1, <1>2, <1>4, <1>5, ConcatEmptySeq, TransitType
<1>6. CASE Shown # <<>>
  <2>1. Shown = <<seen>> /\ Len(Shown) = 1
    BY <1>6 DEF Shown
  <2>2. InTransit = Shown \o (<<held>> \o progress)
    <3>1. Shown \in Seq(Update) /\ progress \in Seq(Update)
      BY TransitType
    <3>2. (Shown \o <<held>>) \o progress = Shown \o (<<held>> \o progress)
      BY <1>2, <3>1, ConcatAssociative
    <3>. QED
      BY <1>1, <3>2, TransitType
  <2>3. InTransit = Shown \o InTransit' /\ InTransit' \in Seq(Update)
    BY <1>2, <1>4, <2>2, ConcatProperties, TransitType
  <2>4. Len(InTransit) = 1 + Len(InTransit') /\ Len(InTransit') \in Nat
    BY <2>1, <2>3, ConcatProperties, TransitType
  <2>5. ASSUME NEW i \in 1 .. Len(InTransit) - 1 PROVE InTransit'[i] = InTransit[i + 1]
    <3>1. i + 1 \in 1 .. 1 + Len(InTransit') /\ ~(i + 1 <= 1) /\ i + 1 - 1 = i
      BY <2>4
    <3>. QED
      BY <2>1, <2>3, <3>1, ConcatProperties, TransitType
  <2>. QED
    BY <1>4, <2>4, <2>5
<1>. QED
  BY <1>4, <1>5, <1>6
-----------------------------------------------------------------------------
\* A longer sequence keeps its order if the new update is behind nothing but the
\* last one, and is the last one when somebody is overtaken already.
LEMMA AppendOrder ==
  ASSUME TypeOK, NEW s \in Seq(Update), Order(s), NEW x \in Update, x <= done,
         \A i \in 1 .. Len(s) : s[i] <= x \/ (s[i] = N /\ engine # "working"),
         (\E j \in 1 .. Len(s) : BackAt(s, j)) => x = N
  PROVE  Order(Append(s, x))
<1> DEFINE n == Len(s)
           t == Append(s, x)
<1>1. /\ n \in Nat /\ Len(t) = n + 1 /\ t[n + 1] = x
      /\ \A i \in 1 .. n : t[i] = s[i] /\ s[i] \in Update
      /\ \A i \in 1 .. n + 1 : i \in 1 .. n \/ i = n + 1
  BY LenProperties, AppendProperties, ElementOfSeq
<1>2. N \in Nat /\ x \in Nat /\ x <= N /\ \A i \in 1 .. n : s[i] \in Nat /\ s[i] <= N
  BY <1>1, Sizes DEF Update
<1> HIDE DEF n, t
<1>3. \A i \in 1 .. n + 1 : t[i] <= done
  BY <1>1 DEF Order, n
<1>4. ASSUME NEW i \in 1 .. n + 1, NEW j \in 1 .. n + 1, i < j, t[i] > t[j]
      PROVE  t[i] = N /\ engine # "working"
  <2>1. i \in 1 .. n
    BY <1>1, <1>4
  <2>2. CASE j \in 1 .. n
    BY <1>1, <1>4, <2>1, <2>2 DEF Order, n
  <2>3. CASE j = n + 1
    BY <1>1, <1>2, <1>4, <2>1, <2>3 DEF n
  <2>. QED
    BY <1>1, <2>2, <2>3
<1>5. ASSUME NEW j \in 1 .. n, BackAt(t, j) PROVE BackAt(s, j)
  <2>1. PICK i \in 1 .. j - 1 : t[i] > t[j]
    BY <1>5 DEF BackAt
  <2>2. i \in 1 .. n
    BY <1>1
  <2>. QED
    BY <1>1, <2>1, <2>2 DEF BackAt
<1>6. ASSUME BackAt(t, n + 1) PROVE \A j \in 1 .. n : ~BackAt(s, j)
  <2>1. PICK i \in 1 .. n : t[i] > x
    BY <1>1, <1>6 DEF BackAt
  <2>2. x # N
    BY <1>1, <1>2, <2>1
  <2>. QED
    BY <2>2 DEF n
<1>7. ASSUME NEW j \in 1 .. n + 1, NEW k \in 1 .. n + 1, BackAt(t, j), BackAt(t, k)
      PROVE  j = k
  <2>1. CASE j \in 1 .. n /\ k \in 1 .. n
    BY <1>5, <1>7, <2>1 DEF Order, n
  <2>2. CASE j = n + 1 \/ k = n + 1
    BY <1>1, <1>5, <1>6, <1>7, <2>2
  <2>. QED
    BY <1>1, <2>1, <2>2
<1>. QED
  BY <1>1, <1>3, <1>4, <1>7 DEF Order, t

\* Without its first update a sequence keeps its order.
LEMMA DropOrder ==
  ASSUME TypeOK, NEW s \in Seq(Update), NEW t \in Seq(Update), Order(s), Pending(s),
         Len(t) = Len(s) - 1, \A i \in 1 .. Len(s) - 1 : t[i] = s[i + 1]
  PROVE  Order(t) /\ Pending(t)
<1>1. /\ Len(s) \in Nat /\ Len(t) \in Nat
      /\ \A i \in 1 .. Len(t) : i + 1 \in 1 .. Len(s) /\ t[i] = s[i + 1]
  BY LenProperties
<1>2. ASSUME NEW j \in 1 .. Len(t), BackAt(t, j) PROVE BackAt(s, j + 1)
  <2>1. PICK i \in 1 .. j - 1 : t[i] > t[j]
    BY <1>2 DEF BackAt
  <2>2. i + 1 \in 1 .. (j + 1) - 1 /\ s[i + 1] > s[j + 1]
    BY <1>1, <2>1
  <2>. QED
    BY <2>2 DEF BackAt
<1>3. \A i \in 1 .. Len(t) : t[i] <= done
  BY <1>1 DEF Order
<1>4. \A i, j \in 1 .. Len(t) : i < j /\ t[i] > t[j] => t[i] = N /\ engine # "working"
  BY <1>1 DEF Order
<1>5. ASSUME NEW j \in 1 .. Len(t), NEW k \in 1 .. Len(t), BackAt(t, j), BackAt(t, k)
      PROVE  j = k
  <2>1. j + 1 = k + 1
    BY <1>1, <1>2, <1>5 DEF Order
  <2>. QED
    BY <2>1
<1>6. Order(t)
  BY <1>3, <1>4, <1>5 DEF Order
<1>7. ASSUME ticker = "send"
      PROVE  /\ reading <= done
             /\ \A i \in 1 .. Len(t) : t[i] <= reading \/ (t[i] = N /\ engine # "working")
             /\ (\E j \in 1 .. Len(t) : BackAt(t, j)) => reading = N
  <2>1. \A i \in 1 .. Len(t) : t[i] <= reading \/ (t[i] = N /\ engine # "working")
    BY <1>1, <1>7 DEF Pending
  <2>2. ASSUME NEW j \in 1 .. Len(t), BackAt(t, j) PROVE reading = N
    BY <1>1, <1>2, <1>7, <2>2 DEF Pending
  <2>. QED
    BY <1>7, <2>1, <2>2 DEF Pending
<1>. QED
  BY <1>6, <1>7 DEF Pending

LEMMA OrderStep ==
  ASSUME Invariant, [Next]_vars
  PROVE  Order(InTransit)' /\ Pending(InTransit)'
<1> USE DEF Invariant
<1>0. /\ InTransit \in Seq(Update) /\ N \in Nat /\ done \in Nat /\ done <= N
      /\ \A i \in 1 .. Len(InTransit) : InTransit[i] \in Update
      /\ N \in Update
  <2>1. InTransit \in Seq(Update)
    BY TransitType
  <2>2. \A i \in 1 .. Len(InTransit) : InTransit[i] \in Update
    BY <2>1, ElementOfSeq
  <2>3. N \in Nat /\ done \in Nat /\ done <= N /\ N \in Update
    BY Sizes DEF TypeOK, Update
  <2>. QED
    BY <2>1, <2>2, <2>3
<1>a. ASSUME UNCHANGED <<channelVars, callerVars>> PROVE InTransit' = InTransit
  BY <1>a DEF InTransit, channelVars, callerVars
<1>b. ASSUME InTransit' = InTransit, UNCHANGED <<done, engine, tickerVars>>
      PROVE  Order(InTransit)' /\ Pending(InTransit)'
  BY <1>b DEF Order, Pending, BackAt, tickerVars
<1>c. ASSUME InTransit' = InTransit, UNCHANGED <<done, tickerVars>>, engine' # "working"
      PROVE  Order(InTransit)' /\ Pending(InTransit)'
  BY <1>c DEF Order, Pending, BackAt, tickerVars
<1>1. CASE FinishPiece
  <2>1. /\ InTransit' = InTransit /\ done' = done + 1 /\ engine = "working"
        /\ UNCHANGED <<engine, ticker, reading>>
    BY <1>1, <1>a DEF FinishPiece, tickerVars
  <2>2. Order(InTransit)'
    BY <1>0, <2>1 DEF Order, BackAt, Update
  <2>3. Pending(InTransit)'
    BY <1>0, <2>1 DEF Pending, BackAt, TypeOK, Update
  <2>. QED
    BY <2>2, <2>3
<1>2. CASE Join \/ Fail \/ Close \/ Return
  <2>1. UNCHANGED <<done, tickerVars>> /\ engine' # "working"
    BY <1>2 DEF Join, Fail, Close, Return
  <2>2. InTransit' = InTransit
    BY <1>2 DEF Join, Fail, Close, Return, InTransit, channelVars, callerVars
  <2>. QED
    BY <1>c, <2>1, <2>2
<1>3. CASE Flush
  <2>1. /\ UNCHANGED <<done, tickerVars, callerVars>> /\ engine' = "close"
        /\ done = N /\ engine # "working"
    BY <1>3 DEF Flush, Stage
  <2>2. InTransit' = InTransit \/ InTransit' = Append(InTransit, N)
    <3>1. CASE LastFlush
      BY <1>0, <1>3, <3>1, SendAppends DEF Flush
    <3>2. CASE ~LastFlush
      BY <1>3, <3>2 DEF Flush, InTransit, callerVars
    <3>. QED
      BY <3>1, <3>2
  <2>3. CASE InTransit' = InTransit
    BY <1>c, <2>1, <2>3
  <2>4. CASE InTransit' = Append(InTransit, N)
    <3> DEFINE n == Len(InTransit)
               t == Append(InTransit, N)
    <3>1. /\ n \in Nat /\ Len(t) = n + 1 /\ t[n + 1] = N
          /\ \A i \in 1 .. n : t[i] = InTransit[i]
          /\ \A i \in 1 .. n : InTransit[i] <= N
      BY <1>0, LenProperties, AppendProperties DEF Update
    <3>2. Order(t)
      BY <1>0, <2>1, <3>1, AppendOrder
    <3>3. Order(InTransit)'
      BY <2>1, <2>4, <3>2 DEF Order, BackAt
    <3>4. ASSUME NEW j \in 1 .. n + 1, BackAt(t, j)
          PROVE  j \in 1 .. n /\ BackAt(InTransit, j)
      <4>1. PICK i \in 1 .. j - 1 : t[i] > t[j]
        BY <3>4 DEF BackAt
      <4>2. i \in 1 .. n /\ (j \in 1 .. n \/ j = n + 1)
        BY <3>1
      <4>3. j # n + 1
        BY <1>0, <3>1, <4>1, <4>2 DEF Update
      <4>. QED
        BY <3>1, <4>1, <4>2, <4>3 DEF BackAt
    <3>5. Pending(t)
      <4>1. SUFFICES ASSUME ticker = "send"
                     PROVE  /\ reading <= done
                            /\ \A i \in 1 .. Len(t) :
                                 t[i] <= reading \/ (t[i] = N /\ engine # "working")
                            /\ (\E j \in 1 .. Len(t) : BackAt(t, j)) => reading = N
        BY DEF Pending
      <4>2. ASSUME NEW i \in 1 .. n + 1
            PROVE  t[i] <= reading \/ (t[i] = N /\ engine # "working")
        <5>1. i \in 1 .. n \/ i = n + 1
          BY <3>1
        <5>. QED
          BY <2>1, <3>1, <4>1, <5>1 DEF Pending
      <4>3. ASSUME NEW j \in 1 .. n + 1, BackAt(t, j) PROVE reading = N
        BY <3>4, <4>1, <4>3 DEF Pending
      <4>. QED
        BY <3>1, <4>1, <4>2, <4>3 DEF Pending
    <3>6. Pending(InTransit)'
      BY <2>1, <2>4, <3>5 DEF Pending, BackAt, tickerVars
    <3>. QED
      BY <3>3, <3>6
  <2>. QED
    BY <2>2, <2>3, <2>4
<1>4. CASE Tick
  <2>1. /\ InTransit' = InTransit /\ UNCHANGED <<done, engine>> /\ reading' = done
    BY <1>4, <1>a DEF Tick, engineVars
  <2>2. Order(InTransit)'
    BY <2>1 DEF Order, BackAt
  <2>3. ASSUME NEW j \in 1 .. Len(InTransit), BackAt(InTransit, j) PROVE done = N
    <3>1. PICK i \in 1 .. j - 1 : InTransit[i] > InTransit[j]
      BY <2>3 DEF BackAt
    <3>2. i \in 1 .. Len(InTransit) /\ i < j
      BY <1>0, LenProperties
    <3>3. InTransit[i] = N /\ InTransit[i] <= done
      BY <3>1, <3>2 DEF Order
    <3>. QED
      BY <1>0, <3>3
  <2>4. Pending(InTransit)'
    BY <1>0, <2>1, <2>3 DEF Pending, Order, BackAt
  <2>. QED
    BY <2>2, <2>4
<1>5. CASE TickSend
  <2>1. /\ ticker = "send" /\ ticker' = "select" /\ UNCHANGED <<done, engine, callerVars>>
        /\ reading \in Update
    BY <1>5 DEF TickSend, engineVars, TypeOK
  <2>2. InTransit' = InTransit \/ InTransit' = Append(InTransit, reading)
    <3>1. CASE closed
      BY <1>5, <3>1 DEF TickSend, InTransit, callerVars
    <3>2. CASE ~closed
      BY <1>5, <2>1, <3>2, SendAppends DEF TickSend
    <3>. QED
      BY <3>1, <3>2
  <2>3. Order(Append(InTransit, reading))
    BY <1>0, <2>1, AppendOrder DEF Pending
  <2>4. Order(InTransit)'
    BY <2>1, <2>2, <2>3 DEF Order, BackAt
  <2>. QED
    BY <2>1, <2>4 DEF Pending
<1>6. CASE TickStop
  BY <1>6, <1>a DEF TickStop, engineVars, Order, Pending, BackAt
<1>7. CASE Receive
  BY <1>7, <1>b, ReceiveKeeps DEF Receive, engineVars
<1>8. CASE Forward
  <2>1. UNCHANGED <<done, engine, tickerVars>>
    BY <1>8 DEF Forward, engineVars
  <2>2. CASE InTransit' = InTransit
    BY <1>b, <2>1, <2>2
  <2>3. CASE /\ Len(InTransit') = Len(InTransit) - 1
             /\ \A i \in 1 .. Len(InTransit) - 1 : InTransit'[i] = InTransit[i + 1]
    <3>1. InTransit' \in Seq(Update)
      BY <1>8, ForwardDrops
    <3>2. PICK t \in Seq(Update) : t = InTransit'
      BY <3>1
    <3>3. Order(t) /\ Pending(t)
      BY <1>0, <2>3, <3>2, DropOrder
    <3>. QED
      BY <2>1, <3>2, <3>3 DEF Order, Pending, BackAt, tickerVars
  <2>. QED
    BY <1>8, <2>2, <2>3, ForwardDrops
<1>9. CASE EndOfStream
  <2>1. InTransit' = InTransit
    BY <1>9 DEF EndOfStream, InTransit, channelVars
  <2>. QED
    BY <1>9, <1>b, <2>1 DEF EndOfStream, engineVars
<1>10. CASE UNCHANGED vars
  BY <1>10, <1>a, <1>b DEF vars, engineVars
<1>. QED
  BY <1>1, <1>2, <1>3, <1>4, <1>5, <1>6, <1>7, <1>8, <1>9, <1>10
     DEF Next, EngineStep, EngineAdvance, TickerStep, CallerStep
-----------------------------------------------------------------------------
LEMMA InitInvariant == Init => Invariant
<1> SUFFICES ASSUME Init PROVE Invariant
  OBVIOUS
<1>1. TypeOK
  <2>1. /\ done \in Update /\ reading \in Update /\ held \in Update
        /\ seen \in Update \cup {-1}
    BY Sizes DEF Init, Update
  <2>2. progress \in Seq(Update) /\ Len(progress) <= Capacity
    BY Sizes DEF Init
  <2>3. /\ cancelled \in BOOLEAN /\ closed \in BOOLEAN /\ ended \in BOOLEAN
        /\ crash \in BOOLEAN
    BY DEF Init
  <2>. QED
    BY <2>1, <2>2, <2>3 DEF Init, TypeOK
<1>2. InTransit = <<>>
  BY DEF Init, InTransit
<1>. QED
  BY <1>1, <1>2 DEF Init, Invariant, Stage, Order, Pending

LEMMA Invariance == Spec => []Invariant
<1>1. Invariant /\ [Next]_vars => Invariant'
  BY TypeStep, StageStep, OrderStep DEF Invariant
<1>. QED
  BY <1>1, InitInvariant, PTL DEF Spec

\* Every variable has its type, and the buffer is never overrun (queue.go:182-191,
\* 321-331).
THEOREM TypeCorrect == Spec => []TypeOK
<1>1. Invariant => TypeOK
  BY DEF Invariant
<1>. QED
  BY <1>1, Invariance, PTL

\* Progress goes back at most once, behind the last update (queue.go:176-191,
\* 321-331).
THEOREM ProgressGoesBackOnce == Spec => []OnlyTheLastOvertakes
<1>1. Invariant => OnlyTheLastOvertakes
  <2> SUFFICES ASSUME Invariant PROVE OnlyTheLastOvertakes
    OBVIOUS
  <2>1. Overtaken = {j \in 1 .. Len(InTransit) : BackAt(InTransit, j)}
    BY DEF Overtaken, BackAt
  <2>2. Overtaken = {} \/ \E j \in Overtaken : Overtaken = {j}
    BY <2>1 DEF Invariant, Order
  <2>3. Cardinality(Overtaken) = 0 \/ Cardinality(Overtaken) = 1
    BY <2>2, FS_EmptySet, FS_Singleton
  <2>4. Len(InTransit) \in Nat
    BY TransitType, LenProperties DEF Invariant
  <2>5. ASSUME NEW j \in Overtaken, NEW i \in 1 .. j - 1, InTransit[i] > InTransit[j]
        PROVE  InTransit[i] = N /\ engine # "working"
    <3>1. i \in 1 .. Len(InTransit) /\ j \in 1 .. Len(InTransit) /\ i < j
      BY <2>1, <2>4
    <3>. QED
      BY <2>5, <3>1 DEF Invariant, Order
  <2>. QED
    BY <2>3, <2>5 DEF OnlyTheLastOvertakes
<1>. QED
  BY <1>1, Invariance, PTL
=============================================================================
