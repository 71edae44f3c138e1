----------------------------- MODULE SwarmProofs -----------------------------
(***************************************************************************)
(* Theorems about Swarm: types, and that what a download stores is what    *)
(* its own origin has, for any downloads, files, addresses and faults.     *)
(***************************************************************************)
EXTENDS Swarm, FiniteSetTheorems, TLAPS

\* What a worker waits for was looked up.
Expecting ==
  \A d \in Download, i \in Piece :
    phase[d][i] \in {"peer", "race"} => asked[d][i] # <<>>

\* A pair names what d's origin has under its index.
RightPair(d, p) == p[2] = Content(d, p[1])

\* Where a file has one grid, every copy of a hash is right: in the stores, in
\* announcements, at the tracker, in the cached replies and in requests.
AllRight(d) ==
  /\ \A p \in store[d] : RightPair(d, p)
  /\ \A k \in Announcer : \A p \in snapshot[d][k] : RightPair(d, p)
  /\ \A c \in cache[d] : RightPair(d, c[2])
  /\ \A a \in Address : \A p \in listing[File[d]][a] : RightPair(d, p)
  /\ \A i \in Piece : phase[d][i] \in {"peer", "race"} => asked[d][i][2] = Content(d, i)
CopiesAreRight == \A d \in Download : OneGrid(File[d]) => AllRight(d)

Invariant == TypeOK /\ Expecting /\ CopiesAreRight
-----------------------------------------------------------------------------
\* What constants give: addresses, files, hashes.
LEMMA Constants ==
  /\ \A d \in Download : Addr[d] \in Address /\ File[d] \in FileHash
  /\ \A d \in Download, i \in Piece : Content(d, i) \in Hash
  /\ Junk \in Hash /\ None \notin Download /\ Stranger \notin Download
  /\ Piece \subseteq Announcer /\ Ticker \in Announcer
  /\ Cutoff \in Nat /\ MaxFaults \in Nat
  BY SwarmAssumption, ServerAssumption DEF Address, FileHash, Hash, Announcer

\* A lookup finds pairs of the right types (tracker/main.go 61-76).
LEMMA KnownType ==
  ASSUME TypeOK, NEW d \in Download
  PROVE  /\ PeersFor(d) \in SUBSET (Address \X Pair)
         /\ Known(d) \in SUBSET (Address \X Pair)
<1>1. ASSUME NEW a \in Address PROVE listing[File[d]][a] \in SUBSET Pair
  BY <1>1, Constants DEF TypeOK
<1>2. PeersFor(d) \in SUBSET (Address \X Pair)
  BY <1>1 DEF PeersFor
<1>. QED
  BY <1>2 DEF Known, TypeOK

\* What a peer serves is a hash (swarm.go 197-239).
LEMMA ServedType ==
  ASSUME TypeOK, NEW a \in Address, NEW i \in Piece, NEW h \in Served(a, i)
  PROVE  h \in Hash
<1>1. CASE server[a] = Stranger
  BY <1>1, Constants DEF Served
<1>2. CASE server[a] # Stranger
  <2>1. server[a] \in Download
    BY <1>2 DEF Served, TypeOK
  <2>2. PICK q \in store[server[a]] : h = q[2]
    BY <1>2 DEF Served
  <2>3. store[server[a]] \in SUBSET Pair
    BY <2>1 DEF TypeOK
  <2>. QED
    BY <2>2, <2>3 DEF Pair
<1>. QED
  BY <1>1, <1>2

LEMMA TypeStep ==
  ASSUME TypeOK, Expecting, [Next]_vars
  PROVE  TypeOK'
<1> USE DEF TypeOK, pieceVars, messageVars, trackerVars, Running
<1>1. ASSUME NEW d \in Download, Start(d) PROVE TypeOK'
  BY <1>1, Constants DEF Start
<1>2. ASSUME NEW d \in Download, Return(d) PROVE TypeOK'
  BY <1>2 DEF Return
<1>3. ASSUME NEW d \in Download, Exit(d) PROVE TypeOK'
  BY <1>3, Constants DEF Exit
<1>4. ASSUME NEW d \in Download, Refresh(d) PROVE TypeOK'
  BY <1>4, KnownType DEF Refresh
<1>5. ASSUME NEW d \in Download, TickerFires(d) PROVE TypeOK'
  BY <1>5, Constants DEF TickerFires, Send, TickerDue
<1>6. ASSUME NEW d \in Download, NEW i \in Piece, TakeFromPeer(d, i) PROVE TypeOK'
  <2>1. PICK c \in Claims(d, i) : asked' = [asked EXCEPT ![d][i] = <<c[1], c[2][2]>>]
    BY <1>6 DEF TakeFromPeer
  <2>2. <<c[1], c[2][2]>> \in Address \X Hash
    BY KnownType DEF Claims, Pair
  <2>3. asked' \in [Download -> [Piece -> {<<>>} \cup (Address \X Hash)]]
    BY <1>6, <2>1, <2>2
  <2>. QED
    BY <1>6, <2>3 DEF TakeFromPeer, SetPhase
<1>7. ASSUME NEW d \in Download, NEW i \in Piece, TakeFromOrigin(d, i) PROVE TypeOK'
  BY <1>7, Constants DEF TakeFromOrigin, SetPhase, Fault, Turn
<1>8. ASSUME NEW d \in Download, NEW i \in Piece, PeerAnswers(d, i) PROVE TypeOK'
  <2>1. PICK h \in Accepted(asked[d][i][1], i, asked[d][i][2]) : Stored(d, i, h)
    BY <1>8 DEF PeerAnswers
  <2>2. asked[d][i] \in Address \X Hash
    BY <1>8 DEF PeerAnswers, Asking, Expecting
  <2>3. <<i, h>> \in Pair
    BY <1>8, <2>1, <2>2 DEF Accepted, Pair
  <2>. QED
    BY <1>8, <2>1, <2>3, Constants DEF Stored, SetPhase
<1>9. ASSUME NEW d \in Download, NEW i \in Piece, PeerFails(d, i) PROVE TypeOK'
  BY <1>9 DEF PeerFails, SetPhase, AfterPeer, Asking
<1>10. ASSUME NEW d \in Download, NEW i \in Piece, OriginAnswers(d, i) PROVE TypeOK'
  <2>1. <<i, Content(d, i)>> \in Pair
    BY <1>10, Constants DEF Pair
  <2>. QED
    BY <1>10, <2>1, Constants DEF OriginAnswers, Stored, SetPhase
<1>11. ASSUME NEW d \in Download, NEW i \in Piece, OriginDrops(d, i) PROVE TypeOK'
  BY <1>11 DEF OriginDrops, SetPhase
<1>12. ASSUME NEW d \in Download, NEW i \in Piece, AnnouncePiece(d, i) PROVE TypeOK'
  BY <1>12, Constants DEF AnnouncePiece, Send
<1>13. ASSUME NEW d \in Download, NEW k \in Announcer, Arrive(d, k) PROVE TypeOK'
  BY <1>13, Constants DEF Arrive, Concluded
<1>14. ASSUME NEW d \in Download, NEW k \in Announcer, Lose(d, k) PROVE TypeOK'
  BY <1>14, Constants DEF Lose, Concluded, Fault
<1>15. ASSUME NEW a \in Address, Leave(a) PROVE TypeOK'
  BY <1>15, Constants DEF Leave
<1>16. CASE TrackerRestart
  BY <1>16, Constants DEF TrackerRestart, Fault
<1>17. CASE Pass
  BY <1>17, Constants DEF Pass
<1>18. CASE UNCHANGED vars
  BY <1>18 DEF vars
<1>. QED
  BY <1>1, <1>2, <1>3, <1>4, <1>5, <1>6, <1>7, <1>8, <1>9, <1>10, <1>11,
     <1>12, <1>13, <1>14, <1>15, <1>16, <1>17, <1>18 DEF Next

LEMMA ExpectingStep ==
  ASSUME TypeOK, Expecting, [Next]_vars
  PROVE  Expecting'
<1> USE DEF TypeOK, Expecting, pieceVars
<1>1. ASSUME NEW d \in Download, Start(d) PROVE Expecting'
  BY <1>1 DEF Start
<1>2. ASSUME NEW d \in Download, Return(d) PROVE Expecting'
  BY <1>2 DEF Return
<1>3. ASSUME NEW d \in Download, Exit(d) PROVE Expecting'
  BY <1>3 DEF Exit
<1>4. ASSUME NEW d \in Download, Refresh(d) PROVE Expecting'
  BY <1>4 DEF Refresh
<1>5. ASSUME NEW d \in Download, TickerFires(d) PROVE Expecting'
  BY <1>5 DEF TickerFires, Send, TickerDue
<1>6. ASSUME NEW d \in Download, NEW i \in Piece, TakeFromPeer(d, i) PROVE Expecting'
  BY <1>6 DEF TakeFromPeer, SetPhase, Turn
<1>7. ASSUME NEW d \in Download, NEW i \in Piece, TakeFromOrigin(d, i) PROVE Expecting'
  BY <1>7 DEF TakeFromOrigin, SetPhase, Fault, Turn
<1>8. ASSUME NEW d \in Download, NEW i \in Piece, PeerAnswers(d, i) PROVE Expecting'
  BY <1>8 DEF PeerAnswers, Stored, SetPhase, Asking
<1>9. ASSUME NEW d \in Download, NEW i \in Piece, PeerFails(d, i) PROVE Expecting'
  BY <1>9 DEF PeerFails, SetPhase, AfterPeer, Asking
<1>10. ASSUME NEW d \in Download, NEW i \in Piece, OriginAnswers(d, i) PROVE Expecting'
  BY <1>10 DEF OriginAnswers, Stored, SetPhase
<1>11. ASSUME NEW d \in Download, NEW i \in Piece, OriginDrops(d, i) PROVE Expecting'
  BY <1>11 DEF OriginDrops, SetPhase
<1>12. ASSUME NEW d \in Download, NEW i \in Piece, AnnouncePiece(d, i) PROVE Expecting'
  BY <1>12 DEF AnnouncePiece, Send
<1>13. ASSUME NEW d \in Download, NEW k \in Announcer, Arrive(d, k) PROVE Expecting'
  BY <1>13 DEF Arrive, Concluded
<1>14. ASSUME NEW d \in Download, NEW k \in Announcer, Lose(d, k) PROVE Expecting'
  BY <1>14 DEF Lose, Concluded, Fault
<1>15. ASSUME NEW a \in Address, Leave(a) PROVE Expecting'
  BY <1>15 DEF Leave
<1>16. CASE TrackerRestart
  BY <1>16 DEF TrackerRestart, Fault
<1>17. CASE Pass
  BY <1>17 DEF Pass
<1>18. CASE UNCHANGED vars
  BY <1>18 DEF vars
<1>. QED
  BY <1>1, <1>2, <1>3, <1>4, <1>5, <1>6, <1>7, <1>8, <1>9, <1>10, <1>11,
     <1>12, <1>13, <1>14, <1>15, <1>16, <1>17, <1>18 DEF Next

\* Downloads of a file of one grid agree on what is right.
LEMMA SameContent ==
  ASSUME NEW d \in Download, NEW e \in Download, File[d] = File[e], OneGrid(File[d]),
         NEW p
  PROVE  RightPair(d, p) <=> RightPair(e, p)
  BY DEF OneGrid, RightPair, Content

\* What a lookup finds is right.
LEMMA KnownIsRight ==
  ASSUME TypeOK, NEW d \in Download, AllRight(d)
  PROVE  /\ \A c \in PeersFor(d) : RightPair(d, c[2])
         /\ \A c \in Known(d) : RightPair(d, c[2])
  BY DEF PeersFor, Known, AllRight

LEMMA CopiesStep ==
  ASSUME TypeOK, Expecting, CopiesAreRight, [Next]_vars
  PROVE  CopiesAreRight'
<1>0. SUFFICES ASSUME NEW e \in Download, OneGrid(File[e])
               PROVE  AllRight(e)'
  BY DEF CopiesAreRight, OneGrid
<1>a. AllRight(e)
  BY <1>0 DEF CopiesAreRight
<1>b. e \in Download /\ File[e] \in FileHash
  BY Constants
<1> USE DEF TypeOK, AllRight, pieceVars, messageVars, trackerVars
<1>1. ASSUME NEW d \in Download, Start(d) PROVE AllRight(e)'
  BY <1>1, <1>a, <1>b, Constants DEF Start
<1>2. ASSUME NEW d \in Download, Return(d) PROVE AllRight(e)'
  BY <1>2, <1>a, <1>b, Constants DEF Return
<1>3. ASSUME NEW d \in Download, Exit(d) PROVE AllRight(e)'
  BY <1>3, <1>a, <1>b, Constants DEF Exit
<1>4. ASSUME NEW d \in Download, Refresh(d) PROVE AllRight(e)'
  BY <1>4, <1>a, <1>b, Constants, KnownIsRight DEF Refresh
<1>5. ASSUME NEW d \in Download, TickerFires(d) PROVE AllRight(e)'
  BY <1>5, <1>a, <1>b, Constants DEF TickerFires, Send, TickerDue
<1>6. ASSUME NEW d \in Download, NEW i \in Piece, TakeFromPeer(d, i) PROVE AllRight(e)'
  <2>1. PICK c \in Claims(d, i) : asked' = [asked EXCEPT ![d][i] = <<c[1], c[2][2]>>]
    BY <1>6 DEF TakeFromPeer
  <2>2. ASSUME d = e PROVE c[2][2] = Content(d, i)
    <3>1. AllRight(d)
      BY <1>a, <2>2
    <3>2. RightPair(d, c[2]) /\ c[2][1] = i
      BY <3>1, KnownIsRight DEF Claims
    <3>. QED
      BY <3>2 DEF RightPair
  <2>. QED
    BY <1>6, <1>a, <1>b, <2>1, <2>2 DEF TakeFromPeer, SetPhase
<1>7. ASSUME NEW d \in Download, NEW i \in Piece, TakeFromOrigin(d, i) PROVE AllRight(e)'
  BY <1>7, <1>a, <1>b, Constants DEF TakeFromOrigin, SetPhase, Fault, Turn
<1>8. ASSUME NEW d \in Download, NEW i \in Piece, PeerAnswers(d, i) PROVE AllRight(e)'
  <2>1. PICK h \in Accepted(asked[d][i][1], i, asked[d][i][2]) : Stored(d, i, h)
    BY <1>8 DEF PeerAnswers
  <2>2. d = e => RightPair(d, <<i, h>>)
    BY <1>8, <1>a, <2>1 DEF PeerAnswers, Asking, Accepted, RightPair
  <2>. QED
    BY <1>8, <1>a, <1>b, <2>1, <2>2, Constants DEF Stored, SetPhase
<1>9. ASSUME NEW d \in Download, NEW i \in Piece, PeerFails(d, i) PROVE AllRight(e)'
  BY <1>9, <1>a, <1>b, Constants DEF PeerFails, SetPhase, AfterPeer, Asking
<1>10. ASSUME NEW d \in Download, NEW i \in Piece, OriginAnswers(d, i) PROVE AllRight(e)'
  <2>1. RightPair(d, <<i, Content(d, i)>>)
    BY DEF RightPair
  <2>. QED
    BY <1>10, <1>a, <1>b, <2>1, Constants DEF OriginAnswers, Stored, SetPhase
<1>11. ASSUME NEW d \in Download, NEW i \in Piece, OriginDrops(d, i) PROVE AllRight(e)'
  BY <1>11, <1>a, <1>b, Constants DEF OriginDrops, SetPhase
<1>12. ASSUME NEW d \in Download, NEW i \in Piece, AnnouncePiece(d, i) PROVE AllRight(e)'
  BY <1>12, <1>a, <1>b, Constants DEF AnnouncePiece, Send
<1>13. ASSUME NEW d \in Download, NEW k \in Announcer, Arrive(d, k) PROVE AllRight(e)'
  <2>1. File[d] = File[e] => \A p \in snapshot[d][k] : RightPair(e, p)
    <3>1. SUFFICES ASSUME File[d] = File[e] PROVE \A p \in snapshot[d][k] : RightPair(e, p)
      OBVIOUS
    <3>2. AllRight(d)
      BY <1>13, <1>0, <3>1 DEF CopiesAreRight
    <3>. QED
      BY <1>13, <1>0, <3>1, <3>2, SameContent
  <2>. QED
    BY <1>13, <1>a, <1>b, <2>1, Constants DEF Arrive, Concluded
<1>14. ASSUME NEW d \in Download, NEW k \in Announcer, Lose(d, k) PROVE AllRight(e)'
  BY <1>14, <1>a, <1>b, Constants DEF Lose, Concluded, Fault
<1>15. ASSUME NEW a \in Address, Leave(a) PROVE AllRight(e)'
  BY <1>15, <1>a, <1>b, Constants DEF Leave
<1>16. CASE TrackerRestart
  BY <1>16, <1>a, <1>b, Constants DEF TrackerRestart, Fault
<1>17. CASE Pass
  BY <1>17, <1>a, <1>b, Constants DEF Pass
<1>18. CASE UNCHANGED vars
  BY <1>18, <1>a, <1>b, Constants DEF vars
<1>. QED
  BY <1>1, <1>2, <1>3, <1>4, <1>5, <1>6, <1>7, <1>8, <1>9, <1>10, <1>11,
     <1>12, <1>13, <1>14, <1>15, <1>16, <1>17, <1>18 DEF Next
-----------------------------------------------------------------------------
LEMMA InitInvariant == Init => Invariant
<1> SUFFICES ASSUME Init PROVE Invariant
  OBVIOUS
<1>1. TypeOK
  <2>1. /\ store \in [Download -> SUBSET Pair] /\ cache \in [Download -> SUBSET (Address \X Pair)]
        /\ status \in [Download -> {"idle", "running", "ended", "gone"}]
    BY DEF Init
  <2>2. /\ phase \in [Download -> [Piece -> {"todo", "peer", "race", "origin", "done"}]]
        /\ asked \in [Download -> [Piece -> {<<>>} \cup (Address \X Hash)]]
    BY DEF Init
  <2>3. /\ announcer \in [Download -> [Announcer -> {"rest", "spawned", "sent"}]]
        /\ snapshot \in [Download -> [Announcer -> SUBSET Pair]]
        /\ ticked \subseteq {d \in Download : Running(d)}
    BY DEF Init
  <2>4. /\ server \in [Address -> Download \cup {None, Stranger}]
        /\ \A a \in Address : server[a] \notin Download
    BY Constants DEF Init
  <2>5. listing \in [FileHash -> [Address -> SUBSET Pair]]
    BY DEF Init
  <2>6. age \in [FileHash -> [Address -> 0 .. Cutoff + 1]] /\ faults \in 0 .. MaxFaults
    BY Constants DEF Init
  <2>. QED
    BY <2>1, <2>2, <2>3, <2>4, <2>5, <2>6 DEF TypeOK
<1>2. Expecting
  BY DEF Init, Expecting
<1>3. CopiesAreRight
  BY Constants DEF Init, CopiesAreRight, AllRight
<1>. QED
  BY <1>1, <1>2, <1>3 DEF Invariant

LEMMA Invariance == Spec => []Invariant
<1>1. Invariant /\ [Next]_vars => Invariant'
  BY TypeStep, ExpectingStep, CopiesStep DEF Invariant
<1>. QED
  BY <1>1, InitInvariant, PTL DEF Spec

\* Every variable has its type; a server has its download's address, and only
\* a download that runs has a ticker (adaptive.go 165-179).
THEOREM TypeCorrect == Spec => []TypeOK
<1>1. Invariant => TypeOK
  BY DEF Invariant
<1>. QED
  BY <1>1, Invariance, PTL

\* What a download stores is what its own origin has under the index, where the
\* downloads of the file use one grid (swarm.go 197-239).
THEOREM StoresAreRight == Spec => []PiecesAreRight
<1>1. Invariant => PiecesAreRight
  BY DEF Invariant, CopiesAreRight, AllRight, RightPair, PiecesAreRight
<1>. QED
  BY <1>1, Invariance, PTL
=============================================================================
