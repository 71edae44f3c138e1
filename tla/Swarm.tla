-------------------------------- MODULE Swarm --------------------------------
(***************************************************************************)
(* The swarm layer: the piece store, the peer server and the client of     *)
(* internal/swarm, the tracker (cmd/tracker) and the use that              *)
(* DownloadAdaptive and DownloadQueue make of them.  A download stores     *)
(* pieces, announces its store to the tracker, looks pieces up there and   *)
(* asks a peer before, or in a race with, an origin server.                *)
(*                                                                         *)
(* A step is one operation on the store, a snapshot of it, a request       *)
(* arriving at the tracker or at a peer, or an answer.  Announcements have *)
(* no order: the ticker's loop has one in flight, and every stored piece   *)
(* starts a goroutine with one of its own.  The workers, their errors and  *)
(* the files on disk belong to AdaptiveEngine and QueueEngine.             *)
(***************************************************************************)
EXTENDS Integers, FiniteSets

CONSTANTS
  Download,   \* calls of DownloadAdaptive or DownloadQueue with swarm options
  N,          \* the pieces of a file
  File,       \* the file a download is of: URLs[0], which fileHash stands for
  Grid,       \* the piece size it cuts the file with
  Addr,       \* its opts.ListenAddr
  Adaptive,   \* the downloads that run DownloadAdaptive
  Squatted,   \* the addresses another program may have at first, such as an
              \* instance with another file and another tracker
  Cutoff,     \* units of time the tracker lists a silent peer for, two minutes
  Faults,     \* which of FaultKinds may happen
  MaxFaults   \* bound on the requests lost and the tracker's restarts

\* A peer that does not answer in time; an announcement or a reply that is
\* lost; the tracker restarts; an origin that fails in a race; a download that
\* fails or is cancelled; a process that is killed.
FaultKinds == {"peer", "lost", "tracker", "origin", "abort", "kill"}

Piece == 0 .. N - 1
Address == {Addr[d] : d \in Download}
FileHash == {File[d] : d \in Download}

\* What a download's origin has under an index, for its SHA-256; what another
\* program answers under any index.
Content(d, i) == <<File[d], Grid[d], i>>
Junk == <<>>
Hash == {Content(d, i) : d \in Download, i \in Piece} \cup {Junk}

ASSUME SwarmAssumption ==
  /\ N \in Nat \ {0} /\ Cutoff \in Nat /\ MaxFaults \in Nat
  /\ Adaptive \subseteq Download /\ Squatted \subseteq Address
  /\ Faults \subseteq FaultKinds

\* Who serves an address when no download does.
None == "none"
Stranger == "stranger"
ASSUME ServerAssumption == None \notin Download /\ Stranger \notin Download

\* The goroutines of a download that announce: one per stored piece, and the
\* loop with the one-second ticker.
Ticker == -1
Announcer == Piece \cup {Ticker}

VARIABLES
  status,   \* "idle", "running", "ended" (its process lives on) or "gone"
  store,    \* the pieces in its Store: pairs of an index and a hash
  phase,    \* of each piece: "todo", "peer", "race", "origin" or "done"
  asked,    \* the peer asked for a piece and the hash expected from it
  cache,    \* cachedPeers: pairs of an address and a piece it announced
  announcer,\* of each announcer: "rest", "spawned" or "sent"
  snapshot, \* the pieces in the announcement it sent
  ticked,   \* the downloads whose ticker announced since time last passed
  server,   \* the download whose peer server has an address, None or Stranger
  listing,  \* t.swarm: what a file's peers announced
  age,      \* the time since then; Cutoff + 1 for longer ago, or never
  faults    \* faults that may still happen

pieceVars   == <<store, phase, asked>>
messageVars == <<announcer, snapshot, ticked>>
trackerVars == <<listing, age>>
vars == <<status, pieceVars, cache, messageVars, server, trackerVars, faults>>

Init ==
  /\ status = [d \in Download |-> "idle"]
  /\ store = [d \in Download |-> {}]
  /\ phase = [d \in Download |-> [i \in Piece |-> "todo"]]
  /\ asked = [d \in Download |-> [i \in Piece |-> <<>>]]
  /\ cache = [d \in Download |-> {}]
  /\ announcer = [d \in Download |-> [k \in Announcer |-> "rest"]]
  /\ snapshot = [d \in Download |-> [k \in Announcer |-> {}]]
  /\ ticked = {}
  /\ server \in {s \in [Address -> {None, Stranger}] :
                  \A a \in Address : s[a] = Stranger => a \in Squatted}
  /\ listing = [f \in FileHash |-> [a \in Address |-> {}]]
  /\ age = [f \in FileHash |-> [a \in Address |-> Cutoff + 1]]
  /\ faults = MaxFaults
-----------------------------------------------------------------------------
(* What the actions share. *)

Running(d) == status[d] = "running"

\* Mutant of Fresh: a peer once announced is listed for ever.
Remembered(f, a) == listing[f][a] # {}

\* tracker/main.go 65-72.
Fresh(f, a) == age[f][a] <= Cutoff

\* tracker/main.go 61-76: the other peers of d's file, with their pieces.
PeersFor(d) ==
  UNION {{<<a, p>> : p \in listing[File[d]][a]} :
           a \in {b \in Address : b # Addr[d] /\ Fresh(File[d], b)}}

\* The reply a lookup reads: the cached one, or one asked for now.
Known(d) == IF d \in Adaptive THEN cache[d] ELSE PeersFor(d)

\* FindPeerWithPiece: some peer that claims the piece, in no particular order.
Claims(d, i) == {c \in Known(d) : c[2][1] = i}

\* The piece the next worker takes: both engines hand them out in order.
Turn(d, i) == phase[d][i] = "todo" /\ \A j \in 0 .. i - 1 : phase[d][j] # "todo"

SetPhase(d, i, to) == phase' = [phase EXCEPT ![d][i] = to]

\* What the peer server under an address has under an index, whatever its file
\* and its grid: its store's directory is there while the download runs.
Served(a, i) ==
  LET e == server[a] IN
    IF e = Stranger THEN {Junk}
    ELSE IF e # None /\ Running(e) THEN {p[2] : p \in {q \in store[e] : q[1] = i}} ELSE {}

\* Mutant of Accepted: whatever comes is taken.
Unchecked(a, i, h) == Served(a, i)

\* ServeHTTP and FetchFromPeer: the body that hashes to what was announced.
Accepted(a, i, h) == Served(a, i) \cap {h}

\* Put and AnnouncePiece, after a body arrived.
Stored(d, i, h) ==
  /\ store' = [store EXCEPT ![d] = @ \cup {<<i, h>>}]
  /\ announcer' = [announcer EXCEPT ![d][i] = "spawned"]
  /\ SetPhase(d, i, "done")
  /\ asked' = [asked EXCEPT ![d][i] = <<>>]
  /\ UNCHANGED <<status, cache, snapshot, ticked, server, trackerVars, faults>>

\* Mutant of AfterPeer: the piece goes back to the queue.
Requeued == "todo"

\* adaptive.go 307, queue.go 278-280: what a peer does not give comes from an
\* origin.
AfterPeer == "origin"

Fault(kind) == kind \in Faults /\ faults > 0 /\ faults' = faults - 1
-----------------------------------------------------------------------------
(* A download. *)

\* The start: an empty store, its peer server, unless the address is taken,
\* which nobody hears of, and the goroutines that announce and refresh.
Start(d) ==
  /\ status[d] = "idle"
  /\ status' = [status EXCEPT ![d] = "running"]
  /\ server' = [server EXCEPT ![Addr[d]] = IF @ = None THEN d ELSE @]
  /\ UNCHANGED <<pieceVars, cache, messageVars, trackerVars, faults>>

\* A worker takes a piece a listed peer claims; DownloadQueue asks an origin
\* at the same time.
TakeFromPeer(d, i) ==
  /\ Running(d) /\ Turn(d, i)
  /\ \E c \in Claims(d, i) : asked' = [asked EXCEPT ![d][i] = <<c[1], c[2][2]>>]
  /\ SetPhase(d, i, IF d \in Adaptive THEN "peer" ELSE "race")
  /\ UNCHANGED <<status, store, cache, messageVars, server, trackerVars, faults>>

\* A worker takes a piece nobody claims.  DownloadAdaptive does not look up a
\* piece that is not the first of a batch, or that became the next one after
\* the lookup of an earlier one; DownloadQueue goes on when the tracker does not
\* answer.
TakeFromOrigin(d, i) ==
  /\ Running(d) /\ Turn(d, i)
  /\ \/ (Claims(d, i) = {} \/ (d \in Adaptive /\ i > 0)) /\ UNCHANGED faults
     \/ d \notin Adaptive /\ Fault("lost")
  /\ SetPhase(d, i, "origin")
  /\ UNCHANGED <<status, store, asked, cache, messageVars, server, trackerVars>>

Asking(d, i) == Running(d) /\ phase[d][i] \in {"peer", "race"}

\* The peer has the piece and it is the one it announced.
PeerAnswers(d, i) ==
  /\ Asking(d, i)
  /\ \E h \in Accepted(asked[d][i][1], i, asked[d][i][2]) : Stored(d, i, h)

\* Nobody listens there, the piece is not there, or it is another one; under
\* "peer", the answer does not come.
PeerFails(d, i) ==
  /\ Asking(d, i)
  /\ Accepted(asked[d][i][1], i, asked[d][i][2]) = {} \/ "peer" \in Faults
  /\ SetPhase(d, i, AfterPeer)
  /\ asked' = [asked EXCEPT ![d][i] = <<>>]
  /\ UNCHANGED <<status, store, cache, messageVars, server, trackerVars, faults>>

\* An origin sends the piece.
OriginAnswers(d, i) ==
  /\ Running(d) /\ phase[d][i] \in {"race", "origin"}
  /\ Stored(d, i, Content(d, i))

\* An origin fails first in a race, which waits for the peer then.
OriginDrops(d, i) ==
  /\ Running(d) /\ phase[d][i] = "race" /\ "origin" \in Faults
  /\ SetPhase(d, i, "peer")
  /\ UNCHANGED <<status, store, asked, cache, messageVars, server, trackerVars, faults>>

\* The download returns, with all pieces or, under "abort", with an error; no
\* worker waits for a peer then.  The deferred calls stop the ticker and remove
\* the store's directory; the peer server is not shut down.
Return(d) ==
  /\ Running(d)
  /\ \A i \in Piece :
       phase[d][i] \in {"done"} \cup (IF "abort" \in Faults THEN {"todo", "origin"} ELSE {})
  /\ status' = [status EXCEPT ![d] = "ended"]
  /\ cache' = [cache EXCEPT ![d] = {}]
  /\ ticked' = ticked \ {d}
  /\ UNCHANGED <<pieceVars, announcer, snapshot, server, trackerVars, faults>>

\* The process exits or, under "kill", dies while it downloads: its memory and
\* its listener are gone, what it has sent is not.
Exit(d) ==
  /\ status[d] = "ended" \/ (Running(d) /\ "kill" \in Faults)
  /\ status' = [status EXCEPT ![d] = "gone"]
  /\ store' = [store EXCEPT ![d] = {}]
  /\ phase' = [phase EXCEPT ![d] = [i \in Piece |-> "todo"]]
  /\ asked' = [asked EXCEPT ![d] = [i \in Piece |-> <<>>]]
  /\ cache' = [cache EXCEPT ![d] = {}]
  /\ announcer' = [announcer EXCEPT ![d] =
                     [k \in Announcer |-> IF @[k] = "sent" THEN "sent" ELSE "rest"]]
  /\ ticked' = ticked \ {d}
  /\ server' = [server EXCEPT ![Addr[d]] = IF @ = d THEN None ELSE @]
  /\ UNCHANGED <<snapshot, trackerVars, faults>>
-----------------------------------------------------------------------------
(* Announcements and the tracker. *)

\* The other program gives the address back.
Leave(a) ==
  /\ server[a] = Stranger
  /\ server' = [server EXCEPT ![a] = None]
  /\ UNCHANGED <<status, pieceVars, cache, messageVars, trackerVars, faults>>

\* Announce: the store is read, then the request is on its way.
Send(d, k) ==
  /\ announcer' = [announcer EXCEPT ![d][k] = "sent"]
  /\ snapshot' = [snapshot EXCEPT ![d][k] = store[d]]
  /\ UNCHANGED <<status, pieceVars, cache, server, trackerVars, faults>>

\* The goroutine of AnnouncePiece runs, if only after the download returned.
AnnouncePiece(d, i) ==
  /\ announcer[d][i] = "spawned"
  /\ Send(d, i)
  /\ UNCHANGED ticked

\* Mutant of TickerDue: the loop ends with the last piece.
DueWhileMissing(d) ==
  d \notin ticked /\ announcer[d][Ticker] = "rest" /\ \E i \in Piece : phase[d][i] # "done"

\* The ticker's loop waits for the request before.
TickerDue(d) == d \notin ticked /\ announcer[d][Ticker] = "rest"

\* adaptive.go 167-179, queue.go 122-134: until announceCtx is cancelled.  The
\* select may take a tick that is ready together with the cancellation; such a
\* last announcement is one that AnnouncePiece makes as well, after the return.
TickerFires(d) ==
  /\ Running(d)
  /\ TickerDue(d)
  /\ Send(d, Ticker)
  /\ ticked' = ticked \cup {d}

Concluded(d, k) ==
  /\ announcer[d][k] = "sent"
  /\ announcer' = [announcer EXCEPT ![d][k] = "rest"]
  /\ snapshot' = [snapshot EXCEPT ![d][k] = {}]

\* tracker.announce: the listing under the file and the address is replaced.
Arrive(d, k) ==
  /\ Concluded(d, k)
  /\ listing' = [listing EXCEPT ![File[d]][Addr[d]] = snapshot[d][k]]
  /\ age' = [age EXCEPT ![File[d]][Addr[d]] = 0]
  /\ UNCHANGED <<status, pieceVars, cache, ticked, server, faults>>

\* An announcement does not get through; nobody looks at the error.
Lose(d, k) ==
  /\ Concluded(d, k)
  /\ Fault("lost")
  /\ UNCHANGED <<status, pieceVars, cache, ticked, server, trackerVars>>

\* adaptive.go 183-189: the cached reply is replaced every 750 ms; when the
\* tracker does not answer it is kept.
Refresh(d) ==
  /\ Running(d) /\ d \in Adaptive
  /\ cache' = [cache EXCEPT ![d] = PeersFor(d)]
  /\ UNCHANGED <<status, pieceVars, messageVars, server, trackerVars, faults>>

\* The tracker keeps nothing on disk.
TrackerRestart ==
  /\ Fault("tracker")
  /\ listing' = [f \in FileHash |-> [a \in Address |-> {}]]
  /\ age' = [f \in FileHash |-> [a \in Address |-> Cutoff + 1]]
  /\ UNCHANGED <<status, pieceVars, cache, messageVars, server>>

\* A unit of time: what the ticker's loop takes at most for one announcement,
\* and within what a client gives a request up, ten seconds.
Pass ==
  /\ \A d \in Download : Running(d) => d \in ticked
  /\ \A d \in Download, k \in Announcer : announcer[d][k] # "sent"
  /\ age' = [f \in FileHash |-> [a \in Address |->
              IF age[f][a] > Cutoff THEN age[f][a] ELSE age[f][a] + 1]]
  /\ ticked' = {}
  /\ UNCHANGED <<status, pieceVars, cache, announcer, snapshot, server, listing, faults>>
-----------------------------------------------------------------------------
Next ==
  \/ \E d \in Download :
       \/ Start(d) \/ Return(d) \/ Exit(d) \/ Refresh(d) \/ TickerFires(d)
       \/ \E i \in Piece :
            \/ TakeFromPeer(d, i) \/ TakeFromOrigin(d, i) \/ PeerAnswers(d, i)
            \/ PeerFails(d, i) \/ OriginAnswers(d, i) \/ OriginDrops(d, i)
            \/ AnnouncePiece(d, i)
       \/ \E k \in Announcer : Arrive(d, k) \/ Lose(d, k)
  \/ \E a \in Address : Leave(a)
  \/ TrackerRestart \/ Pass

Spec == Init /\ [][Next]_vars

\* Tickers fire, goroutines run, requests that are not lost are answered, an
\* origin serves a download that goes on, and time passes.
Fairness ==
  /\ \A d \in Download :
       /\ WF_vars(Refresh(d)) /\ WF_vars(TickerFires(d))
       /\ \A i \in Piece :
            /\ WF_vars(TakeFromPeer(d, i) \/ TakeFromOrigin(d, i))
            /\ WF_vars(PeerAnswers(d, i) \/ PeerFails(d, i))
            /\ WF_vars(OriginAnswers(d, i))
            /\ WF_vars(AnnouncePiece(d, i))
       /\ \A k \in Announcer : WF_vars(Arrive(d, k))
  /\ WF_vars(Pass)

FairSpec == Spec /\ Fairness
-----------------------------------------------------------------------------
(* Properties. *)

Pair == Piece \X Hash

\* Every variable has its type; a server has its download's address, and only
\* a download that runs has a ticker (adaptive.go 165-179).
TypeOK ==
  /\ status \in [Download -> {"idle", "running", "ended", "gone"}]
  /\ store \in [Download -> SUBSET Pair]
  /\ phase \in [Download -> [Piece -> {"todo", "peer", "race", "origin", "done"}]]
  /\ asked \in [Download -> [Piece -> {<<>>} \cup (Address \X Hash)]]
  /\ cache \in [Download -> SUBSET (Address \X Pair)]
  /\ announcer \in [Download -> [Announcer -> {"rest", "spawned", "sent"}]]
  /\ snapshot \in [Download -> [Announcer -> SUBSET Pair]]
  /\ ticked \subseteq {d \in Download : Running(d)}
  /\ server \in [Address -> Download \cup {None, Stranger}]
  /\ \A a \in Address : server[a] \in Download => Addr[server[a]] = a
  /\ listing \in [FileHash -> [Address -> SUBSET Pair]]
  /\ age \in [FileHash -> [Address -> 0 .. Cutoff + 1]]
  /\ faults \in 0 .. MaxFaults

\* The downloads of a file cut it with the same grid.
OneGrid(f) == \A d, e \in Download : File[d] = f /\ File[e] = f => Grid[d] = Grid[e]

\* Where the downloads of a file use one grid, whatever a download stores is
\* what its own origin has under the index: stale listings, late announcements,
\* a peer server that could not bind and another file's server under the
\* announced address cannot slip in another piece (swarm.go 197-239).
PiecesAreRight ==
  \A d \in Download : OneGrid(File[d]) =>
    \A p \in store[d] : p[2] = Content(d, p[1])

\* No other download announces the same file from the same address.
Sole(d) == \A e \in Download \ {d} : File[e] # File[d] \/ Addr[e] # Addr[d]

\* A download that goes on is, in the end, listed with all it has, whatever
\* order its announcements arrived in, and although some were lost or the
\* tracker forgot them (swarm.go 143-175, adaptive.go 167-179).
ListingsCatchUp ==
  \A d \in Download : Sole(d) =>
    (<>[]Running(d) => <>[](/\ Fresh(File[d], Addr[d])
                            /\ listing[File[d]][Addr[d]] = store[d]))

\* Nobody is sent to a download that is over for ever: it drops out of the
\* tracker's replies, late announcements included, and out of the copies that
\* running downloads keep of them (tracker/main.go 65-72, adaptive.go 180-199).
DepartedAreForgotten ==
  \A d \in Download : Sole(d) =>
    (<>[](status[d] \in {"ended", "gone"}) =>
       <>[](\A e \in Download : Running(e) /\ File[e] = File[d] =>
              \A c \in Known(e) : c[1] # Addr[d]))

\* A piece asked from a peer comes, from the peer or from an origin, as long as
\* the download goes on: a peer that is gone, fails or serves another file
\* costs a request and no more (adaptive.go 281-318, queue.go 220-288).
AskedPiecesCome ==
  \A d \in Download, i \in Piece :
    Asking(d, i) ~> (phase[d][i] = "done" \/ ~Running(d))
=============================================================================
