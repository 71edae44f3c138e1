-------------------------- MODULE JobServerProofs --------------------------
(***************************************************************************)
(* Theorems about JobServer: types, numbers, files and what readers see,   *)
(* for any number of requests, polls, restarts and lost replies.           *)
(***************************************************************************)
EXTENDS JobServer, FiniteSetTheorems, TLAPS

\* The requests whose download this process has started.
Accepted == {r \in Request : pc[r] \notin {"none", "killed"}}

\* The counter counts them; who was not accepted has no number; who was, and
\* lives, is in the table under his number; who named no output got the default.
Numbers ==
  /\ nextID = Cardinality(Accepted)
  /\ \A r \in Request :
       /\ post[r] \in {"none", "sent"} => pc[r] = "none"
       /\ id[r] = 0 <=> pc[r] = "none"
       /\ id[r] # 0 /\ pc[r] # "killed" => jobs[id[r]] = r
       /\ id[r] # 0 => /\ out[r] \in Path
                       /\ r \notin named => out[r] = <<id[r], Name[r]>>

\* Where a job stands between its last update's writes.
Progressing(r) ==
  /\ pc[r] \in {"none", "download", "writing", "returned", "killed"}
       => state[r] = "running" /\ ~error[r] /\ ~finished[r]
  /\ pc[r] \in {"none", "download", "writing", "killed"} => result[r] = "none"
  /\ pc[r] = "returned" => result[r] # "none"
  /\ pc[r] = "state" => finished[r] /\ state[r] \in {"running", "torn"} /\ ~error[r]
                        /\ result[r] # "none"
  /\ pc[r] = "error" => finished[r] /\ state[r] = "failed" /\ ~error[r]
                        /\ result[r] = "error"
  /\ pc[r] = "over" => finished[r] /\ result[r] # "none" /\ state[r] = FinalState(r)
                       /\ (error[r] <=> result[r] = "error")
AllProgressing == \A r \in Request : Progressing(r)

\* What handleStatus has read is the job's state of now or of earlier.
StatusReads ==
  /\ status.at # "idle" => status.about \in Request
  /\ status.at \in {"error", "finished"} =>
       /\ status.state = "done" => state[status.about] = "done"
       /\ status.state = "failed" => finished[status.about]
  /\ status.at = "finished" =>
       /\ status.error => finished[status.about]
       /\ status.error => error[status.about]

\* A job nobody shares an output with has it to itself.
OwnFiles ==
  \A r \in Listed : OwnPath(r) =>
    /\ pc[r] = "writing" => files[out[r]] = <<r, "part">>
    /\ result[r] = "ok" => files[out[r]] = <<r, "all">>
-----------------------------------------------------------------------------
\* Accepting a request: the number given is new, and there is room for it
\* (main.go 91-93).
LEMMA AcceptCounts ==
  ASSUME TypeOK, Numbers, NEW r \in Request, Accept(r)
  PROVE  /\ nextID + 1 \in JobID
         /\ nextID + 1 = Cardinality(Accepted')
<1>1. Accepted' = Accepted \cup {r}
  BY DEF Accepted, Accept, TypeOK, JobType
<1>2. r \notin Accepted
  BY DEF Accept, Numbers, Accepted
<1>3. IsFiniteSet(Accepted) /\ IsFiniteSet(Accepted')
  BY <1>1, FS_Subset, RequestsAssumption DEF Accepted
<1>4. Cardinality(Accepted') = Cardinality(Accepted) + 1
  BY <1>1, <1>2, <1>3, FS_AddElement
<1>5. Cardinality(Accepted') <= Cardinality(Request)
  BY FS_Subset, RequestsAssumption DEF Accepted
<1>6. Cardinality(Request) \in Nat /\ Cardinality(Accepted) \in Nat
  BY <1>3, FS_CardinalityType, RequestsAssumption
<1>. QED
  BY <1>4, <1>5, <1>6 DEF Numbers, JobID

\* Accepting a request gives its job a path and leaves the other jobs theirs
\* (main.go 94-97).
LEMMA AcceptNames ==
  ASSUME TypeOK, Numbers, NEW r \in Request, Accept(r)
  PROVE  /\ out' \in [Request -> {<<>>} \cup Path]
         /\ named' \subseteq Request
         /\ \A q \in Request \ {r} : out'[q] = out[q] /\ (q \in named <=> q \in named')
         /\ out'[r] \in Path
         /\ r \notin named' => out'[r] = <<nextID + 1, Name[r]>>
<1>1. out \in [Request -> {<<>>} \cup Path] /\ named \subseteq Request
  BY DEF TypeOK, TableType
<1>2. PICK o \in Output[r] :
        IF o = NoOutput
          THEN out' = [out EXCEPT ![r] = <<nextID + 1, Name[r]>>] /\ named' = named
          ELSE out' = [out EXCEPT ![r] = o] /\ named' = named \cup {r}
  BY DEF Accept, NextID, DefaultOutput
<1>3. CASE o = NoOutput
  <2>1. <<nextID + 1, Name[r]>> \in Path
    BY AcceptCounts DEF Path
  <2>. QED
    BY <1>1, <1>2, <1>3, <2>1
<1>4. CASE o # NoOutput
  <2>1. o \in UNION {Output[q] : q \in Request}
    BY Zenon
  <2>2. o \in Path
    BY <1>4, <2>1 DEF Path
  <2>. QED
    BY <1>1, <1>2, <1>4, <2>2
<1>. QED
  BY <1>3, <1>4

\* Every other step but a restart keeps the counter and who is counted.
LEMMA AcceptedStays ==
  ASSUME TypeOK, Numbers, [Next]_vars, ~Restart, \A r \in Request : ~Accept(r)
  PROVE  UNCHANGED <<nextID, Accepted>>
<1> USE DEF tableVars, Accepted, TypeOK, JobType
<1>1. ASSUME NEW r \in Request, Send(r) PROVE UNCHANGED <<nextID, Accepted>>
  BY <1>1 DEF Send
<1>2. ASSUME NEW r \in Request, Accept(r) PROVE UNCHANGED <<nextID, Accepted>>
  BY <1>2
<1>3. ASSUME NEW r \in Request, Refuse(r) PROVE UNCHANGED <<nextID, Accepted>>
  BY <1>3 DEF Refuse
<1>4. ASSUME NEW r \in Request, Lose(r) PROVE UNCHANGED <<nextID, Accepted>>
  BY <1>4 DEF Lose
<1>5. ASSUME NEW r \in Request, Hear(r) PROVE UNCHANGED <<nextID, Accepted>>
  BY <1>5 DEF Hear
<1>6. ASSUME NEW r \in Request, BrowserCompletes(r) PROVE UNCHANGED <<nextID, Accepted>>
  BY <1>6 DEF BrowserCompletes
<1>7. ASSUME NEW r \in Request, CreateOutput(r) PROVE UNCHANGED <<nextID, Accepted>>
  BY <1>7 DEF CreateOutput
<1>8. ASSUME NEW r \in Request, Succeed(r) PROVE UNCHANGED <<nextID, Accepted>>
  BY <1>8 DEF Succeed
<1>9. ASSUME NEW r \in Request, Fail(r) PROVE UNCHANGED <<nextID, Accepted>>
  BY <1>9 DEF Fail
<1>10. ASSUME NEW r \in Request, Stamp(r) PROVE UNCHANGED <<nextID, Accepted>>
  BY <1>10 DEF Stamp, MayLock
<1>11. ASSUME NEW r \in Request, WriteState(r) PROVE UNCHANGED <<nextID, Accepted>>
  BY <1>11 DEF WriteState, FinalState
<1>12. ASSUME NEW r \in Request, WriteError(r) PROVE UNCHANGED <<nextID, Accepted>>
  BY <1>12 DEF WriteError
<1>13. CASE AskStatus
  BY <1>13 DEF AskStatus, Idle
<1>14. CASE ReadField
  BY <1>14 DEF ReadField
<1>15. CASE Restart
  BY <1>15
<1>16. ASSUME NEW k \in Poll, List(k) PROVE UNCHANGED <<nextID, Accepted>>
  BY <1>16 DEF List, MayList, NoRow
<1>17. ASSUME NEW k \in Poll, Written(k) PROVE UNCHANGED <<nextID, Accepted>>
  BY <1>17 DEF Written
<1>18. ASSUME NEW k \in Poll, Show(k) PROVE UNCHANGED <<nextID, Accepted>>
  BY <1>18 DEF Show
<1>19. ASSUME NEW k \in Poll, ShowNothing(k) PROVE UNCHANGED <<nextID, Accepted>>
  BY <1>19 DEF ShowNothing, NoRow
<1>20. CASE UNCHANGED vars
  BY <1>20 DEF vars
<1>. QED
  BY <1>1, <1>2, <1>3, <1>4, <1>5, <1>6, <1>7, <1>8, <1>9, <1>10, <1>11,
     <1>12, <1>13, <1>14, <1>15, <1>16, <1>17, <1>18, <1>19, <1>20 DEF Next

\* The browser's side keeps its types.
LEMMA BrowserStep ==
  ASSUME TypeOK, [Next]_vars
  PROVE  BrowserType'
<1> USE DEF TypeOK, BrowserType, browserVars
<1>1. ASSUME NEW r \in Request, Send(r) PROVE BrowserType'
  BY <1>1 DEF Send
<1>2. ASSUME NEW r \in Request, Accept(r) PROVE BrowserType'
  BY <1>2 DEF Accept, NextID, DefaultOutput, MayLock
<1>3. ASSUME NEW r \in Request, Refuse(r) PROVE BrowserType'
  BY <1>3 DEF Refuse
<1>4. ASSUME NEW r \in Request, Lose(r) PROVE BrowserType'
  BY <1>4 DEF Lose
<1>5. ASSUME NEW r \in Request, Hear(r) PROVE BrowserType'
  BY <1>5 DEF Hear
<1>6. ASSUME NEW r \in Request, BrowserCompletes(r) PROVE BrowserType'
  BY <1>6 DEF BrowserCompletes
<1>7. ASSUME NEW r \in Request, CreateOutput(r) PROVE BrowserType'
  BY <1>7 DEF CreateOutput
<1>8. ASSUME NEW r \in Request, Succeed(r) PROVE BrowserType'
  BY <1>8 DEF Succeed
<1>9. ASSUME NEW r \in Request, Fail(r) PROVE BrowserType'
  BY <1>9 DEF Fail
<1>10. ASSUME NEW r \in Request, Stamp(r) PROVE BrowserType'
  BY <1>10 DEF Stamp, MayLock
<1>11. ASSUME NEW r \in Request, WriteState(r) PROVE BrowserType'
  BY <1>11 DEF WriteState, FinalState
<1>12. ASSUME NEW r \in Request, WriteError(r) PROVE BrowserType'
  BY <1>12 DEF WriteError
<1>13. CASE AskStatus
  BY <1>13 DEF AskStatus, Idle
<1>14. CASE ReadField
  BY <1>14 DEF ReadField
<1>15. CASE Restart
  BY <1>15 DEF Restart, Idle
<1>16. ASSUME NEW k \in Poll, List(k) PROVE BrowserType'
  BY <1>16 DEF List, MayList, NoRow
<1>17. ASSUME NEW k \in Poll, Written(k) PROVE BrowserType'
  BY <1>17 DEF Written
<1>18. ASSUME NEW k \in Poll, Show(k) PROVE BrowserType'
  BY <1>18 DEF Show
<1>19. ASSUME NEW k \in Poll, ShowNothing(k) PROVE BrowserType'
  BY <1>19 DEF ShowNothing, NoRow
<1>20. CASE UNCHANGED vars
  BY <1>20 DEF vars
<1>. QED
  BY <1>1, <1>2, <1>3, <1>4, <1>5, <1>6, <1>7, <1>8, <1>9, <1>10, <1>11,
     <1>12, <1>13, <1>14, <1>15, <1>16, <1>17, <1>18, <1>19, <1>20 DEF Next

\* The table keeps its types, and its entries have their numbers.
LEMMA TableStep ==
  ASSUME TypeOK, Numbers, [Next]_vars
  PROVE  TableType'
<1> USE DEF TypeOK, TableType, tableVars
<1>1. ASSUME NEW r \in Request, Send(r) PROVE TableType'
  BY <1>1 DEF Send
<1>2. ASSUME NEW r \in Request, Accept(r) PROVE TableType'
  <2> DEFINE i == nextID + 1
  <2>1. i \in JobID /\ i \in Nat /\ nextID \in Nat
    BY <1>2, AcceptCounts DEF JobID
  <2>2. id[r] = 0 /\ (\A k \in JobID : jobs[k] # r)
    BY <1>2 , RequestsAssumption DEF Accept, Numbers, JobID
  <2>3. /\ out' \in [Request -> {<<>>} \cup Path] /\ named' \subseteq Request
    BY <1>2, AcceptNames
  <2>4. nextID' = i /\ jobs' = [jobs EXCEPT ![i] = r] /\ id' = [id EXCEPT ![r] = i]
    BY <1>2 DEF Accept, NextID
  <2>5. ASSUME NEW k \in JobID, jobs'[k] # None
        PROVE  k <= nextID' /\ id'[jobs'[k]] = k
    BY <2>1, <2>2, <2>4, <2>5, RequestsAssumption DEF JobID
  <2>. QED
    BY <2>1, <2>3, <2>4, <2>5
<1>3. ASSUME NEW r \in Request, Refuse(r) PROVE TableType'
  BY <1>3 DEF Refuse
<1>4. ASSUME NEW r \in Request, Lose(r) PROVE TableType'
  BY <1>4 DEF Lose
<1>5. ASSUME NEW r \in Request, Hear(r) PROVE TableType'
  BY <1>5 DEF Hear
<1>6. ASSUME NEW r \in Request, BrowserCompletes(r) PROVE TableType'
  BY <1>6 DEF BrowserCompletes
<1>7. ASSUME NEW r \in Request, CreateOutput(r) PROVE TableType'
  BY <1>7 DEF CreateOutput
<1>8. ASSUME NEW r \in Request, Succeed(r) PROVE TableType'
  BY <1>8 DEF Succeed
<1>9. ASSUME NEW r \in Request, Fail(r) PROVE TableType'
  BY <1>9 DEF Fail
<1>10. ASSUME NEW r \in Request, Stamp(r) PROVE TableType'
  BY <1>10 DEF Stamp, MayLock
<1>11. ASSUME NEW r \in Request, WriteState(r) PROVE TableType'
  BY <1>11 DEF WriteState, FinalState
<1>12. ASSUME NEW r \in Request, WriteError(r) PROVE TableType'
  BY <1>12 DEF WriteError
<1>13. CASE AskStatus
  BY <1>13 DEF AskStatus, Idle
<1>14. CASE ReadField
  BY <1>14 DEF ReadField
<1>15. CASE Restart
  BY <1>15 DEF Restart, Idle
<1>16. ASSUME NEW k \in Poll, List(k) PROVE TableType'
  BY <1>16 DEF List, MayList, NoRow
<1>17. ASSUME NEW k \in Poll, Written(k) PROVE TableType'
  BY <1>17 DEF Written
<1>18. ASSUME NEW k \in Poll, Show(k) PROVE TableType'
  BY <1>18 DEF Show
<1>19. ASSUME NEW k \in Poll, ShowNothing(k) PROVE TableType'
  BY <1>19 DEF ShowNothing, NoRow
<1>20. CASE UNCHANGED vars
  BY <1>20 DEF vars
<1>. QED
  BY <1>1, <1>2, <1>3, <1>4, <1>5, <1>6, <1>7, <1>8, <1>9, <1>10, <1>11,
     <1>12, <1>13, <1>14, <1>15, <1>16, <1>17, <1>18, <1>19, <1>20 DEF Next

\* Jobs keep their types; what is between two writes is locked.
LEMMA JobTypeStep ==
  ASSUME TypeOK, Numbers, [Next]_vars
  PROVE  JobType'
<1> USE DEF TypeOK, JobType, TableType, jobVars, State
<1>0. None \notin Request
  BY RequestsAssumption
<1>a. ASSUME NEW r \in Request, pc[r] \notin {"none", "killed"} PROVE out[r] \in Path
  BY <1>a DEF Numbers, Path, JobID
<1>1. ASSUME NEW r \in Request, Send(r) PROVE JobType'
  BY <1>1 DEF Send
<1>2. ASSUME NEW r \in Request, Accept(r) PROVE JobType'
  BY <1>2 DEF Accept, NextID, DefaultOutput, MayLock, Numbers
<1>3. ASSUME NEW r \in Request, Refuse(r) PROVE JobType'
  BY <1>3 DEF Refuse
<1>4. ASSUME NEW r \in Request, Lose(r) PROVE JobType'
  BY <1>4 DEF Lose
<1>5. ASSUME NEW r \in Request, Hear(r) PROVE JobType'
  BY <1>5 DEF Hear
<1>6. ASSUME NEW r \in Request, BrowserCompletes(r) PROVE JobType'
  BY <1>6 DEF BrowserCompletes
<1>7. ASSUME NEW r \in Request, CreateOutput(r) PROVE JobType'
  BY <1>7, <1>a DEF CreateOutput
<1>8. ASSUME NEW r \in Request, Succeed(r) PROVE JobType'
  BY <1>8, <1>a DEF Succeed
<1>9. ASSUME NEW r \in Request, Fail(r) PROVE JobType'
  BY <1>9 DEF Fail
<1>10. ASSUME NEW r \in Request, Stamp(r) PROVE JobType'
  BY <1>10, <1>0 DEF Stamp, MayLock
<1>11. ASSUME NEW r \in Request, WriteState(r) PROVE JobType'
  BY <1>11, <1>0 DEF WriteState, FinalState
<1>12. ASSUME NEW r \in Request, WriteError(r) PROVE JobType'
  BY <1>12, <1>0 DEF WriteError
<1>13. CASE AskStatus
  BY <1>13 DEF AskStatus, Idle
<1>14. CASE ReadField
  BY <1>14 DEF ReadField
<1>15. CASE Restart
  BY <1>15, <1>0 DEF Restart, Idle
<1>16. ASSUME NEW k \in Poll, List(k) PROVE JobType'
  BY <1>16 DEF List, MayList, NoRow
<1>17. ASSUME NEW k \in Poll, Written(k) PROVE JobType'
  BY <1>17 DEF Written
<1>18. ASSUME NEW k \in Poll, Show(k) PROVE JobType'
  BY <1>18 DEF Show
<1>19. ASSUME NEW k \in Poll, ShowNothing(k) PROVE JobType'
  BY <1>19 DEF ShowNothing, NoRow
<1>20. CASE UNCHANGED vars
  BY <1>20 DEF vars
<1>. QED
  BY <1>1, <1>2, <1>3, <1>4, <1>5, <1>6, <1>7, <1>8, <1>9, <1>10, <1>11,
     <1>12, <1>13, <1>14, <1>15, <1>16, <1>17, <1>18, <1>19, <1>20 DEF Next

\* Readers keep their types.
LEMMA ClientStep ==
  ASSUME TypeOK, StatusReads, [Next]_vars
  PROVE  ClientType'
<1> USE DEF TypeOK, ClientType, JobType, clientVars, Row, State
<1>0. None \notin Request /\ MaxFaults \in Nat
  BY RequestsAssumption
<1>1. ASSUME NEW r \in Request, Send(r) PROVE ClientType'
  BY <1>1 DEF Send
<1>2. ASSUME NEW r \in Request, Accept(r) PROVE ClientType'
  BY <1>2 DEF Accept, NextID, DefaultOutput, MayLock
<1>3. ASSUME NEW r \in Request, Refuse(r) PROVE ClientType'
  BY <1>3 DEF Refuse
<1>4. ASSUME NEW r \in Request, Lose(r) PROVE ClientType'
  BY <1>4, <1>0 DEF Lose
<1>5. ASSUME NEW r \in Request, Hear(r) PROVE ClientType'
  BY <1>5 DEF Hear
<1>6. ASSUME NEW r \in Request, BrowserCompletes(r) PROVE ClientType'
  BY <1>6 DEF BrowserCompletes
<1>7. ASSUME NEW r \in Request, CreateOutput(r) PROVE ClientType'
  BY <1>7 DEF CreateOutput
<1>8. ASSUME NEW r \in Request, Succeed(r) PROVE ClientType'
  BY <1>8 DEF Succeed
<1>9. ASSUME NEW r \in Request, Fail(r) PROVE ClientType'
  BY <1>9 DEF Fail
<1>10. ASSUME NEW r \in Request, Stamp(r) PROVE ClientType'
  BY <1>10, <1>0 DEF Stamp, MayLock
<1>11. ASSUME NEW r \in Request, WriteState(r) PROVE ClientType'
  BY <1>11 DEF WriteState, FinalState
<1>12. ASSUME NEW r \in Request, WriteError(r) PROVE ClientType'
  BY <1>12 DEF WriteError
<1>13. CASE AskStatus
  <2>1. Watched \in Request /\ jobs[id[Watched]] \in Request
    BY <1>13, RequestsAssumption DEF AskStatus, TableType
  <2>. QED
    BY <1>13, <2>1 DEF AskStatus, Idle
<1>14. CASE ReadField
  <2>1. status.about \in Request /\ status.state \in State
    BY <1>14 DEF ReadField, StatusReads
  <2>2. state[status.about] \in State /\ error[status.about] \in BOOLEAN
    BY <2>1
  <2>3. status' \in [at : {"idle", "state", "error", "finished"}, about : Request \cup {None},
                    state : State, error : BOOLEAN]
    <3>1. CASE status' = Idle
      BY <3>1 DEF Idle
    <3>2. CASE status' = [at |-> "error", about |-> status.about,
                          state |-> state[status.about], error |-> FALSE]
      BY <3>2, <2>1, <2>2
    <3>3. CASE status' = [at |-> "finished", about |-> status.about,
                          state |-> status.state, error |-> error[status.about]]
      BY <3>3, <2>1, <2>2
    <3>. QED
      BY <1>14, <3>1, <3>2, <3>3 DEF ReadField
  <2>. QED
    BY <1>14, <2>3 DEF ReadField
<1>15. CASE Restart
  BY <1>15, <1>0 DEF Restart, Idle
<1>16. ASSUME NEW k \in Poll, List(k) PROVE ClientType'
  <2>1. /\ state[Watched] \in State /\ error[Watched] \in BOOLEAN
        /\ finished[Watched] \in BOOLEAN
    BY RequestsAssumption
  <2>2. polls' \in [Poll -> SUBSET Row]
    BY <1>16, <2>1 DEF List, NoRow
  <2>. QED
    BY <1>16, <2>2 DEF List, MayList
<1>17. ASSUME NEW k \in Poll, Written(k) PROVE ClientType'
  BY <1>17 DEF Written
<1>18. ASSUME NEW k \in Poll, Show(k) PROVE ClientType'
  BY <1>18 DEF Show
<1>19. ASSUME NEW k \in Poll, ShowNothing(k) PROVE ClientType'
  BY <1>19, <1>0 DEF ShowNothing, NoRow
<1>20. CASE UNCHANGED vars
  BY <1>20 DEF vars
<1>. QED
  BY <1>1, <1>2, <1>3, <1>4, <1>5, <1>6, <1>7, <1>8, <1>9, <1>10, <1>11,
     <1>12, <1>13, <1>14, <1>15, <1>16, <1>17, <1>18, <1>19, <1>20 DEF Next

\* The numbers given and the outputs chosen stay right (main.go 91-100).
LEMMA NumbersStep ==
  ASSUME TypeOK, Numbers, [Next]_vars
  PROVE  Numbers'
<1> DEFINE Each == \A r \in Request :
       /\ post[r] \in {"none", "sent"} => pc[r] = "none"
       /\ id[r] = 0 <=> pc[r] = "none"
       /\ id[r] # 0 /\ pc[r] # "killed" => jobs[id[r]] = r
       /\ id[r] # 0 => /\ out[r] \in Path
                       /\ r \notin named => out[r] = <<id[r], Name[r]>>
<1>a. nextID' = Cardinality(Accepted')
  <2>1. CASE \E r \in Request : Accept(r)
    BY <2>1, AcceptCounts DEF Accept, NextID
  <2>2. CASE Restart
    <3>1. Accepted' = {}
      BY <2>2 DEF Restart, Accepted
    <3>. QED
      BY <2>2, <3>1, FS_EmptySet DEF Restart
  <2>3. CASE ~Restart /\ \A r \in Request : ~Accept(r)
    BY <2>3, AcceptedStays DEF Numbers
  <2>. QED
    BY <2>1, <2>2, <2>3
<1>b. Each
  BY DEF Numbers
<1>c. Each'
  <2> USE <1>b DEF TypeOK, BrowserType, TableType, JobType, tableVars, browserVars
  <2>1. ASSUME NEW r \in Request, Send(r) PROVE Each'
    BY <2>1 DEF Send
  <2>2. ASSUME NEW r \in Request, Accept(r) PROVE Each'
    <3> DEFINE i == nextID + 1
    <3>1. i \in JobID /\ i # 0 /\ nextID \in Nat
      BY <2>2, AcceptCounts DEF JobID
    <3>2. /\ jobs' = [jobs EXCEPT ![i] = r] /\ id' = [id EXCEPT ![r] = i]
          /\ pc' = [pc EXCEPT ![r] = "download"] /\ post' = [post EXCEPT ![r] = "accepted"]
      BY <2>2 DEF Accept, NextID, DefaultOutput
    <3>3. ASSUME NEW q \in Request, q # r, id[q] # 0, pc[q] # "killed"
          PROVE  jobs'[id[q]] = q
      <4>1. jobs[id[q]] = q /\ id[q] \in JobID /\ q # None
        BY <3>3, RequestsAssumption
      <4>2. id[q] <= nextID /\ id[q] \in Int
        BY <4>1 DEF JobID
      <4>3. id[q] # i
        BY <3>1, <4>2
      <4>4. jobs \in [JobID -> Request \cup {None}]
        OBVIOUS
      <4>5. jobs'[id[q]] = jobs[id[q]]
        BY <3>1, <3>2, <4>1, <4>3, <4>4
      <4>. QED
        BY <4>1, <4>5
    <3>4. jobs'[i] = r /\ id'[r] = i /\ pc'[r] = "download" /\ post'[r] = "accepted"
      BY <3>1, <3>2
    <3>5. /\ out'[r] \in Path
          /\ r \notin named' => out'[r] = <<i, Name[r]>>
      BY <2>2, AcceptNames
    <3>6. ASSUME NEW q \in Request, q # r
          PROVE  /\ id'[q] = id[q] /\ pc'[q] = pc[q] /\ post'[q] = post[q]
                 /\ out'[q] = out[q] /\ (q \in named <=> q \in named')
      BY <2>2, <3>2, <3>6, AcceptNames
    <3>. QED
      BY <3>1, <3>3, <3>4, <3>5, <3>6
  <2>3. ASSUME NEW r \in Request, Refuse(r) PROVE Each'
    BY <2>3 DEF Refuse
  <2>4. ASSUME NEW r \in Request, Lose(r) PROVE Each'
    BY <2>4 DEF Lose
  <2>5. ASSUME NEW r \in Request, Hear(r) PROVE Each'
    BY <2>5 DEF Hear
  <2>6. ASSUME NEW r \in Request, BrowserCompletes(r) PROVE Each'
    BY <2>6 DEF BrowserCompletes
  <2>7. ASSUME NEW r \in Request, CreateOutput(r) PROVE Each'
    BY <2>7 DEF CreateOutput
  <2>8. ASSUME NEW r \in Request, Succeed(r) PROVE Each'
    BY <2>8 DEF Succeed
  <2>9. ASSUME NEW r \in Request, Fail(r) PROVE Each'
    BY <2>9 DEF Fail
  <2>10. ASSUME NEW r \in Request, Stamp(r) PROVE Each'
    BY <2>10 DEF Stamp, MayLock
  <2>11. ASSUME NEW r \in Request, WriteState(r) PROVE Each'
    BY <2>11 DEF WriteState, FinalState
  <2>12. ASSUME NEW r \in Request, WriteError(r) PROVE Each'
    BY <2>12 DEF WriteError
  <2>13. CASE AskStatus
    BY <2>13 DEF AskStatus, Idle
  <2>14. CASE ReadField
    BY <2>14 DEF ReadField
  <2>15. CASE Restart
    BY <2>15 DEF Restart, Idle
  <2>16. ASSUME NEW k \in Poll, List(k) PROVE Each'
    BY <2>16 DEF List, MayList, NoRow
  <2>17. ASSUME NEW k \in Poll, Written(k) PROVE Each'
    BY <2>17 DEF Written
  <2>18. ASSUME NEW k \in Poll, Show(k) PROVE Each'
    BY <2>18 DEF Show
  <2>19. ASSUME NEW k \in Poll, ShowNothing(k) PROVE Each'
    BY <2>19 DEF ShowNothing, NoRow
  <2>20. CASE UNCHANGED vars
    BY <2>20 DEF vars
  <2>. QED
    BY <2>1, <2>2, <2>3, <2>4, <2>5, <2>6, <2>7, <2>8, <2>9, <2>10, <2>11,
       <2>12, <2>13, <2>14, <2>15, <2>16, <2>17, <2>18, <2>19, <2>20 DEF Next
<1>. QED
  BY <1>a, <1>c DEF Numbers

\* A job's fields are written in order (main.go 126-134).
LEMMA ProgressStep ==
  ASSUME TypeOK, Numbers, AllProgressing, [Next]_vars
  PROVE  AllProgressing'
<1> USE DEF TypeOK, JobType, AllProgressing, Progressing, FinalState, jobVars
<1>1. ASSUME NEW r \in Request, Send(r) PROVE AllProgressing'
  BY <1>1 DEF Send
<1>2. ASSUME NEW r \in Request, Accept(r) PROVE AllProgressing'
  BY <1>2 DEF Accept, NextID, DefaultOutput, MayLock, Numbers
<1>3. ASSUME NEW r \in Request, Refuse(r) PROVE AllProgressing'
  BY <1>3 DEF Refuse
<1>4. ASSUME NEW r \in Request, Lose(r) PROVE AllProgressing'
  BY <1>4 DEF Lose
<1>5. ASSUME NEW r \in Request, Hear(r) PROVE AllProgressing'
  BY <1>5 DEF Hear
<1>6. ASSUME NEW r \in Request, BrowserCompletes(r) PROVE AllProgressing'
  BY <1>6 DEF BrowserCompletes
<1>7. ASSUME NEW r \in Request, CreateOutput(r) PROVE AllProgressing'
  BY <1>7 DEF CreateOutput
<1>8. ASSUME NEW r \in Request, Succeed(r) PROVE AllProgressing'
  BY <1>8 DEF Succeed
<1>9. ASSUME NEW r \in Request, Fail(r) PROVE AllProgressing'
  BY <1>9 DEF Fail
<1>10. ASSUME NEW r \in Request, Stamp(r) PROVE AllProgressing'
  BY <1>10 DEF Stamp, MayLock
<1>11. ASSUME NEW r \in Request, WriteState(r) PROVE AllProgressing'
  BY <1>11 DEF WriteState, FinalState
<1>12. ASSUME NEW r \in Request, WriteError(r) PROVE AllProgressing'
  BY <1>12 DEF WriteError
<1>13. CASE AskStatus
  BY <1>13 DEF AskStatus, Idle
<1>14. CASE ReadField
  BY <1>14 DEF ReadField
<1>15. CASE Restart
  BY <1>15 DEF Restart, Idle
<1>16. ASSUME NEW k \in Poll, List(k) PROVE AllProgressing'
  BY <1>16 DEF List, MayList, NoRow
<1>17. ASSUME NEW k \in Poll, Written(k) PROVE AllProgressing'
  BY <1>17 DEF Written
<1>18. ASSUME NEW k \in Poll, Show(k) PROVE AllProgressing'
  BY <1>18 DEF Show
<1>19. ASSUME NEW k \in Poll, ShowNothing(k) PROVE AllProgressing'
  BY <1>19 DEF ShowNothing, NoRow
<1>20. CASE UNCHANGED vars
  BY <1>20 DEF vars
<1>. QED
  BY <1>1, <1>2, <1>3, <1>4, <1>5, <1>6, <1>7, <1>8, <1>9, <1>10, <1>11,
     <1>12, <1>13, <1>14, <1>15, <1>16, <1>17, <1>18, <1>19, <1>20 DEF Next

\* What a status has read stays behind its job (main.go 141-152).
LEMMA ReadsStep ==
  ASSUME TypeOK, AllProgressing, StatusReads, [Next]_vars
  PROVE  StatusReads'
<1> USE DEF TypeOK, JobType, AllProgressing, Progressing, FinalState, StatusReads, jobVars,
            clientVars, State
<1>1. ASSUME NEW r \in Request, Send(r) PROVE StatusReads'
  BY <1>1 DEF Send
<1>2. ASSUME NEW r \in Request, Accept(r) PROVE StatusReads'
  BY <1>2 DEF Accept, NextID, DefaultOutput, MayLock
<1>3. ASSUME NEW r \in Request, Refuse(r) PROVE StatusReads'
  BY <1>3 DEF Refuse
<1>4. ASSUME NEW r \in Request, Lose(r) PROVE StatusReads'
  BY <1>4 DEF Lose
<1>5. ASSUME NEW r \in Request, Hear(r) PROVE StatusReads'
  BY <1>5 DEF Hear
<1>6. ASSUME NEW r \in Request, BrowserCompletes(r) PROVE StatusReads'
  BY <1>6 DEF BrowserCompletes
<1>7. ASSUME NEW r \in Request, CreateOutput(r) PROVE StatusReads'
  BY <1>7 DEF CreateOutput
<1>8. ASSUME NEW r \in Request, Succeed(r) PROVE StatusReads'
  BY <1>8 DEF Succeed
<1>9. ASSUME NEW r \in Request, Fail(r) PROVE StatusReads'
  BY <1>9 DEF Fail
<1>10. ASSUME NEW r \in Request, Stamp(r) PROVE StatusReads'
  BY <1>10 DEF Stamp, MayLock
<1>11. ASSUME NEW r \in Request, WriteState(r) PROVE StatusReads'
  BY <1>11 DEF WriteState, FinalState
<1>12. ASSUME NEW r \in Request, WriteError(r) PROVE StatusReads'
  BY <1>12 DEF WriteError
<1>13. CASE AskStatus
  <2>1. jobs[id[Watched]] \in Request
    BY <1>13, RequestsAssumption DEF AskStatus, TableType
  <2>2. /\ status'.at = "state" /\ status'.about \in Request
    BY <1>13, <2>1 DEF AskStatus, Idle
  <2>. QED
    BY <2>2
<1>14. CASE ReadField
  <2>1. status.about \in Request /\ UNCHANGED <<state, error, finished>>
    BY <1>14 DEF ReadField, jobVars
  <2>2. CASE status' = Idle
    BY <2>2 DEF Idle
  <2>3. CASE status' = [at |-> "error", about |-> status.about,
                        state |-> state[status.about], error |-> FALSE]
    BY <2>1, <2>3
  <2>4. CASE /\ status.at = "error"
             /\ status' = [at |-> "finished", about |-> status.about,
                           state |-> status.state, error |-> error[status.about]]
    BY <2>1, <2>4
  <2>. QED
    BY <1>14, <2>2, <2>3, <2>4 DEF ReadField
<1>15. CASE Restart
  BY <1>15 DEF Restart, Idle
<1>16. ASSUME NEW k \in Poll, List(k) PROVE StatusReads'
  BY <1>16 DEF List, MayList, NoRow
<1>17. ASSUME NEW k \in Poll, Written(k) PROVE StatusReads'
  BY <1>17 DEF Written
<1>18. ASSUME NEW k \in Poll, Show(k) PROVE StatusReads'
  BY <1>18 DEF Show
<1>19. ASSUME NEW k \in Poll, ShowNothing(k) PROVE StatusReads'
  BY <1>19 DEF ShowNothing, NoRow
<1>20. CASE UNCHANGED vars
  BY <1>20 DEF vars
<1>. QED
  BY <1>1, <1>2, <1>3, <1>4, <1>5, <1>6, <1>7, <1>8, <1>9, <1>10, <1>11,
     <1>12, <1>13, <1>14, <1>15, <1>16, <1>17, <1>18, <1>19, <1>20 DEF Next

\* A list is read while no last update is half written (main.go 154-163).
LEMMA ListsStep ==
  ASSUME TypeOK, AllProgressing, ListsAreConsistent, [Next]_vars
  PROVE  ListsAreConsistent'
<1> USE DEF ListsAreConsistent, clientVars
<1>1. ASSUME NEW r \in Request, Send(r) PROVE ListsAreConsistent'
  BY <1>1 DEF Send
<1>2. ASSUME NEW r \in Request, Accept(r) PROVE ListsAreConsistent'
  BY <1>2 DEF Accept, NextID, DefaultOutput, MayLock
<1>3. ASSUME NEW r \in Request, Refuse(r) PROVE ListsAreConsistent'
  BY <1>3 DEF Refuse
<1>4. ASSUME NEW r \in Request, Lose(r) PROVE ListsAreConsistent'
  BY <1>4 DEF Lose
<1>5. ASSUME NEW r \in Request, Hear(r) PROVE ListsAreConsistent'
  BY <1>5 DEF Hear
<1>6. ASSUME NEW r \in Request, BrowserCompletes(r) PROVE ListsAreConsistent'
  BY <1>6 DEF BrowserCompletes
<1>7. ASSUME NEW r \in Request, CreateOutput(r) PROVE ListsAreConsistent'
  BY <1>7 DEF CreateOutput
<1>8. ASSUME NEW r \in Request, Succeed(r) PROVE ListsAreConsistent'
  BY <1>8 DEF Succeed
<1>9. ASSUME NEW r \in Request, Fail(r) PROVE ListsAreConsistent'
  BY <1>9 DEF Fail
<1>10. ASSUME NEW r \in Request, Stamp(r) PROVE ListsAreConsistent'
  BY <1>10 DEF Stamp, MayLock
<1>11. ASSUME NEW r \in Request, WriteState(r) PROVE ListsAreConsistent'
  BY <1>11 DEF WriteState, FinalState
<1>12. ASSUME NEW r \in Request, WriteError(r) PROVE ListsAreConsistent'
  BY <1>12 DEF WriteError
<1>13. CASE AskStatus
  BY <1>13 DEF AskStatus, Idle
<1>14. CASE ReadField
  BY <1>14 DEF ReadField
<1>15. CASE Restart
  BY <1>15 DEF Restart, Idle
<1>16. ASSUME NEW k \in Poll, List(k) PROVE ListsAreConsistent'
  <2>1. Watched \in Request /\ None \notin Request
    BY RequestsAssumption
  <2>2. /\ state[Watched] # "torn"
        /\ finished[Watched] <=> state[Watched] \in {"done", "failed"}
        /\ error[Watched] <=> state[Watched] = "failed"
    BY <1>16, <2>1 DEF List, MayList, TypeOK, JobType, AllProgressing, Progressing, FinalState
  <2>. QED
    BY <1>16, <2>2 DEF List, NoRow, TypeOK, ClientType
<1>17. ASSUME NEW k \in Poll, Written(k) PROVE ListsAreConsistent'
  BY <1>17 DEF Written
<1>18. ASSUME NEW k \in Poll, Show(k) PROVE ListsAreConsistent'
  BY <1>18 DEF Show
<1>19. ASSUME NEW k \in Poll, ShowNothing(k) PROVE ListsAreConsistent'
  BY <1>19 DEF ShowNothing, NoRow
<1>20. CASE UNCHANGED vars
  BY <1>20 DEF vars
<1>. QED
  BY <1>1, <1>2, <1>3, <1>4, <1>5, <1>6, <1>7, <1>8, <1>9, <1>10, <1>11,
     <1>12, <1>13, <1>14, <1>15, <1>16, <1>17, <1>18, <1>19, <1>20 DEF Next

\* Jobs in the table that nobody made share a path have paths of their own.
LEMMA OutputsDiffer ==
  ASSUME TypeOK, Numbers, NEW q \in Listed, NEW r \in Listed, q # r, OwnPath(q)
  PROVE  out[q] # out[r]
<1>1. /\ q \in Request /\ id[q] # 0 /\ jobs[id[q]] = q
      /\ r \in Request /\ id[r] # 0 /\ jobs[id[r]] = r
  BY RequestsAssumption DEF Listed, TypeOK, TableType, JobID
<1>2. id[q] # id[r]
  BY <1>1
<1>3. SUFFICES ASSUME out[q] = out[r] PROVE FALSE
  OBVIOUS
<1>4. q \notin named /\ r \notin named
  BY <1>3 DEF OwnPath
<1>5. out[q] = <<id[q], Name[q]>>
  BY <1>1, <1>4 DEF Numbers
<1>6. out[r] = <<id[r], Name[r]>>
  BY <1>1, <1>4 DEF Numbers
<1>7. out[q][1] = id[q] /\ out[r][1] = id[r]
  BY <1>5, <1>6
<1>. QED
  BY <1>2, <1>3, <1>7

\* A running download writes to its own file (main.go 91-100, 117-134).
LEMMA FilesStep ==
  ASSUME TypeOK, Numbers, AllProgressing, OwnFiles, [Next]_vars
  PROVE  OwnFiles'
<1>a. ASSUME NEW r \in Request, pc[r] \notin {"none", "killed"}
      PROVE  r \in Listed /\ out[r] \in Path
  <2>1. id[r] \in JobID /\ jobs[id[r]] = r /\ r # None
    BY <1>a, RequestsAssumption DEF Numbers, TypeOK, TableType
  <2>2. out[r] \in Path
    BY <1>a DEF Numbers
  <2>. QED
    BY <2>1, <2>2 DEF Listed
<1>b. Listed \subseteq Request
  BY DEF Listed, TypeOK, TableType
<1>c. ASSUME UNCHANGED <<jobs, out, named>>
      PROVE  Listed' = Listed /\ \A q \in Listed : OwnPath(q)' <=> OwnPath(q)
  BY <1>c DEF Listed, OwnPath
<1> USE DEF OwnFiles, tableVars
<1>1. ASSUME NEW r \in Request, Send(r) PROVE OwnFiles'
  BY <1>1, <1>c, <1>b DEF Send, TypeOK, JobType
<1>2. ASSUME NEW r \in Request, Accept(r) PROVE OwnFiles'
  <2>1. NextID \in JobID /\ id[r] = 0 /\ (\A k \in JobID : jobs[k] # r)
    <3>1. NextID \in JobID
      BY <1>2, AcceptCounts DEF NextID
    <3>2. id[r] = 0
      BY <1>2 DEF Accept, Numbers
    <3>3. \A k \in JobID : jobs[k] # r
      BY <1>2, <3>2, RequestsAssumption DEF TypeOK, TableType, JobID
    <3>. QED
      BY <3>1, <3>2, <3>3
  <2>2. jobs' = [jobs EXCEPT ![NextID] = r] /\ jobs \in [JobID -> Request \cup {None}]
    BY <1>2 DEF Accept, TypeOK, TableType
  <2>3. jobs[NextID] = None
    BY <1>2, <2>1 DEF NextID, Accept, TypeOK, TableType, JobID
  <2>4. Listed' = Listed \cup {r}
    BY <2>1, <2>2, <2>3, RequestsAssumption DEF Listed
  <2>5. pc'[r] = "download" /\ result'[r] = "none"
    BY <1>2 DEF Accept, Numbers, AllProgressing, Progressing, TypeOK, JobType
  <2>6. ASSUME NEW q \in Listed, q # r
        PROVE  /\ OwnPath(q)' => OwnPath(q)
               /\ out'[q] = out[q] /\ pc'[q] = pc[q] /\ result'[q] = result[q]
    <3>0. \A s \in Listed : s # r
      BY <2>1 DEF Listed
    <3>1. \A s \in Listed : s # r /\ out'[s] = out[s] /\ (s \in named <=> s \in named')
      BY <1>2, <3>0, <1>b, AcceptNames
    <3>. QED
      BY <1>2, <1>b, <2>4, <2>6, <3>1 DEF Accept, OwnPath, TypeOK, JobType
  <2>. QED
    BY <1>2, <2>4, <2>5, <2>6 DEF Accept
<1>3. ASSUME NEW r \in Request, Refuse(r) PROVE OwnFiles'
  BY <1>3, <1>c, <1>b DEF Refuse, TypeOK, JobType
<1>4. ASSUME NEW r \in Request, Lose(r) PROVE OwnFiles'
  BY <1>4, <1>c, <1>b DEF Lose, TypeOK, JobType
<1>5. ASSUME NEW r \in Request, Hear(r) PROVE OwnFiles'
  BY <1>5, <1>c, <1>b DEF Hear, TypeOK, JobType
<1>6. ASSUME NEW r \in Request, BrowserCompletes(r) PROVE OwnFiles'
  BY <1>6, <1>c, <1>b DEF BrowserCompletes, TypeOK, JobType
<1>7. ASSUME NEW r \in Request, CreateOutput(r) PROVE OwnFiles'
  <2>1. /\ files' = [files EXCEPT ![out[r]] = <<r, IF SoleWriter(r) THEN "part" ELSE "mixed">>]
        /\ UNCHANGED <<Listed, out, result>>
        /\ pc' = [pc EXCEPT ![r] = "writing"] /\ r \in Listed /\ out[r] \in Path
        /\ result[r] = "none"
    BY <1>7, <1>a DEF CreateOutput, Listed, AllProgressing, Progressing
  <2>2. ASSUME NEW q \in Listed, q # r, OwnPath(q)
        PROVE  files'[out[q]] = files[out[q]] /\ pc'[q] = pc[q]
    BY <1>b, <2>1, <2>2, OutputsDiffer DEF TypeOK, JobType
  <2>3. OwnPath(r) => files'[out[r]] = <<r, "part">>
    <3>1. OwnPath(r) => SoleWriter(r)
      BY <1>a, <2>1, OutputsDiffer DEF SoleWriter
    <3>. QED
      BY <2>1, <3>1 DEF TypeOK, JobType
  <2>. QED
    BY <1>7, <1>c, <2>1, <2>2, <2>3 DEF CreateOutput
<1>8. ASSUME NEW r \in Request, Succeed(r) PROVE OwnFiles'
  <2>1. /\ files' = [files EXCEPT ![out[r]] = IF @ = <<r, "part">> THEN <<r, "all">>
                                                                 ELSE <<r, "mixed">>]
        /\ UNCHANGED <<Listed, out>> /\ result' = [result EXCEPT ![r] = "ok"]
        /\ pc[r] = "writing" /\ pc' = [pc EXCEPT ![r] = "returned"]
        /\ r \in Listed /\ out[r] \in Path
    BY <1>8, <1>a DEF Succeed, Listed
  <2>2. ASSUME NEW q \in Listed, q # r, OwnPath(q)
        PROVE  files'[out[q]] = files[out[q]] /\ pc'[q] = pc[q] /\ result'[q] = result[q]
    BY <1>b, <2>1, <2>2, OutputsDiffer DEF TypeOK, JobType
  <2>3. OwnPath(r) => files'[out[r]] = <<r, "all">>
    BY <2>1 DEF TypeOK, JobType
  <2>4. pc'[r] = "returned"
    BY <2>1 DEF TypeOK, JobType
  <2>. QED
    BY <1>8, <1>c, <2>1, <2>2, <2>3, <2>4 DEF Succeed
<1>9. ASSUME NEW r \in Request, Fail(r) PROVE OwnFiles'
  BY <1>9, <1>c, <1>b DEF Fail, TypeOK, JobType
<1>10. ASSUME NEW r \in Request, Stamp(r) PROVE OwnFiles'
  BY <1>10, <1>c, <1>b DEF Stamp, MayLock, TypeOK, JobType
<1>11. ASSUME NEW r \in Request, WriteState(r) PROVE OwnFiles'
  BY <1>11, <1>c, <1>b DEF WriteState, FinalState, TypeOK, JobType
<1>12. ASSUME NEW r \in Request, WriteError(r) PROVE OwnFiles'
  BY <1>12, <1>c, <1>b DEF WriteError, TypeOK, JobType
<1>13. CASE AskStatus
  BY <1>13, <1>c, <1>b DEF AskStatus, Idle, TypeOK, JobType
<1>14. CASE ReadField
  BY <1>14, <1>c, <1>b DEF ReadField, TypeOK, JobType
<1>15. CASE Restart
  BY <1>15 DEF Restart, Idle, Listed, OwnPath, TypeOK, JobType
<1>16. ASSUME NEW k \in Poll, List(k) PROVE OwnFiles'
  BY <1>16, <1>c, <1>b DEF List, MayList, NoRow, TypeOK, JobType
<1>17. ASSUME NEW k \in Poll, Written(k) PROVE OwnFiles'
  BY <1>17, <1>c, <1>b DEF Written, TypeOK, JobType
<1>18. ASSUME NEW k \in Poll, Show(k) PROVE OwnFiles'
  BY <1>18, <1>c, <1>b DEF Show, TypeOK, JobType
<1>19. ASSUME NEW k \in Poll, ShowNothing(k) PROVE OwnFiles'
  BY <1>19, <1>c, <1>b DEF ShowNothing, NoRow, TypeOK, JobType
<1>20. CASE UNCHANGED vars
  BY <1>20, <1>b, <1>c DEF vars, TypeOK, JobType
<1>. QED
  BY <1>1, <1>2, <1>3, <1>4, <1>5, <1>6, <1>7, <1>8, <1>9, <1>10, <1>11,
     <1>12, <1>13, <1>14, <1>15, <1>16, <1>17, <1>18, <1>19, <1>20 DEF Next
-----------------------------------------------------------------------------
\* What the theorems rest on: types, numbers, the progress of every job, what a
\* status and a list have read, and whose files are whose.
Invariant ==
  TypeOK /\ Numbers /\ AllProgressing /\ StatusReads /\ ListsAreConsistent /\ OwnFiles

LEMMA InitInvariant == Init => Invariant
<1> SUFFICES ASSUME Init PROVE Invariant
  OBVIOUS
<1>0. /\ None \notin Request /\ MaxFaults \in Nat /\ 0 \in 0 .. MaxFaults
      /\ MaxFaults \in 0 .. MaxFaults
  BY RequestsAssumption
<1>1. BrowserType
  BY DEF Init, BrowserType
<1>2. TableType
  BY DEF Init, TableType
<1>3. JobType
  BY <1>0 DEF Init, JobType, State
<1>4. ClientType
  BY <1>0 DEF Init, ClientType, Idle, NoRow, Row, State
<1>5. Numbers
  <2>1. Accepted = {}
    BY DEF Init, Accepted
  <2>. QED
    BY <2>1, FS_EmptySet DEF Init, Numbers
<1>6. AllProgressing
  BY DEF Init, AllProgressing, Progressing
<1>7. StatusReads /\ ListsAreConsistent
  BY DEF Init, StatusReads, Idle, ListsAreConsistent
<1>8. OwnFiles
  BY DEF Init, OwnFiles, Listed
<1>. QED
  BY <1>1, <1>2, <1>3, <1>4, <1>5, <1>6, <1>7, <1>8 DEF Invariant, TypeOK

LEMMA InvariantStep == Invariant /\ [Next]_vars => Invariant'
<1> SUFFICES ASSUME Invariant, [Next]_vars PROVE Invariant'
  OBVIOUS
<1> USE DEF Invariant
<1>1. TypeOK'
  BY BrowserStep, TableStep, JobTypeStep, ClientStep DEF TypeOK
<1>2. Numbers' /\ AllProgressing' /\ StatusReads'
  BY NumbersStep, ProgressStep, ReadsStep
<1>3. ListsAreConsistent' /\ OwnFiles'
  BY ListsStep, FilesStep
<1>. QED
  BY <1>1, <1>2, <1>3

LEMMA Invariance == Spec => []Invariant
  BY InitInvariant, InvariantStep, PTL DEF Spec

\* Every variable has its type, a job in the table has its number, and what is
\* between two writes of a last update is locked (main.go 91-100, 126-134).
THEOREM TypeCorrect == Spec => []TypeOK
<1>1. Invariant => TypeOK
  BY DEF Invariant
<1>. QED
  BY <1>1, Invariance, PTL

\* The number a caller was given denotes his own job until the server dies
\* (main.go 91-100, 141-149).
THEOREM NumbersDenote == Spec => []StatusIsOwn
<1>1. Invariant => StatusIsOwn
  BY DEF Invariant, Numbers, StatusIsOwn
<1>. QED
  BY <1>1, Invariance, PTL

\* A job that is done has at its output what its own download wrote and nothing
\* else, unless a caller named a path that is another job's output, named or
\* default (main.go 91-100, 117-134).
THEOREM DoneStaysUntouched == Spec => []DoneIsUntouched
<1>1. Invariant => DoneIsUntouched
  <2> SUFFICES ASSUME Invariant, NEW r \in Listed, state[r] = "done", OwnPath(r)
               PROVE  files[out[r]] = <<r, "all">>
    BY DEF DoneIsUntouched
  <2>1. r \in Request
    BY DEF Listed, Invariant, TypeOK, TableType
  <2>2. result[r] = "ok"
    BY <2>1 DEF Invariant, TypeOK, JobType, AllProgressing, Progressing, FinalState
  <2>. QED
    BY <2>2 DEF Invariant, OwnFiles
<1>. QED
  BY <1>1, Invariance, PTL

\* The list never shows a job between two states (main.go 154-163).
THEOREM ListsAreWhole == Spec => []ListsAreConsistent
<1>1. Invariant => ListsAreConsistent
  BY DEF Invariant
<1>. QED
  BY <1>1, Invariance, PTL

\* What the status of one job mixes goes only forward (main.go 126-134,
\* 141-152).
THEOREM StatusGoesForward == Spec => []StatusMixesForward
<1>1. Invariant => StatusMixesForward
  BY DEF Invariant, StatusReads, StatusMixesForward, TypeOK, JobType, ClientType,
         AllProgressing, Progressing, FinalState
<1>. QED
  BY <1>1, Invariance, PTL
=============================================================================
