---------------------------- MODULE Services_proofs ----------------------------
(***************************************************************************)
(* Proofs about the services around a session: the shelf (Library), Fugue's   *)
(* questions (FugueAsk), the Jobs of Kubernetes (K8sJobs) and the numbers of   *)
(* messages (SequenceNumbers), for any biblios, requests, Jobs and writers;    *)
(* and that what holds of each service holds of MCServices.  The fifth,        *)
(* TaskSeries, has proofs of its own.                                        *)
(***************************************************************************)
EXTENDS MCServices, FiniteSetTheorems, WellFoundedInduction, TLAPS

-----------------------------------------------------------------------------
(* K8sJobs *)

(* What a waiter that still waits knew when it was registered: an end or a
   removal reported since would have resolved it.                             *)
WaitsOn ==
  \A j \in JobName :
    /\ seen[j] = "ended" => result[j] # "none"
    /\ created[j] # "idle" => cluster[j] # "none"
    /\ Awaited(j) => /\ seen[j] = "ended" => knew[j] = "ended"
                     /\ seen[j] = "gone" => knew[j] = "gone"

JobIInv == JobTypeOK /\ WaitsOn

LEMMA JobInitIInv == JobInit => JobIInv
BY JobConstants DEF JobInit, JobIInv, JobTypeOK, WaitsOn, Awaited

LEMMA JobStep == JobIInv /\ [JobNext]_jobVars => JobIInv'
<1> SUFFICES ASSUME JobIInv, [JobNext]_jobVars PROVE JobIInv'
  OBVIOUS
<1> USE DEF JobIInv, JobTypeOK, WaitsOn, Awaited, Over, Outage
<1> USE JobConstants
<1>1. ASSUME NEW j \in JobName, Create(j) PROVE JobIInv'
  BY <1>1 DEF Create
<1>2. ASSUME NEW j \in JobName, Created(j) PROVE JobIInv'
  BY <1>2 DEF Created
<1>3. ASSUME NEW j \in JobName, CreateThrows(j) PROVE JobIInv'
  BY <1>3 DEF CreateThrows
<1>4. ASSUME NEW j \in JobName, Vanishes(j) PROVE JobIInv'
  BY <1>4 DEF Vanishes
<1>5. ASSUME NEW j \in JobName, Report(j) PROVE JobIInv'
  BY <1>5 DEF Report, Updated, Deleted
<1>6. ASSUME NEW j \in JobName, NEW deleted \in BOOLEAN, KillJob(j, deleted) PROVE JobIInv'
  BY <1>6 DEF KillJob
<1>7. ASSUME NEW j \in JobName, NEW how \in Over, Ends(j, how) PROVE JobIInv'
  BY <1>7 DEF Ends
<1>8. CASE WatchFails
  BY <1>8 DEF WatchFails
<1>9. CASE Relist
  BY <1>9 DEF Relist, Updated, Deleted, Listed
<1>10. CASE RelistFails
  BY <1>10 DEF RelistFails
<1>11. CASE HostStarts
  BY <1>11 DEF HostStarts, Listed
<1>12. CASE UNCHANGED jobVars
  BY <1>12 DEF jobVars
<1> QED
  BY <1>1, <1>2, <1>3, <1>4, <1>5, <1>6, <1>7, <1>8, <1>9, <1>10, <1>11, <1>12 DEF JobNext

(* Every variable keeps its type, and nothing is known of a Job never created.   *)
THEOREM JobTypeCorrect == JobSpec => []JobTypeOK
<1>1. JobIInv => JobTypeOK
  BY DEF JobIInv
<1> QED
  BY <1>1, JobInitIInv, JobStep, PTL DEF JobSpec

(* A waiter left behind came too late or fell into a gap of the watch.            *)
THEOREM ExitsHeardHolds == JobSpec => []ExitsHeard
<1>1. JobIInv => ExitsHeard
  BY DEF JobIInv, JobTypeOK, WaitsOn, ExitsHeard, Current, Listed, Awaited
<1> QED
  BY <1>1, JobInitIInv, JobStep, PTL DEF JobSpec

-----------------------------------------------------------------------------
(* FugueAsk *)

(* A container is asked for by an ask that is waking or, later, by the sweep for
   a session that still is; a session belongs to the ask it is named after.     *)
Begun ==
  /\ \A a \in Ask : phase[a] = "new" => box[a] = "none" /\ owner[thread[a]] # a
  /\ \A a \in Ask : phase[a] # "replied" => reply[a] = "none"
  /\ \A a \in Ask : phase[a] = "waking" => box[a] = "starting"
  /\ \A s \in Ask : box[s] # "none" /\ ~Owns(s) => s \in late

AskIInv == AskTypeOK /\ RepliedLeavesNoSession /\ Begun

LEMMA AskInitIInv == AskInit => AskIInv
BY AskConstants DEF AskInit, AskIInv, AskTypeOK, RepliedLeavesNoSession, Begun, Owns

LEMMA AskStep == AskIInv /\ [AskNext]_askVars => AskIInv'
<1> SUFFICES ASSUME AskIInv, [AskNext]_askVars PROVE AskIInv'
  OBVIOUS
<1> USE DEF AskIInv, AskTypeOK, RepliedLeavesNoSession, Begun, Owns, Cleanup, Reply
<1> USE AskConstants
<1>1. ASSUME NEW a \in Ask, NEW s \in {"denied", "error"}, Refuse(a, s) PROVE AskIInv'
  BY <1>1 DEF Refuse
<1>2. ASSUME NEW a \in Ask, Begin(a) PROVE AskIInv'
  BY <1>2 DEF Begin
<1>3. ASSUME NEW a \in Ask, BeginAgain(a) PROVE AskIInv'
  BY <1>3 DEF BeginAgain
<1>4. ASSUME NEW a \in Ask, Hit(a) PROVE AskIInv'
  BY <1>4 DEF Hit
<1>5. ASSUME NEW a \in Ask, TimeOut(a) PROVE AskIInv'
  BY <1>5 DEF TimeOut
<1>6. ASSUME NEW a \in Ask, NEW up \in BOOLEAN, Wakes(a, up) PROVE AskIInv'
  BY <1>6 DEF Wakes
<1>7. ASSUME NEW a \in Ask, NEW up \in BOOLEAN, SweepStarted(a, up) PROVE AskIInv'
  BY <1>7 DEF SweepStarted
<1>8. ASSUME NEW a \in Ask, NEW what \in {"answer", "chatter"}, Speaks(a, what) PROVE AskIInv'
  BY <1>8 DEF Speaks
<1>9. ASSUME NEW a \in Ask, BoxLost(a) PROVE AskIInv'
  BY <1>9 DEF BoxLost
<1>10. ASSUME NEW a \in Ask, SweepStarts(a) PROVE AskIInv'
  BY <1>10 DEF SweepStarts
<1>11. ASSUME NEW a \in Ask, Hands(a) PROVE AskIInv'
  BY <1>11 DEF Hands
<1>12. CASE HostDies
  BY <1>12 DEF HostDies
<1>13. CASE UNCHANGED askVars
  BY <1>13 DEF askVars
<1> QED
  BY <1>1, <1>2, <1>3, <1>4, <1>5, <1>6, <1>7, <1>8, <1>9, <1>10, <1>11, <1>12, <1>13 DEF AskNext

(* Every variable of the ask endpoint keeps its type.                           *)
THEOREM AskTypeCorrect == AskSpec => []AskTypeOK
<1>1. AskIInv => AskTypeOK
  BY DEF AskIInv
<1> QED
  BY <1>1, AskInitIInv, AskStep, PTL DEF AskSpec

(* Whatever way a request ends, its session is gone when the reply is out, but
   for a host that dies in between.                                           *)
THEOREM RepliedLeavesNoSessionHolds == AskSpec => []RepliedLeavesNoSession
<1>1. AskIInv => RepliedLeavesNoSession
  BY DEF AskIInv
<1> QED
  BY <1>1, AskInitIInv, AskStep, PTL DEF AskSpec

(* A container without a session was being started when the session was removed. *)
THEOREM StrayWasLateHolds == AskSpec => []StrayWasLate
<1>1. AskIInv => StrayWasLate
  BY DEF AskIInv, AskTypeOK, Begun, StrayWasLate
<1> QED
  BY <1>1, AskInitIInv, AskStep, PTL DEF AskSpec

-----------------------------------------------------------------------------
(* Library: the shared shelf *)

(* Unless a merge fell between the two reads, a request under way and every pull
   request adds or takes exactly the biblios it is for.                        *)
Exact ==
  /\ main.list = main.files
  /\ \A j \in Job : jobs[j].stage = "listed" =>
       IF jobs[j].kind = "shelve" THEN jobs[j].items \cap jobs[j].list = {}
       ELSE jobs[j].items \subseteq jobs[j].list
  /\ \A j \in Job : jobs[j].stage \in {"built", "branched"} =>
       IF jobs[j].kind = "shelve" THEN jobs[j].plus = jobs[j].items /\ jobs[j].minus = {}
       ELSE jobs[j].plus = {} /\ jobs[j].minus = jobs[j].items
  /\ \A p \in prs :
       IF p.kind = "shelve" THEN p.plus = p.items /\ p.minus = {}
       ELSE p.plus = {} /\ p.minus = p.items

JobRecord ==
  [kind : Kind, items : SUBSET Biblio, stage : Stage, moved : SUBSET Biblio, list : SUBSET Biblio,
   plus : SUBSET Biblio, minus : SUBSET Biblio]

(* One request moves on, the others stay.                                        *)
Becomes(j, r) == jobs' = [jobs EXCEPT ![j] = r]

LEMMA Endings ==
  ASSUME NEW r \in JobRecord
  PROVE  /\ Idle \in JobRecord /\ Ended(r) \in JobRecord /\ Ended(r).stage = "done"
         /\ [Ended(r) EXCEPT !.stage = "idle"] \in JobRecord
         /\ [Ended(r) EXCEPT !.stage = "idle"].stage = "idle"
BY DEF JobRecord, Idle, Ended, Kind, Stage

LEMMA Refusals ==
  ASSUME NEW kind \in Kind, NEW items \in SUBSET Biblio
  PROVE  LET r == Ended([Idle EXCEPT !.kind = kind, !.items = items])
         IN  r \in JobRecord /\ r.stage = "done"
BY DEF JobRecord, Idle, Ended, Kind, Stage

LEMMA Openings ==
  ASSUME NEW r \in JobRecord
  PROVE  LET q == [r EXCEPT !.stage = "opened", !.plus = {}, !.minus = {}]
         IN  q \in JobRecord /\ q.stage = "opened" /\ q.kind = r.kind /\ q.items = r.items
BY DEF JobRecord, Stage

LEMMA Pushings ==
  ASSUME NEW r \in JobRecord
  PROVE  LET q == [r EXCEPT !.stage = "branched"]
         IN  /\ q \in JobRecord /\ q.stage = "branched" /\ q.kind = r.kind /\ q.items = r.items
             /\ q.plus = r.plus /\ q.minus = r.minus
BY DEF JobRecord, Stage

LEMMA Movings ==
  ASSUME NEW r \in JobRecord, NEW b \in Biblio
  PROVE  LET q == [r EXCEPT !.moved = @ \cup {b}]
         IN  /\ q \in JobRecord /\ q.stage = r.stage /\ q.kind = r.kind /\ q.items = r.items
             /\ q.list = r.list /\ q.plus = r.plus /\ q.minus = r.minus
BY DEF JobRecord

(* What one step of one request does to its record, and to no other.              *)
LEMMA OneMoves ==
  ASSUME LibraryTypeOK, NEW j \in Job, NEW r \in JobRecord, Becomes(j, r)
  PROVE  /\ jobs' \in [Job -> JobRecord] /\ jobs'[j] = r
         /\ \A i \in Job \ {j} : jobs'[i] = jobs[i]
BY DEF LibraryTypeOK, JobRecord, Becomes

LEMMA LibraryJobs == LibraryTypeOK => jobs \in [Job -> JobRecord]
BY DEF LibraryTypeOK, JobRecord

(* Only the record of j changes.                                                  *)
Alone(j) ==
  /\ jobs' \in [Job -> JobRecord]
  /\ \A i \in Job \ {j} : jobs'[i] = jobs[i]

LEMMA Refused ==
  ASSUME LibraryTypeOK, NEW j \in Job, NEW kind \in Kind, NEW items \in SUBSET Biblio,
         RefuseJob(j, kind, items)
  PROVE  Alone(j) /\ jobs'[j].stage = "done"
BY Refusals, OneMoves DEF RefuseJob, Becomes, Alone

LEMMA Halted ==
  ASSUME LibraryTypeOK, NEW j \in Job, jobs' = [jobs EXCEPT ![j] = Ended(@)]
  PROVE  Alone(j) /\ jobs'[j].stage = "done"
<1>1. jobs[j] \in JobRecord
  BY LibraryJobs
<1>2. Becomes(j, Ended(jobs[j]))
  BY DEF Becomes
<1> QED
  BY <1>1, <1>2, Endings, OneMoves DEF Alone

LEMMA Fetched ==
  ASSUME LibraryTypeOK, NEW j \in Job, NEW kind \in Kind, NEW items \in SUBSET Biblio,
         TakeList(j, kind, items)
  PROVE  /\ Alone(j) /\ jobs'[j].stage = "listed" /\ jobs'[j].kind = kind
         /\ jobs'[j].items = items /\ jobs'[j].list = main.list
<1>1. main.list \in SUBSET Biblio
  BY DEF LibraryTypeOK, Shelf
<1> DEFINE q == [Idle EXCEPT !.kind = kind, !.items = items, !.list = main.list, !.stage = "listed"]
<1>2. Becomes(j, q)
  BY DEF TakeList, Becomes
<1>3. q \in JobRecord /\ q.stage = "listed" /\ q.kind = kind /\ q.items = items /\ q.list = main.list
  BY <1>1 DEF JobRecord, Idle, Kind, Stage
<1> HIDE DEF q
<1> QED
  BY <1>2, <1>3, OneMoves DEF Alone

LEMMA Built ==
  ASSUME LibraryTypeOK, NEW j \in Job, NEW list \in SUBSET Biblio, Commits(j, list)
  PROVE  /\ Alone(j) /\ jobs'[j].stage = "built" /\ jobs'[j].kind = jobs[j].kind
         /\ jobs'[j].items = jobs[j].items
         /\ jobs'[j].plus = list \ main.list /\ jobs'[j].minus = main.list \ list
<1>1. list \ main.list \in SUBSET Biblio /\ main.list \ list \in SUBSET Biblio
  BY DEF LibraryTypeOK, Shelf
<1>2. jobs[j] \in JobRecord
  BY LibraryJobs
<1> DEFINE q == [jobs[j] EXCEPT !.stage = "built", !.moved = {}, !.list = {},
                                !.plus = list \ main.list, !.minus = main.list \ list]
<1>3. Becomes(j, q)
  BY <1>2 DEF Commits, Becomes, LibraryTypeOK, JobRecord
<1>4. /\ q \in JobRecord /\ q.stage = "built" /\ q.kind = jobs[j].kind /\ q.items = jobs[j].items
      /\ q.plus = list \ main.list /\ q.minus = main.list \ list
  BY <1>1, <1>2 DEF JobRecord, Stage
<1> HIDE DEF q
<1> QED
  BY <1>3, <1>4, OneMoves DEF Alone

LEMMA Opened ==
  ASSUME LibraryTypeOK, NEW j \in Job, OpenRequest(j)
  PROVE  /\ Alone(j) /\ jobs'[j].stage = "opened" /\ jobs'[j].kind = jobs[j].kind
         /\ jobs'[j].items = jobs[j].items
<1>1. jobs[j] \in JobRecord
  BY LibraryJobs
<1> DEFINE q == [jobs[j] EXCEPT !.stage = "opened", !.plus = {}, !.minus = {}]
<1>2. Becomes(j, q)
  BY <1>1 DEF OpenRequest, Becomes, LibraryTypeOK, JobRecord
<1>3. q \in JobRecord /\ q.stage = "opened" /\ q.kind = jobs[j].kind /\ q.items = jobs[j].items
  BY <1>1, Openings
<1> HIDE DEF q
<1> QED
  BY <1>2, <1>3, OneMoves DEF Alone

LEMMA Pushed ==
  ASSUME LibraryTypeOK, NEW j \in Job, PushBranch(j)
  PROVE  /\ Alone(j) /\ jobs'[j].stage = "branched" /\ jobs'[j].kind = jobs[j].kind
         /\ jobs'[j].items = jobs[j].items /\ jobs'[j].plus = jobs[j].plus
         /\ jobs'[j].minus = jobs[j].minus
<1>1. jobs[j] \in JobRecord
  BY LibraryJobs
<1>2. Becomes(j, [jobs[j] EXCEPT !.stage = "branched"])
  BY DEF PushBranch, Becomes
<1> QED
  BY <1>1, <1>2, Pushings, OneMoves DEF Alone

LEMMA Moved ==
  ASSUME LibraryTypeOK, NEW j \in Job, NEW b \in Biblio, Move(j, b)
  PROVE  /\ Alone(j) /\ jobs'[j].stage = jobs[j].stage /\ jobs'[j].kind = jobs[j].kind
         /\ jobs'[j].items = jobs[j].items /\ jobs'[j].list = jobs[j].list
         /\ jobs'[j].plus = jobs[j].plus /\ jobs'[j].minus = jobs[j].minus
<1>1. jobs[j] \in JobRecord
  BY LibraryJobs
<1> DEFINE q == [jobs[j] EXCEPT !.moved = @ \cup {b}]
<1>2. Becomes(j, q)
  BY DEF Move, Becomes
<1>3. /\ q \in JobRecord /\ q.stage = jobs[j].stage /\ q.kind = jobs[j].kind
      /\ q.items = jobs[j].items /\ q.list = jobs[j].list /\ q.plus = jobs[j].plus
      /\ q.minus = jobs[j].minus
  BY <1>1, Movings
<1> HIDE DEF q
<1> QED
  BY <1>2, <1>3, OneMoves DEF Alone

LEMMA Died ==
  ASSUME LibraryTypeOK, Die
  PROVE  /\ jobs' \in [Job -> JobRecord]
         /\ \A j \in Job : jobs'[j] = jobs[j] \/ (jobs'[j].stage = "idle" /\ jobs[j].stage # "done")
<1>1. \A j \in Job : jobs[j] \in JobRecord
  BY LibraryJobs
<1>2. \A j \in Job : [Ended(jobs[j]) EXCEPT !.stage = "idle"] \in JobRecord
                     /\ [Ended(jobs[j]) EXCEPT !.stage = "idle"].stage = "idle"
  BY <1>1, Endings
<1>3. jobs' = [j \in Job |-> IF jobs[j].stage \in {"idle", "done"} THEN jobs[j]
                            ELSE [Ended(jobs[j]) EXCEPT !.stage = "idle"]]
  BY DEF Die
<1>4. \A j \in Job : jobs'[j] = IF jobs[j].stage \in {"idle", "done"} THEN jobs[j]
                             ELSE [Ended(jobs[j]) EXCEPT !.stage = "idle"]
  BY <1>3, Zenon
<1>5. \A j \in Job : jobs'[j] \in JobRecord
  BY <1>1, <1>2, <1>4
<1> QED
  <2>1. jobs' \in [Job -> JobRecord]
    BY <1>3, <1>5
  <2>2. ASSUME NEW j \in Job
        PROVE  jobs'[j] = jobs[j] \/ (jobs'[j].stage = "idle" /\ jobs[j].stage # "done")
    <3>1. CASE jobs[j].stage \in {"idle", "done"}
      BY <1>4, <3>1
    <3>2. CASE jobs[j].stage \notin {"idle", "done"}
      BY <1>2, <1>4, <3>2
    <3> QED
      BY <3>1, <3>2
  <2> QED
    BY <2>1, <2>2

LEMMA OneElement == ASSUME NEW S, Cardinality(S) = 1, IsFiniteSet(S) PROVE \E b : S = {b}
BY FS_Singleton

(* The actions of the library, by what they do to a request's record.             *)
LibraryActs ==
  \/ \E b \in Biblio : EquipList(b) \/ EquipInsert(b)
  \/ \E b \in Biblio, ok \in BOOLEAN : Clones(b, ok)
  \/ \E j \in Job, kind \in Kind, items \in SUBSET Biblio : RefuseJob(j, kind, items)
  \/ \E j \in Job, items \in SUBSET Biblio : FetchForShelving(j, items)
  \/ \E j \in Job, kind \in Kind, b \in Biblio : FetchForRemoval(j, kind, b)
  \/ \E j \in Job, b \in Biblio : Move(j, b)
  \/ \E j \in Job : Halt(j) \/ HearShelved(j) \/ HearForbidden(j)
  \/ \E j \in Job : BuildShelving(j) \/ BuildRemoval(j)
  \/ \E j \in Job : PushBranch(j) \/ OpenRequest(j)
  \/ \E j \in Job, d, r \in BOOLEAN : HearBurnt(j, d, r)
  \/ \E p \in prs : Merge(p)
  \/ \E br \in branches : DeleteBranch(br)
  \/ Die

LEMMA LibraryActions == LibraryNext => LibraryActs
<1> SUFFICES ASSUME LibraryNext PROVE LibraryActs
  OBVIOUS
<1>1. ASSUME NEW j \in Job, NEW items \in SUBSET Biblio, RefuseShelving(j, items) PROVE LibraryActs
  <2>1. "shelve" \in Kind
    BY DEF Kind
  <2> QED
    BY <1>1, <2>1 DEF RefuseShelving, LibraryActs
<1>2. ASSUME NEW j \in Job, NEW b \in Biblio, NEW kind \in Kind, RefuseRemoval(j, kind, b)
      PROVE  LibraryActs
  <2>1. {b} \in SUBSET Biblio
    OBVIOUS
  <2> QED
    BY <1>2, <2>1 DEF RefuseRemoval, LibraryActs
<1>3. ASSUME NEW j \in Job, MoveFails(j) \/ ScanFails(j) \/ ShelvingFails(j) \/ RemovalFails(j)
      PROVE  LibraryActs
  BY <1>3 DEF MoveFails, ScanFails, ShelvingFails, RemovalFails, LibraryActs
<1>4. ASSUME NEW b \in Biblio, NEW ok \in BOOLEAN, AcquireRepo(b, ok) \/ AcquireSkill(b, ok)
      PROVE  LibraryActs
  BY <1>4 DEF AcquireRepo, AcquireSkill, LibraryActs
<1>5. \/ \E b \in Biblio : EquipList(b) \/ EquipInsert(b)
      \/ \E j \in Job, items \in SUBSET Biblio : FetchForShelving(j, items)
      \/ \E j \in Job, kind \in Kind, b \in Biblio : FetchForRemoval(j, kind, b)
      \/ \E j \in Job, b \in Biblio : Move(j, b)
      \/ \E j \in Job : HearShelved(j) \/ HearForbidden(j) \/ BuildShelving(j) \/ BuildRemoval(j)
                        \/ PushBranch(j) \/ OpenRequest(j)
      \/ \E j \in Job, d, r \in BOOLEAN : HearBurnt(j, d, r)
      \/ \E p \in prs : Merge(p)
      \/ \E br \in branches : DeleteBranch(br)
      \/ Die
      => LibraryActs
  BY DEF LibraryActs
<1> QED
  BY <1>1, <1>2, <1>3, <1>4, <1>5 DEF LibraryNext

LEMMA LibraryTypeStep == LibraryTypeOK /\ [LibraryNext]_libraryVars => LibraryTypeOK'
<1> SUFFICES ASSUME LibraryTypeOK, [LibraryNext]_libraryVars PROVE LibraryTypeOK'
  OBVIOUS
<1>0. LibraryTypeOK' <=>
        /\ quarantine' \subseteq Biblio /\ shelf' \subseteq Biblio /\ main' \in Shelf
        /\ branches' \subseteq {<<"shelve", {b}>> : b \in Biblio} /\ prs' \subseteq PullRequest
        /\ jobs' \in [Job -> JobRecord]
        /\ told' \in [Job -> {"nothing", "ok", "warned", "failed"}]
        /\ gear' \subseteq Biblio /\ equipping' \subseteq Biblio /\ equipped' \subseteq Biblio
        /\ acquires' \in 0..MaxAcquires /\ deaths' \in 0..MaxDeaths /\ crossed' \in BOOLEAN
  BY DEF LibraryTypeOK, JobRecord
<1>1. /\ quarantine \subseteq Biblio /\ shelf \subseteq Biblio /\ main \in Shelf
      /\ branches \subseteq {<<"shelve", {b}>> : b \in Biblio} /\ prs \subseteq PullRequest
      /\ jobs \in [Job -> JobRecord]
      /\ told \in [Job -> {"nothing", "ok", "warned", "failed"}]
      /\ gear \subseteq Biblio /\ equipping \subseteq Biblio /\ equipped \subseteq Biblio
      /\ acquires \in 0..MaxAcquires /\ deaths \in 0..MaxDeaths /\ crossed \in BOOLEAN
  BY DEF LibraryTypeOK, JobRecord
<1>2. ASSUME NEW b \in Biblio, EquipList(b) \/ EquipInsert(b) PROVE LibraryTypeOK'
  BY <1>0, <1>1, <1>2 DEF EquipList, EquipInsert
<1>3. ASSUME NEW b \in Biblio, NEW ok \in BOOLEAN, Clones(b, ok) PROVE LibraryTypeOK'
  BY <1>0, <1>1, <1>3, LibraryConstants DEF Clones
<1>4. ASSUME NEW j \in Job, NEW kind \in Kind, NEW items \in SUBSET Biblio, RefuseJob(j, kind, items)
      PROVE  LibraryTypeOK'
  <2>1. jobs' \in [Job -> JobRecord]
    BY <1>4, Refused DEF Alone
  <2> QED
    BY <1>0, <1>1, <1>4, <2>1 DEF RefuseJob, Tell
<1>5. ASSUME NEW j \in Job, NEW kind \in Kind, NEW items \in SUBSET Biblio, TakeList(j, kind, items)
      PROVE  LibraryTypeOK'
  <2>1. jobs' \in [Job -> JobRecord]
    BY <1>5, Fetched DEF Alone
  <2> QED
    BY <1>0, <1>1, <1>5, <2>1 DEF TakeList
<1>6. ASSUME NEW j \in Job, NEW b \in Biblio, Move(j, b) PROVE LibraryTypeOK'
  <2>1. jobs' \in [Job -> JobRecord]
    BY <1>6, Moved DEF Alone
  <2> QED
    BY <1>0, <1>1, <1>6, <2>1 DEF Move
<1>7. ASSUME NEW j \in Job, Halt(j) \/ HearShelved(j) \/ HearForbidden(j) PROVE LibraryTypeOK'
  <2>1. jobs' \in [Job -> JobRecord]
    BY <1>7, Halted DEF Alone, Halt, HearShelved, HearForbidden
  <2> QED
    BY <1>0, <1>1, <1>7, <2>1 DEF Halt, HearShelved, HearForbidden, Tell
<1>8. ASSUME NEW j \in Job, NEW list \in SUBSET Biblio, Commits(j, list) PROVE LibraryTypeOK'
  <2>1. jobs' \in [Job -> JobRecord]
    BY <1>8, Built DEF Alone
  <2>2. crossed' \in BOOLEAN
    BY <1>8, <1>1, Zenon DEF Commits
  <2> QED
    BY <1>0, <1>1, <1>8, <2>1, <2>2 DEF Commits
<1>16. ASSUME NEW j \in Job, BuildShelving(j) \/ BuildRemoval(j) PROVE LibraryTypeOK'
  <2>1. /\ jobs[j].list \cup jobs[j].items \in SUBSET Biblio
        /\ jobs[j].list \ jobs[j].items \in SUBSET Biblio
    BY <1>1 DEF JobRecord
  <2> QED
    BY <1>8, <1>16, <2>1 DEF BuildShelving, BuildRemoval
<1>17. ASSUME NEW j \in Job, NEW items \in SUBSET Biblio, FetchForShelving(j, items)
       PROVE  LibraryTypeOK'
  <2>1. "shelve" \in Kind
    BY DEF Kind
  <2> QED
    BY <1>5, <1>17, <2>1 DEF FetchForShelving
<1>18. ASSUME NEW j \in Job, NEW kind \in Kind, NEW b \in Biblio, FetchForRemoval(j, kind, b)
       PROVE  LibraryTypeOK'
  <2>1. {b} \in SUBSET Biblio
    OBVIOUS
  <2> QED
    BY <1>5, <1>18, <2>1 DEF FetchForRemoval
<1>9. ASSUME NEW j \in Job, PushBranch(j) PROVE LibraryTypeOK'
  <2>1. jobs' \in [Job -> JobRecord]
    BY <1>9, Pushed DEF Alone
  <2>2. jobs[j].items \in SUBSET Biblio
    BY <1>1 DEF JobRecord
  <2>3. Branch(j)[1] # "timed" => \E b \in Biblio : jobs[j].items = {b}
    <3> SUFFICES ASSUME Branch(j)[1] # "timed" PROVE \E b \in Biblio : jobs[j].items = {b}
      OBVIOUS
    <3>1. Cardinality(jobs[j].items) = 1 /\ IsFiniteSet(jobs[j].items)
      BY <2>2, FS_Subset, LibraryConstants DEF Branch
    <3>2. \E b : jobs[j].items = {b}
      BY <2>2, <3>1, OneElement
    <3> QED
      BY <2>2, <3>2
  <2>4. branches' \subseteq {<<"shelve", {b}>> : b \in Biblio}
    <3>1. CASE Branch(j)[1] = "timed"
      BY <1>1, <1>9, <3>1 DEF PushBranch
    <3>2. CASE Branch(j)[1] # "timed"
      <4>1. Branch(j) = <<"shelve", jobs[j].items>>
        BY <3>2 DEF Branch
      <4> QED
        BY <1>1, <1>9, <2>3, <3>2, <4>1 DEF PushBranch
    <3> QED
      BY <3>1, <3>2
  <2> QED
    BY <1>0, <1>1, <1>9, <2>1, <2>4 DEF PushBranch
<1>10. ASSUME NEW j \in Job, OpenRequest(j) PROVE LibraryTypeOK'
  <2>1. jobs' \in [Job -> JobRecord]
    BY <1>10, Opened DEF Alone
  <2>2. Request(j) \in PullRequest
    BY <1>1 DEF Request, PullRequest, JobRecord
  <2> QED
    BY <1>0, <1>1, <1>10, <2>1, <2>2 DEF OpenRequest
<1>11. ASSUME NEW j \in Job, NEW d \in BOOLEAN, NEW r \in BOOLEAN, HearBurnt(j, d, r)
       PROVE  LibraryTypeOK'
  <2>1. jobs' \in [Job -> JobRecord]
    BY <1>11, Halted DEF Alone, HearBurnt
  <2> QED
    BY <1>0, <1>1, <1>11, <2>1 DEF HearBurnt, Tell
<1>12. ASSUME NEW p \in prs, Merge(p) PROVE LibraryTypeOK'
  <2>1. p \in PullRequest /\ [p EXCEPT !.merged = TRUE] \in PullRequest
    BY <1>1 DEF PullRequest
  <2>2. main' \in Shelf
    BY <1>1, <1>12, <2>1 DEF Merge, Shelf, PullRequest
  <2> QED
    BY <1>0, <1>1, <1>12, <2>1, <2>2 DEF Merge
<1>13. ASSUME NEW br \in branches, DeleteBranch(br) PROVE LibraryTypeOK'
  BY <1>0, <1>1, <1>13 DEF DeleteBranch
<1>14. CASE Die
  <2>1. jobs' \in [Job -> JobRecord]
    BY <1>14, Died
  <2> QED
    BY <1>0, <1>1, <1>14, <2>1, LibraryConstants DEF Die
<1>15. CASE UNCHANGED libraryVars
  BY <1>0, <1>1, <1>15 DEF libraryVars
<1> QED
  BY <1>2, <1>3, <1>4, <1>6, <1>7, <1>9, <1>10, <1>11, <1>12, <1>13, <1>14, <1>15, <1>16, <1>17,
     <1>18, LibraryActions DEF LibraryActs

LEMMA LibraryTypeInit == LibraryInit => LibraryTypeOK
<1> SUFFICES ASSUME LibraryInit PROVE LibraryTypeOK
  OBVIOUS
<1>1. Idle \in JobRecord
  BY DEF Idle, JobRecord, Kind, Stage
<1>2. jobs \in [Job -> JobRecord]
  BY <1>1 DEF LibraryInit
<1>3. main \in Shelf
  BY DEF LibraryInit, Shelf
<1>4. acquires \in 0..MaxAcquires /\ deaths \in 0..MaxDeaths /\ crossed \in BOOLEAN
  <2>1. acquires = 0 /\ deaths = 0 /\ crossed = FALSE
    BY DEF LibraryInit
  <2>2. crossed \in BOOLEAN
    BY <2>1, Zenon
  <2>3. acquires \in 0..MaxAcquires /\ deaths \in 0..MaxDeaths
    BY <2>1, LibraryConstants
  <2> QED
    BY <2>2, <2>3
<1> QED
  BY <1>2, <1>3, <1>4 DEF LibraryInit, LibraryTypeOK, JobRecord

(* Every variable of the library keeps its type, and the branches left behind are
   those of single shelved biblios.                                           *)
THEOREM LibraryTypeCorrect == LibrarySpec => []LibraryTypeOK
BY LibraryTypeInit, LibraryTypeStep, PTL DEF LibrarySpec

LEMMA CrossedStays == LibraryNext \/ UNCHANGED libraryVars => (crossed => crossed')
<1> SUFFICES ASSUME LibraryActs \/ UNCHANGED libraryVars, crossed PROVE crossed'
  BY LibraryActions
<1>1. CASE UNCHANGED libraryVars
  BY <1>1 DEF libraryVars
<1>2. CASE LibraryActs
  BY <1>2 DEF LibraryActs, EquipList, EquipInsert, Clones, RefuseJob, FetchForShelving,
     FetchForRemoval, TakeList, Move, Halt, HearShelved, HearForbidden, BuildShelving,
     BuildRemoval, Commits, PushBranch, OpenRequest, HearBurnt, Merge, DeleteBranch, Die
<1> QED
  BY <1>1, <1>2

LEMMA ExactStep ==
  LibraryTypeOK /\ (crossed \/ Exact) /\ [LibraryNext]_libraryVars => (crossed' \/ Exact')
<1> SUFFICES ASSUME LibraryTypeOK, Exact, [LibraryNext]_libraryVars, ~crossed, ~crossed'
             PROVE  Exact'
  BY CrossedStays
<1>1. ASSUME UNCHANGED <<main, jobs, prs>> PROVE Exact'
  BY <1>1 DEF Exact
<1>2. ASSUME NEW j \in Job, Alone(j), jobs'[j].stage \notin {"listed", "built", "branched"},
             UNCHANGED <<main, prs>>
      PROVE  Exact'
  BY <1>2 DEF Alone, Exact
<1>3. ASSUME NEW j \in Job, NEW kind \in Kind, NEW items \in SUBSET Biblio, RefuseJob(j, kind, items)
      PROVE  Exact'
  BY <1>2, <1>3, Refused DEF RefuseJob
<1>4. ASSUME NEW j \in Job, NEW items \in SUBSET Biblio, FetchForShelving(j, items) PROVE Exact'
  <2>1. "shelve" \in Kind
    BY DEF Kind
  <2>2. /\ Alone(j) /\ jobs'[j].stage = "listed" /\ jobs'[j].kind = "shelve"
        /\ jobs'[j].items = items /\ jobs'[j].list = main.list
    BY <1>4, <2>1, Fetched DEF FetchForShelving
  <2> QED
    BY <1>4, <2>2 DEF Alone, Exact, FetchForShelving, TakeList
<1>5. ASSUME NEW j \in Job, NEW kind \in Kind, NEW b \in Biblio, FetchForRemoval(j, kind, b)
      PROVE  Exact'
  <2>1. {b} \in SUBSET Biblio
    OBVIOUS
  <2>2. /\ Alone(j) /\ jobs'[j].stage = "listed" /\ jobs'[j].kind = kind
        /\ jobs'[j].items = {b} /\ jobs'[j].list = main.list
    BY <1>5, <2>1, Fetched DEF FetchForRemoval
  <2> QED
    BY <1>5, <2>2 DEF Alone, Exact, FetchForRemoval, TakeList
<1>6. ASSUME NEW j \in Job, NEW b \in Biblio, Move(j, b) PROVE Exact'
  <2>1. /\ Alone(j) /\ jobs'[j].stage = jobs[j].stage /\ jobs'[j].kind = jobs[j].kind
        /\ jobs'[j].items = jobs[j].items /\ jobs'[j].list = jobs[j].list
    BY <1>6, Moved
  <2>2. jobs[j].stage = "listed"
    BY <1>6 DEF Move, At
  <2> QED
    BY <1>6, <2>1, <2>2 DEF Alone, Exact, Move
<1>7. ASSUME NEW j \in Job, Halt(j) \/ HearShelved(j) \/ HearForbidden(j) PROVE Exact'
  BY <1>2, <1>7, Halted DEF Halt, HearShelved, HearForbidden
<1>8. ASSUME NEW j \in Job, NEW list \in SUBSET Biblio, Commits(j, list)
      PROVE  /\ jobs[j].list = main.list /\ UNCHANGED <<main, prs>>
             /\ Alone(j) /\ jobs'[j].stage = "built" /\ jobs'[j].kind = jobs[j].kind
             /\ jobs'[j].items = jobs[j].items
             /\ jobs'[j].plus = list \ main.list /\ jobs'[j].minus = main.list \ list
  <2>1. jobs[j].list = main.list /\ UNCHANGED <<main, prs>>
    BY <1>8 DEF Commits
  <2> QED
    BY <1>8, <2>1, Built
<1>9. ASSUME NEW j \in Job, BuildShelving(j) PROVE Exact'
  <2>1. jobs[j].list \cup jobs[j].items \in SUBSET Biblio
    BY DEF LibraryTypeOK
  <2>2. /\ jobs[j].list = main.list /\ UNCHANGED <<main, prs>>
        /\ Alone(j) /\ jobs'[j].stage = "built" /\ jobs'[j].kind = jobs[j].kind
        /\ jobs'[j].items = jobs[j].items
        /\ jobs'[j].plus = (jobs[j].list \cup jobs[j].items) \ main.list
        /\ jobs'[j].minus = main.list \ (jobs[j].list \cup jobs[j].items)
    BY <1>8, <1>9, <2>1 DEF BuildShelving
  <2>3. jobs[j].kind = "shelve" /\ jobs[j].items \cap jobs[j].list = {}
    BY <1>9 DEF BuildShelving, AllMoved, Shelves, At, Exact
  <2>4. jobs'[j].plus = jobs'[j].items /\ jobs'[j].minus = {}
    BY <2>2, <2>3
  <2> QED
    BY <2>2, <2>3, <2>4 DEF Alone, Exact
<1>10. ASSUME NEW j \in Job, BuildRemoval(j) PROVE Exact'
  <2>1. jobs[j].list \ jobs[j].items \in SUBSET Biblio
    BY DEF LibraryTypeOK
  <2>2. /\ jobs[j].list = main.list /\ UNCHANGED <<main, prs>>
        /\ Alone(j) /\ jobs'[j].stage = "built" /\ jobs'[j].kind = jobs[j].kind
        /\ jobs'[j].items = jobs[j].items
        /\ jobs'[j].plus = (jobs[j].list \ jobs[j].items) \ main.list
        /\ jobs'[j].minus = main.list \ (jobs[j].list \ jobs[j].items)
    BY <1>8, <1>10, <2>1 DEF BuildRemoval
  <2>3. jobs[j].kind # "shelve" /\ jobs[j].items \subseteq jobs[j].list
    BY <1>10 DEF BuildRemoval, Removes, At, Exact
  <2>4. jobs'[j].plus = {} /\ jobs'[j].minus = jobs'[j].items
    BY <2>2, <2>3
  <2> QED
    BY <2>2, <2>3, <2>4 DEF Alone, Exact
<1>11. ASSUME NEW j \in Job, PushBranch(j) PROVE Exact'
  <2>1. /\ Alone(j) /\ jobs'[j].stage = "branched" /\ jobs'[j].kind = jobs[j].kind
        /\ jobs'[j].items = jobs[j].items /\ jobs'[j].plus = jobs[j].plus
        /\ jobs'[j].minus = jobs[j].minus
    BY <1>11, Pushed
  <2>2. jobs[j].stage = "built" /\ UNCHANGED <<main, prs>>
    BY <1>11 DEF PushBranch, At
  <2> QED
    BY <2>1, <2>2 DEF Alone, Exact
<1>12. ASSUME NEW j \in Job, OpenRequest(j) PROVE Exact'
  <2>1. Alone(j) /\ jobs'[j].stage = "opened"
    BY <1>12, Opened
  <2>2. jobs[j].stage = "branched" /\ main' = main /\ prs' = prs \cup {Request(j)}
    BY <1>12 DEF OpenRequest, At
  <2>3. /\ Request(j).kind = jobs[j].kind /\ Request(j).items = jobs[j].items
        /\ Request(j).plus = jobs[j].plus /\ Request(j).minus = jobs[j].minus
    BY DEF Request
  <2> QED
    BY <2>1, <2>2, <2>3 DEF Alone, Exact
<1>13. ASSUME NEW j \in Job, NEW d \in BOOLEAN, NEW r \in BOOLEAN, HearBurnt(j, d, r) PROVE Exact'
  BY <1>2, <1>13, Halted DEF HearBurnt
<1>14. ASSUME NEW p \in prs, Merge(p) PROVE Exact'
  <2>1. p \in PullRequest
    BY DEF LibraryTypeOK
  <2> DEFINE q == [p EXCEPT !.merged = TRUE]
  <2>2. q.kind = p.kind /\ q.items = p.items /\ q.plus = p.plus /\ q.minus = p.minus
    BY <2>1 DEF PullRequest
  <2>3. prs' = (prs \ {p}) \cup {q} /\ jobs' = jobs
    BY <1>14 DEF Merge
  <2>4. /\ main'.files = IF p.kind = "shelve" THEN main.files \cup p.items
                         ELSE main.files \ p.items
        /\ main'.list = (main.list \cup p.plus) \ p.minus
    BY <1>14 DEF Merge
  <2>5. main'.list = main'.files
    BY <2>4 DEF Exact
  <2> HIDE DEF q
  <2> QED
    BY <2>2, <2>3, <2>5 DEF Exact
<1>15. CASE Die
  BY <1>15, Died DEF Die, Exact
<1>16. ASSUME NEW b \in Biblio, EquipList(b) \/ EquipInsert(b) PROVE Exact'
  BY <1>1, <1>16 DEF EquipList, EquipInsert
<1>17. ASSUME NEW b \in Biblio, NEW ok \in BOOLEAN, Clones(b, ok) PROVE Exact'
  BY <1>1, <1>17 DEF Clones
<1>18. ASSUME NEW br \in branches, DeleteBranch(br) PROVE Exact'
  BY <1>1, <1>18 DEF DeleteBranch
<1>19. CASE UNCHANGED libraryVars
  BY <1>1, <1>19 DEF libraryVars
<1> QED
  BY <1>3, <1>4, <1>5, <1>6, <1>7, <1>9, <1>10, <1>11, <1>12, <1>13, <1>14, <1>15, <1>16, <1>17,
     <1>18, <1>19, LibraryActions DEF LibraryActs

(* The list of the shared shelf names the biblios whose files are there, unless a
   merge fell between the two reads of a request.                              *)
THEOREM ListMatchesFilesHolds == LibrarySpec => []ListMatchesFiles
<1>1. LibraryInit => crossed \/ Exact
  BY DEF LibraryInit, Exact, Idle
<1>2. crossed \/ Exact => ListMatchesFiles
  BY DEF Exact, ListMatchesFiles
<1> QED
  BY <1>1, <1>2, ExactStep, LibraryTypeInit, LibraryTypeStep, PTL DEF LibrarySpec

-----------------------------------------------------------------------------
(* SequenceNumbers *)

Bounded(numbers) == numbers \subseteq Nat /\ \E b \in Nat : \A n \in numbers : n <= b

LEMMA GreatestIs ==
  ASSUME NEW numbers, Bounded(numbers)
  PROVE  /\ Greatest(numbers) \in Nat /\ \A n \in numbers : n <= Greatest(numbers)
         /\ numbers # {} => Greatest(numbers) \in numbers
<1>1. CASE numbers = {}
  BY <1>1 DEF Greatest
<1>2. CASE numbers # {}
  <2>1. PICK b \in Nat : \A n \in numbers : n <= b
    BY DEF Bounded
  <2> DEFINE R == {pair \in Nat \X Nat : pair[1] < pair[2]}
             T == {b - n : n \in numbers}
  <2>2. numbers \subseteq Nat
    BY DEF Bounded
  <2>3. T \subseteq Nat /\ T # {}
    <3>1. \A n \in numbers : b - n \in Nat
      BY <2>1, <2>2
    <3>2. \A x \in T : x \in Nat
      BY <3>1
    <3>3. PICK n : n \in numbers
      BY <1>2
    <3>4. b - n \in T
      BY <3>3
    <3> QED
      BY <3>2, <3>4
  <2>4. \E x \in T : \A y \in T : ~ (<<y, x>> \in R)
    <3>1. IsWellFoundedOn(R, Nat)
      BY NatLessThanWellFounded, Zenon DEF OpToRel
    <3> HIDE DEF R, T
    <3> QED
      BY <2>3, <3>1, WFMin
  <2>5. PICK x \in T : \A y \in T : ~ (<<y, x>> \in R)
    BY <2>4
  <2>6. PICK w \in numbers : x = b - w
    BY <2>5
  <2>7. \A n \in numbers : n <= w
    <3> TAKE n \in numbers
    <3>1. b - n \in T /\ b - n \in Nat /\ x \in Nat
      BY <2>3
    <3>2. ~ (b - n < x)
      BY <2>5, <3>1
    <3> QED
      BY <2>1, <2>2, <2>6, <3>1, <3>2
  <2> DEFINE c == CHOOSE n \in numbers : \A k \in numbers : k <= n
  <2>8. c \in numbers /\ \A k \in numbers : k <= c
    BY <2>6, <2>7
  <2>9. Greatest(numbers) = c
    BY <1>2 DEF Greatest
  <2> HIDE DEF c
  <2> QED
    BY <2>2, <2>8, <2>9
<1> QED
  BY <1>1, <1>2

LEMMA OneMore ==
  ASSUME NEW numbers, Bounded(numbers), NEW n \in Nat
  PROVE  Bounded(numbers \cup {n})
<1>1. PICK b \in Nat : \A k \in numbers : k <= b
  BY DEF Bounded
<1>2. \A k \in numbers \cup {n} : k \in Nat /\ k <= b + n
  BY <1>1 DEF Bounded
<1>3. b + n \in Nat
  OBVIOUS
<1> QED
  BY <1>2, <1>3 DEF Bounded

(* The host's numbers are even, the containers' odd.                              *)
Parities == (\A n \in inbound : n % 2 = 0) /\ (\A n \in Odd : n % 2 = 1)

(* Every failed attempt of a writer is paid for, by another's row or by a lock; a
   row it has not seen pays for the attempt that is to fail on it.              *)
Paid ==
  /\ \A w \in Writer : step[w] = "idle" => tries[w] = 0
  /\ \A w \in Writer : tries[w] <= rivals[w] + busy
  /\ \A w \in Writer, n \in Odd :
       step[w] \in {"read", "ready"} /\ floor[w] < n => tries[w] < rivals[w] + busy

NumberIInv ==
  /\ NumberTypeOK /\ Bounded(inbound) /\ Bounded(Odd) /\ Parities /\ Paid
  /\ OneNameEach /\ LostWasCrowdedOut

LEMMA OddWith ==
  ASSUME NEW n, NEW w, outbound' = outbound \cup {<<n, w>>} PROVE Odd' = Odd \cup {n}
<1>1. <<n, w>>[1] = n
  OBVIOUS
<1>2. \A k : k \in Odd' <=> \E row \in outbound \cup {<<n, w>>} : row[1] = k
  BY DEF Odd
<1>3. \A k : k \in Odd <=> \E row \in outbound : row[1] = k
  BY DEF Odd
<1>4. \A k : k \in Odd' <=> k \in Odd \/ k = n
  BY <1>1, <1>2, <1>3
<1> QED
  BY <1>4

LEMMA OddNumbers == NumberTypeOK => Odd \subseteq Nat
BY DEF NumberTypeOK, Odd

LEMMA NextOddIs ==
  ASSUME NumberTypeOK, NEW w \in Writer
  PROVE  NextOdd(w) \in Nat /\ NextOdd(w) % 2 = 1 /\ floor[w] < NextOdd(w)
<1>1. floor[w] \in Nat
  BY DEF NumberTypeOK
<1> QED
  BY <1>1 DEF NextOdd

LEMMA NextEvenIs ==
  ASSUME Bounded(inbound)
  PROVE  NextEven \in Nat /\ NextEven % 2 = 0
<1>1. Greatest(inbound) \in Nat
  BY GreatestIs
<1> QED
  BY <1>1 DEF NextEven

(* A failed attempt that is paid for.                                             *)
LEMMA AgainPaid ==
  ASSUME NumberIInv, NEW w \in Writer, Again(w), tries[w] < rivals[w] + busy',
         busy' \in 0..MaxBusy, busy <= busy', floor' = [floor EXCEPT ![w] = 0],
         UNCHANGED <<inbound, outbound, rivals>>
  PROVE  NumberIInv'
<1>1. /\ tries \in [Writer -> 0..Retries] /\ rivals \in [Writer -> Nat] /\ busy \in Nat /\ Retries \in Nat
      /\ busy' \in Nat /\ floor \in [Writer -> Nat] /\ step \in [Writer -> {"idle", "read", "ready", "wait"}]
  BY SequenceConstants DEF NumberIInv, NumberTypeOK
<1>2. Odd' = Odd /\ Bounded(inbound)' /\ Bounded(Odd)' /\ Parities' /\ OneNameEach'
  BY DEF NumberIInv, Bounded, Odd, Parities, OneNameEach
<1>3. step'[w] \in {"idle", "wait"} /\ \A v \in Writer \ {w} : step'[v] = step[v] /\ tries'[v] = tries[v]
                                                               /\ floor'[v] = floor[v]
  BY <1>1 DEF Again
<1>4. NumberTypeOK'
  BY <1>1, SequenceConstants DEF NumberIInv, NumberTypeOK, Again
<1>5. Paid'
  <2>1. \A v \in Writer : step'[v] = "idle" => tries'[v] = 0
    BY <1>1, <1>3 DEF NumberIInv, Paid, Again
  <2>2. \A v \in Writer : tries'[v] <= rivals[v] + busy'
    BY <1>1, <1>3 DEF NumberIInv, Paid, Again
  <2>3. \A v \in Writer, n \in Odd :
          step'[v] \in {"read", "ready"} /\ floor'[v] < n => tries'[v] < rivals[v] + busy'
    BY <1>1, <1>3 DEF NumberIInv, Paid
  <2> QED
    BY <1>2, <2>1, <2>2, <2>3 DEF Paid
<1>6. LostWasCrowdedOut'
  <2>1. \A l \in lost : l[2] \in Nat /\ l[2] + busy > Retries
    BY DEF NumberIInv, NumberTypeOK, LostWasCrowdedOut
  <2>2. \A l \in lost : l[2] + busy' > Retries
    BY <1>1, <2>1
  <2>3. lost' = lost \/ (tries[w] = Retries /\ lost' = lost \cup {<<w, rivals[w]>>})
    BY DEF Again
  <2> QED
    BY <1>1, <2>2, <2>3 DEF LostWasCrowdedOut
<1> QED
  BY <1>2, <1>4, <1>5, <1>6 DEF NumberIInv

LEMMA NumberStep == NumberIInv /\ [NumberNext]_numberVars => NumberIInv'
<1> SUFFICES ASSUME NumberIInv, [NumberNext]_numberVars PROVE NumberIInv'
  OBVIOUS
<1>0. /\ tries \in [Writer -> 0..Retries] /\ rivals \in [Writer -> Nat] /\ busy \in Nat /\ Retries \in Nat
      /\ floor \in [Writer -> Nat] /\ step \in [Writer -> {"idle", "read", "ready", "wait"}]
      /\ MaxBusy \in Nat /\ Odd \subseteq Nat
  BY SequenceConstants, OddNumbers DEF NumberIInv, NumberTypeOK
<1>1. CASE HostInserts
  <2>1. NextEven \in Nat /\ NextEven % 2 = 0
    BY NextEvenIs DEF NumberIInv
  <2>2. /\ inbound' = inbound \cup {NextEven}
        /\ UNCHANGED <<outbound, step, floor, tries, lost, rivals, busy>> /\ Odd' = Odd
    BY <1>1 DEF HostInserts, Odd
  <2>3. Bounded(inbound)'
    BY <2>1, <2>2, OneMore DEF NumberIInv
  <2>4. Bounded(Odd)' /\ Parities' /\ Paid' /\ LostWasCrowdedOut'
    BY <2>1, <2>2 DEF NumberIInv, Bounded, Parities, Paid, LostWasCrowdedOut
  <2>5. NextEven \notin Odd
    BY <2>1 DEF NumberIInv, Parities
  <2>6. OneNameEach'
    BY <2>2, <2>5 DEF NumberIInv, OneNameEach
  <2>7. NumberTypeOK'
    BY <2>1, <2>2 DEF NumberIInv, NumberTypeOK
  <2> QED
    BY <2>3, <2>4, <2>6, <2>7 DEF NumberIInv
<1>2. ASSUME NEW w \in Writer, ReadOut(w) PROVE NumberIInv'
  <2>1. Greatest(Odd) \in Nat /\ \A n \in Odd : n <= Greatest(Odd)
    BY GreatestIs DEF NumberIInv
  <2>2. /\ UNCHANGED <<inbound, outbound, tries, lost, busy>> /\ Odd' = Odd
        /\ step' = [step EXCEPT ![w] = "read"] /\ floor' = [floor EXCEPT ![w] = Greatest(Odd)]
        /\ step[w] \in {"idle", "wait"}
        /\ rivals' = rivals \/ (rivals' = [rivals EXCEPT ![w] = 0] /\ step[w] = "idle")
    BY <1>2 DEF ReadOut, Odd
  <2>3. rivals' \in [Writer -> Nat] /\ \A v \in Writer : tries[v] <= rivals'[v] + busy
    BY <1>0, <2>2 DEF NumberIInv, Paid
  <2>4. \A v \in Writer \ {w} : step'[v] = step[v] /\ floor'[v] = floor[v] /\ rivals'[v] = rivals[v]
    BY <1>0, <2>2
  <2>5. step'[w] = "read" /\ \A n \in Odd : ~ (floor'[w] < n)
    BY <1>0, <2>1, <2>2
  <2>6. Paid'
    BY <2>2, <2>3, <2>4, <2>5 DEF NumberIInv, Paid
  <2>7. NumberTypeOK'
    BY <2>1, <2>2, <2>3 DEF NumberIInv, NumberTypeOK
  <2> QED
    BY <2>2, <2>6, <2>7 DEF NumberIInv, Bounded, Parities, OneNameEach, LostWasCrowdedOut
<1>3. ASSUME NEW w \in Writer, ReadIn(w) PROVE NumberIInv'
  <2>1. Greatest(inbound) \in Nat
    BY GreatestIs DEF NumberIInv
  <2>2. /\ UNCHANGED <<inbound, outbound, tries, lost, rivals, busy>> /\ Odd' = Odd
        /\ step' = [step EXCEPT ![w] = "ready"] /\ step[w] = "read"
        /\ floor' = [floor EXCEPT ![w] = IF Greatest(inbound) > @ THEN Greatest(inbound) ELSE @]
    BY <1>3 DEF ReadIn, Odd
  <2>3. floor' \in [Writer -> Nat] /\ \A v \in Writer : floor[v] <= floor'[v]
    BY <1>0, <2>1, <2>2
  <2>4. \A v \in Writer : step'[v] \in {"read", "ready"} => step[v] \in {"read", "ready"}
    BY <1>0, <2>2
  <2>5. \A v \in Writer : step'[v] = "idle" => step[v] = "idle"
    BY <1>0, <2>2
  <2>6. \A v \in Writer, n \in Odd : floor'[v] < n => floor[v] < n
    BY <1>0, <2>3
  <2>7. Paid'
    BY <2>2, <2>4, <2>5, <2>6 DEF NumberIInv, Paid
  <2>8. NumberTypeOK'
    BY <2>2, <2>3 DEF NumberIInv, NumberTypeOK
  <2> QED
    BY <2>2, <2>7, <2>8 DEF NumberIInv, Bounded, Parities, OneNameEach, LostWasCrowdedOut
<1>4. ASSUME NEW w \in Writer, Insert(w) PROVE NumberIInv'
  <2>1. NextOdd(w) \in Nat /\ NextOdd(w) % 2 = 1
    BY NextOddIs DEF NumberIInv
  <2>2. /\ outbound' = outbound \cup {<<NextOdd(w), w>>} /\ UNCHANGED <<inbound, lost, busy>>
        /\ step' = [step EXCEPT ![w] = "idle"] /\ tries' = [tries EXCEPT ![w] = 0]
        /\ floor' = [floor EXCEPT ![w] = 0] /\ NextOdd(w) \notin Odd
        /\ rivals' = [v \in Writer |-> IF v = w \/ step[v] = "idle" THEN rivals[v] ELSE rivals[v] + 1]
    BY <1>4 DEF Insert
  <2>3. Odd' = Odd \cup {NextOdd(w)}
    BY <2>2, OddWith
  <2>4. Bounded(Odd)'
    BY <2>1, <2>3, OneMore DEF NumberIInv
  <2>5. Bounded(inbound)' /\ Parities'
    BY <2>1, <2>2, <2>3 DEF NumberIInv, Bounded, Parities
  <2>6. OneNameEach'
    <3>1. \A r, q \in outbound' : r[1] = q[1] => r = q
      BY <2>2 DEF NumberIInv, OneNameEach, Odd
    <3>2. NextOdd(w) \notin inbound
      BY <2>1 DEF NumberIInv, Parities
    <3> QED
      BY <2>2, <2>3, <3>1, <3>2 DEF NumberIInv, OneNameEach
  <2>7. /\ rivals' \in [Writer -> Nat] /\ \A v \in Writer : rivals[v] <= rivals'[v]
        /\ \A v \in Writer \ {w} : step[v] # "idle" => rivals'[v] = rivals[v] + 1
    BY <1>0, <2>2
  <2>8. /\ step'[w] = "idle" /\ tries'[w] = 0
        /\ \A v \in Writer \ {w} : step'[v] = step[v] /\ tries'[v] = tries[v] /\ floor'[v] = floor[v]
    BY <1>0, <2>2
  <2>9. Paid'
    <3>1. \A v \in Writer : step'[v] = "idle" => tries'[v] = 0
      BY <2>8 DEF NumberIInv, Paid
    <3>2. \A v \in Writer : tries'[v] <= rivals'[v] + busy'
      BY <1>0, <2>2, <2>7, <2>8 DEF NumberIInv, Paid
    <3>3. \A v \in Writer : step'[v] \in {"read", "ready"} => tries'[v] < rivals'[v] + busy'
      BY <1>0, <2>2, <2>7, <2>8 DEF NumberIInv, Paid
    <3> QED
      BY <3>1, <3>2, <3>3 DEF Paid
  <2>10. NumberTypeOK'
    <3>1. step' \in [Writer -> {"idle", "read", "ready", "wait"}] /\ floor' \in [Writer -> Nat]
          /\ tries' \in [Writer -> 0..Retries]
      BY <1>0, <2>2
    <3> QED
      BY <2>1, <2>2, <2>7, <3>1 DEF NumberIInv, NumberTypeOK
  <2> QED
    BY <2>2, <2>4, <2>5, <2>6, <2>9, <2>10 DEF NumberIInv, LostWasCrowdedOut
<1>5. ASSUME NEW w \in Writer, Collides(w) PROVE NumberIInv'
  <2>1. NextOdd(w) \in Odd /\ step[w] = "ready" /\ floor[w] < NextOdd(w)
    BY <1>5, NextOddIs DEF Collides, NumberIInv
  <2>2. tries[w] < rivals[w] + busy
    BY <2>1 DEF NumberIInv, Paid
  <2>3. /\ Again(w) /\ floor' = [floor EXCEPT ![w] = 0] /\ UNCHANGED <<inbound, outbound, rivals>>
        /\ busy' = busy /\ busy \in 0..MaxBusy
    BY <1>5 DEF Collides, NumberIInv, NumberTypeOK
  <2>4. tries[w] < rivals[w] + busy' /\ busy' \in 0..MaxBusy /\ busy <= busy'
    BY <1>0, <2>2, <2>3
  <2> QED
    BY <2>3, <2>4, AgainPaid
<1>6. ASSUME NEW w \in Writer, Locked(w) PROVE NumberIInv'
  <2>1. /\ Again(w) /\ floor' = [floor EXCEPT ![w] = 0] /\ UNCHANGED <<inbound, outbound, rivals>>
        /\ busy' = busy + 1 /\ busy < MaxBusy
    BY <1>6 DEF Locked
  <2>2. tries[w] <= rivals[w] + busy
    BY DEF NumberIInv, Paid
  <2>3. tries[w] < rivals[w] + busy' /\ busy' \in 0..MaxBusy /\ busy <= busy'
    BY <1>0, <2>1, <2>2
  <2> QED
    BY <2>1, <2>3, AgainPaid
<1>7. CASE UNCHANGED numberVars
  BY <1>7 DEF numberVars, NumberIInv, NumberTypeOK, Bounded, Odd, Parities, Paid, OneNameEach,
     LostWasCrowdedOut
<1> QED
  BY <1>1, <1>2, <1>3, <1>4, <1>5, <1>6, <1>7 DEF NumberNext

LEMMA NumberInitIInv == NumberInit => NumberIInv
BY SequenceConstants DEF NumberInit, NumberIInv, NumberTypeOK, Bounded, Odd, Parities, Paid,
   OneNameEach, LostWasCrowdedOut

(* Every variable keeps its type.                                               *)
THEOREM NumberTypeCorrect == NumberSpec => []NumberTypeOK
<1>1. NumberIInv => NumberTypeOK
  BY DEF NumberIInv
<1> QED
  BY <1>1, NumberInitIInv, NumberStep, PTL DEF NumberSpec

(* A number names one message, whichever table it is in.                          *)
THEOREM OneNameEachHolds == NumberSpec => []OneNameEach
<1>1. NumberIInv => OneNameEach
  BY DEF NumberIInv
<1> QED
  BY <1>1, NumberInitIInv, NumberStep, PTL DEF NumberSpec

(* A message is given up only when rivals or locks took every attempt.             *)
THEOREM LostWasCrowdedOutHolds == NumberSpec => []LostWasCrowdedOut
<1>1. NumberIInv => LostWasCrowdedOut
  BY DEF NumberIInv
<1> QED
  BY <1>1, NumberInitIInv, NumberStep, PTL DEF NumberSpec

-----------------------------------------------------------------------------
(* The five services together *)

(* A behaviour of MCServices is one of each service, which steps or stutters. *)
THEOREM ServicesAreTheirParts ==
  ServicesSpec => LibrarySpec /\ AskSpec /\ JobSpec /\ NumberSpec /\ TaskSpec
<1>1. ServicesInit => LibraryInit /\ AskInit /\ JobInit /\ NumberInit /\ TaskInit
  BY DEF ServicesInit
<1>2. [ServicesNext]_ServicesVars => [LibraryNext]_libraryVars
  BY DEF ServicesNext, ServicesVars
<1>3. [ServicesNext]_ServicesVars => [AskNext]_askVars
  BY DEF ServicesNext, ServicesVars
<1>4. [ServicesNext]_ServicesVars => [JobNext]_jobVars
  BY DEF ServicesNext, ServicesVars
<1>5. [ServicesNext]_ServicesVars => [NumberNext]_numberVars
  BY DEF ServicesNext, ServicesVars
<1>6. [ServicesNext]_ServicesVars => [TaskNext]_vars
  BY DEF ServicesNext, ServicesVars
<1> QED
  BY <1>1, <1>2, <1>3, <1>4, <1>5, <1>6, PTL
     DEF ServicesSpec, LibrarySpec, AskSpec, JobSpec, NumberSpec, TaskSpec
===============================================================================
