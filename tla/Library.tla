------------------------------ MODULE Library ------------------------------
(***************************************************************************)
(* The librarian's requests on the shelf repository (src/biblio and the      *)
(* equip endpoint of channels/fugue-http.ts).                                *)
(*                                                                         *)
(* A biblio is cloned into quarantine, moved to the local shelf and put on    *)
(* the shared shelf by a pull request holding its files and the whole         *)
(* marketplace.json; forbidding (enkin) and burning (shokyaku) take it away    *)
(* the same way.  Sessions are served independently, people merge when they    *)
(* like, and every await is a point where others run.                         *)
(***************************************************************************)
EXTENDS Naturals, FiniteSets

CONSTANTS
  Biblio,        \* names <owner>--<repo>
  Job,           \* librarian requests
  MaxAcquires,   \* bound: clones made
  MaxDeaths      \* bound: process deaths

ASSUME LibraryConstants == IsFiniteSet(Biblio) /\ MaxAcquires \in Nat /\ MaxDeaths \in Nat

VARIABLES
  quarantine,  \* directories under data/quarantine
  shelf,       \* directories under data/shelf
  main,        \* the shared shelf: biblios with files, biblios in the list
  branches,    \* branches left in the repository, by name
  prs,         \* pull requests opened so far
  jobs,        \* the librarian's requests
  told,        \* what the requester was told
  gear,        \* directories under data/biblio-equipped
  equipping,   \* equip requests that found the biblio in the list
  equipped,    \* fugue_equipped_biblios
  acquires,    \* clones so far
  deaths,      \* process deaths so far
  crossed      \* history: a merge fell between reading the list and the base

libraryVars ==
  <<quarantine, shelf, main, branches, prs, jobs, told, gear, equipping, equipped, acquires,
    deaths, crossed>>

Kind == {"shelve", "enkin", "shokyaku"}
Stage == {"idle", "listed", "built", "branched", "opened", "done"}

Idle ==
  [kind |-> "shelve", items |-> {}, stage |-> "idle", moved |-> {}, list |-> {},
   plus |-> {}, minus |-> {}]

Ended(job) == [Idle EXCEPT !.kind = job.kind, !.items = job.items, !.stage = "done"]

LibraryInit ==
  /\ quarantine = {} /\ shelf = {} /\ branches = {} /\ prs = {}
  /\ \E some \in SUBSET Biblio : main = [files |-> some, list |-> some]
  /\ jobs = [j \in Job |-> Idle] /\ told = [j \in Job |-> "nothing"]
  /\ gear = Biblio /\ equipping = {} /\ equipped = {}
  /\ acquires = 0 /\ deaths = 0 /\ crossed = FALSE

-----------------------------------------------------------------------------
(* Acquiring *)

\* git runs synchronously: the old copy is removed first, and a failed clone or
\* checkout, or a missing manifest, removes the new one.
Clones(b, ok) ==
  /\ acquires < MaxAcquires /\ acquires' = acquires + 1
  /\ quarantine' = IF ok THEN quarantine \cup {b} ELSE quarantine \ {b}
  /\ UNCHANGED <<shelf, main, branches, prs, jobs, told, gear, equipping, equipped, deaths,
                 crossed>>

\* A whole repository: input, existence and number of skills are checked before
\* anything is touched.
AcquireRepo(b, ok) == Clones(b, ok)

\* One skill of a repository: only its directory is checked out, after its place
\* was looked up in the repository's own list.
AcquireSkill(b, ok) == Clones(b, ok)

-----------------------------------------------------------------------------
(* Steps that shelveMulti and unshelve have in common *)

At(j, stage) == jobs[j].stage = stage

Tell(j, what) == told' = [told EXCEPT ![j] = what]

Halt(j) ==
  /\ jobs' = [jobs EXCEPT ![j] = Ended(@)] /\ Tell(j, "failed")
  /\ UNCHANGED <<quarantine, shelf, main, branches, prs, gear, equipping, equipped, acquires,
                 deaths, crossed>>

\* A request starts, for the first time or again when the process died before its
\* outcome was recorded.
Starts(j, kind, items) ==
  /\ At(j, "idle") /\ items # {}
  /\ jobs[j].items # {} => kind = jobs[j].kind /\ items = jobs[j].items

\* No configuration, no list to be had, or one that does not fit: nothing is done.
RefuseJob(j, kind, items) ==
  /\ jobs' = [jobs EXCEPT ![j] = Ended([Idle EXCEPT !.kind = kind, !.items = items])]
  /\ Tell(j, "failed")
  /\ UNCHANGED <<quarantine, shelf, main, branches, prs, gear, equipping, equipped, acquires,
                 deaths, crossed>>

\* The list of the shared shelf is fetched; a missing one is an empty one.
TakeList(j, kind, items) ==
  /\ jobs' = [jobs EXCEPT ![j] = [Idle EXCEPT !.kind = kind, !.items = items,
                                              !.list = main.list, !.stage = "listed"]]
  /\ UNCHANGED <<quarantine, shelf, main, branches, prs, told, gear, equipping, equipped, acquires,
                 deaths, crossed>>

\* One shelved biblio names its branch for good; the other names carry the time.
Branch(j) ==
  IF jobs[j].kind = "shelve" /\ Cardinality(jobs[j].items) = 1
  THEN <<"shelve", jobs[j].items>> ELSE <<"timed", {}>>

\* The commit holds the new list over the tree of the base; what the request will
\* change is its difference from the base.
Commits(j, list) ==
  /\ jobs' = [jobs EXCEPT ![j].stage = "built", ![j].moved = {}, ![j].list = {},
                           ![j].plus = list \ main.list, ![j].minus = main.list \ list]
  /\ crossed' = (crossed \/ jobs[j].list # main.list)
  /\ UNCHANGED <<quarantine, shelf, main, branches, prs, told, gear, equipping, equipped, acquires,
                 deaths>>

PushBranch(j) ==
  /\ At(j, "built") /\ Branch(j) \notin branches
  /\ branches' = IF Branch(j)[1] = "timed" THEN branches ELSE branches \cup {Branch(j)}
  /\ jobs' = [jobs EXCEPT ![j].stage = "branched"]
  /\ UNCHANGED <<quarantine, shelf, main, prs, told, gear, equipping, equipped, acquires, deaths,
                 crossed>>

Request(j) ==
  [job |-> j, try |-> deaths, merged |-> FALSE, kind |-> jobs[j].kind, items |-> jobs[j].items,
   plus |-> jobs[j].plus, minus |-> jobs[j].minus]

OpenRequest(j) ==
  /\ At(j, "branched") /\ prs' = prs \cup {Request(j)}
  /\ jobs' = [jobs EXCEPT ![j].stage = "opened", ![j].plus = {}, ![j].minus = {}]
  /\ UNCHANGED <<quarantine, shelf, main, branches, told, gear, equipping, equipped, acquires,
                 deaths, crossed>>

-----------------------------------------------------------------------------
(* Shelving: shelveMulti *)

Shelves(j) == jobs[j].kind = "shelve"

RefuseShelving(j, items) == Starts(j, "shelve", items) /\ RefuseJob(j, "shelve", items)

\* A biblio that is on the list already fails the whole request.
FetchForShelving(j, items) ==
  /\ Starts(j, "shelve", items) /\ items \cap main.list = {}
  /\ TakeList(j, "shelve", items)

\* Item by item, replacing a copy already on the shelf.
Move(j, b) ==
  /\ At(j, "listed") /\ Shelves(j) /\ b \in jobs[j].items \ jobs[j].moved
  /\ b \in quarantine
  /\ quarantine' = quarantine \ {b} /\ shelf' = shelf \cup {b}
  /\ jobs' = [jobs EXCEPT ![j].moved = @ \cup {b}]
  /\ UNCHANGED <<main, branches, prs, told, gear, equipping, equipped, acquires, deaths, crossed>>

\* Not in quarantine, or the rename fails: what was moved stays moved.
MoveFails(j) == At(j, "listed") /\ Shelves(j) /\ jobs[j].moved # jobs[j].items /\ Halt(j)

AllMoved(j) == At(j, "listed") /\ Shelves(j) /\ jobs[j].moved = jobs[j].items

\* A directory that cannot be read, an empty one, or too many files.
ScanFails(j) == AllMoved(j) /\ Halt(j)

\* Base commit and tree of main, then blobs, tree and commit; the list written is
\* the one fetched at the start.
BuildShelving(j) == AllMoved(j) /\ Commits(j, jobs[j].list \cup jobs[j].items)

\* Any call to GitHub fails, or a file is binary; a branch that was made stays.
ShelvingFails(j) ==
  Shelves(j) /\ (AllMoved(j) \/ jobs[j].stage \in {"built", "branched", "opened"}) /\ Halt(j)

\* The reply to the pull request arrives; when it is lost, ShelvingFails.
HearShelved(j) ==
  /\ At(j, "opened") /\ Shelves(j)
  /\ jobs' = [jobs EXCEPT ![j] = Ended(@)] /\ Tell(j, "ok")
  /\ UNCHANGED <<quarantine, shelf, main, branches, prs, gear, equipping, equipped, acquires,
                 deaths, crossed>>

-----------------------------------------------------------------------------
(* Taking away: unshelve, for enkin and shokyaku *)

Removes(j) == jobs[j].kind # "shelve"

RefuseRemoval(j, kind, b) ==
  kind # "shelve" /\ Starts(j, kind, {b}) /\ RefuseJob(j, kind, {b})

FetchForRemoval(j, kind, b) ==
  /\ kind # "shelve" /\ Starts(j, kind, {b}) /\ b \in main.list
  /\ TakeList(j, kind, {b})

(* Fault: the list is written back as it was fetched. *)
BuildRemovalKeepsList(j) ==
  At(j, "listed") /\ Removes(j) /\ jobs[j].items \subseteq main.files /\ Commits(j, jobs[j].list)

\* The files are looked up in the tree of the base, and taken out of it together
\* with the entry of the list; without files the request ends as "not shelved".
BuildRemoval(j) ==
  /\ At(j, "listed") /\ Removes(j) /\ jobs[j].items \subseteq main.files
  /\ Commits(j, jobs[j].list \ jobs[j].items)

RemovalFails(j) ==
  Removes(j) /\ jobs[j].stage \in {"listed", "built", "branched", "opened"} /\ Halt(j)

\* Forbidding leaves the equipment where it is.
HearForbidden(j) ==
  /\ At(j, "opened") /\ jobs[j].kind = "enkin"
  /\ jobs' = [jobs EXCEPT ![j] = Ended(@)] /\ Tell(j, "ok")
  /\ UNCHANGED <<quarantine, shelf, main, branches, prs, gear, equipping, equipped, acquires,
                 deaths, crossed>>

\* Burning removes the directory and the rows, each unless that fails, and says so.
HearBurnt(j, dirGone, rowsGone) ==
  /\ At(j, "opened") /\ jobs[j].kind = "shokyaku"
  /\ jobs' = [jobs EXCEPT ![j] = Ended(@)]
  /\ Tell(j, IF dirGone /\ rowsGone THEN "ok" ELSE "warned")
  /\ gear' = IF dirGone THEN gear \ jobs[j].items ELSE gear
  /\ equipped' = IF rowsGone THEN equipped \ jobs[j].items ELSE equipped
  /\ UNCHANGED <<quarantine, shelf, main, branches, prs, equipping, acquires, deaths, crossed>>

-----------------------------------------------------------------------------
(* Equipping through Fugue *)

EquipList(b) ==
  /\ b \in main.list /\ equipping' = equipping \cup {b}
  /\ UNCHANGED <<quarantine, shelf, main, branches, prs, jobs, told, gear, equipped, acquires,
                 deaths, crossed>>

EquipInsert(b) ==
  /\ b \in equipping /\ equipping' = equipping \ {b} /\ equipped' = equipped \cup {b}
  /\ UNCHANGED <<quarantine, shelf, main, branches, prs, jobs, told, gear, acquires, deaths,
                 crossed>>

-----------------------------------------------------------------------------
(* The people and git; process death *)

\* A merge applies what the request changed since its base.
Merge(p) ==
  /\ p \in prs /\ ~p.merged
  /\ prs' = (prs \ {p}) \cup {[p EXCEPT !.merged = TRUE]}
  /\ main' = [files |-> IF p.kind = "shelve" THEN main.files \cup p.items
                        ELSE main.files \ p.items,
              list  |-> (main.list \cup p.plus) \ p.minus]
  /\ UNCHANGED <<quarantine, shelf, branches, jobs, told, gear, equipping, equipped, acquires,
                 deaths, crossed>>

DeleteBranch(br) ==
  /\ br \in branches /\ branches' = branches \ {br}
  /\ UNCHANGED <<quarantine, shelf, main, prs, jobs, told, gear, equipping, equipped, acquires,
                 deaths, crossed>>

\* Requests under way start over; equip requests are gone.
Die ==
  /\ deaths < MaxDeaths /\ deaths' = deaths + 1
  /\ jobs' = [j \in Job |-> IF jobs[j].stage \in {"idle", "done"} THEN jobs[j]
                            ELSE [Ended(jobs[j]) EXCEPT !.stage = "idle"]]
  /\ equipping' = {}
  /\ UNCHANGED <<quarantine, shelf, main, branches, prs, told, gear, equipped, acquires, crossed>>

LibraryNext ==
  \/ \E b \in Biblio :
        EquipList(b) \/ EquipInsert(b) \/ \E ok \in BOOLEAN : AcquireRepo(b, ok) \/ AcquireSkill(b, ok)
  \/ \E j \in Job :
        \/ \E items \in SUBSET Biblio : RefuseShelving(j, items) \/ FetchForShelving(j, items)
        \/ \E b \in Biblio :
              \/ Move(j, b)
              \/ \E kind \in Kind : RefuseRemoval(j, kind, b) \/ FetchForRemoval(j, kind, b)
        \/ MoveFails(j) \/ ScanFails(j) \/ BuildShelving(j) \/ ShelvingFails(j) \/ HearShelved(j)
        \/ BuildRemoval(j) \/ RemovalFails(j) \/ HearForbidden(j)
        \/ PushBranch(j) \/ OpenRequest(j)
        \/ \E d, r \in BOOLEAN : HearBurnt(j, d, r)
  \/ \E p \in prs : Merge(p)
  \/ \E br \in branches : DeleteBranch(br)
  \/ Die

LibrarySpec == LibraryInit /\ [][LibraryNext]_libraryVars

-----------------------------------------------------------------------------
(* Properties *)

Shelf == [files : SUBSET Biblio, list : SUBSET Biblio]
PullRequest ==
  [job : Job, try : 0..MaxDeaths, merged : BOOLEAN, kind : Kind, items : SUBSET Biblio,
   plus : SUBSET Biblio, minus : SUBSET Biblio]

\* Type of the state, and the branches that outlive a request are those of
\* single shelved biblios.
LibraryTypeOK ==
  /\ quarantine \subseteq Biblio /\ shelf \subseteq Biblio /\ main \in Shelf
  /\ branches \subseteq {<<"shelve", {b}>> : b \in Biblio} /\ prs \subseteq PullRequest
  /\ jobs \in [Job -> [kind : Kind, items : SUBSET Biblio, stage : Stage,
                        moved : SUBSET Biblio, list : SUBSET Biblio,
                        plus : SUBSET Biblio, minus : SUBSET Biblio]]
  /\ told \in [Job -> {"nothing", "ok", "warned", "failed"}]
  /\ gear \subseteq Biblio /\ equipping \subseteq Biblio /\ equipped \subseteq Biblio
  /\ acquires \in 0..MaxAcquires /\ deaths \in 0..MaxDeaths /\ crossed \in BOOLEAN

\* The list of the shared shelf names exactly the biblios whose files are there,
\* in whatever order people merge; the one exception is a merge that fell between
\* the fetch of the list and the read of the base (shelve.ts:519 and 661,
\* unshelve.ts:173 and 204): that request writes back a list without it.
ListMatchesFiles == ~crossed => main.list = main.files
=============================================================================
