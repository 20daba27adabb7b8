-------------------------------- MODULE Intake --------------------------------
(***************************************************************************)
(* How a challenge of the contest becomes one a solver can work on: the    *)
(* poll and challenge-sync.ts, PreparationService with its downloads,      *)
(* ChallengeStartService, the retry of a failed preparation, the deletion, *)
(* and what a restart finds (recovery.ts).                                 *)
(*                                                                         *)
(* Every challenge has one attachment, and the contest may replace it by   *)
(* another version; a version may have a URL and a size of its own. A job  *)
(* is an asynchronous function of the control plane: it holds what it read *)
(* before its await, and a step of it runs up to the next one.             *)
(***************************************************************************)
EXTENDS Integers, FiniteSets, LifecycleTable

CONSTANTS
  Challenges,
  Reloads,       \* the re-downloads started by polls that may run at a time (bound)
  Policies,      \* the start policies considered
  Place,         \* the order in which the table gives the challenges
  OffTopic,      \* challenges that may be of a category no solver takes
  Triage,        \* config workers.triageConcurrency
  MaxDownloads,  \* config storage.maxConcurrentDownloads
  MaxVersion,    \* the contest replaces a file up to this version (bound)
  Faults,        \* "transient", "fatal", "short", "disk", "crash"
  MaxFaults,     \* bound on their number
  Contests,      \* the contests considered: does the list show files, what does another version differ in
  Calm           \* may the contest leave a file alone during a poll or a download, may it not?

ASSUME IntakeAssumption ==
  /\ IsFiniteSet(Challenges) /\ IsFiniteSet(Reloads)
  /\ Reloads \cap {"prepare", "start", "again", "assign"} = {}
  /\ Policies \subseteq {"ON_DISCOVERY", "ON_PREPARATION", "ON_SOLVER_ASSIGNMENT"}
  /\ Policies # {}
  /\ Place \in [Challenges -> Nat]
  /\ OffTopic \subseteq Challenges
  /\ Triage \in Nat \ {0} /\ MaxDownloads \in Nat \ {0} /\ MaxVersion \in Nat \ {0}
  /\ Faults \subseteq {"transient", "fatal", "short", "disk", "crash"}
  /\ MaxFaults \in Nat
  /\ Contests \subseteq [listsFiles : BOOLEAN, change : SUBSET {"url", "size"}]
  /\ Calm \subseteq BOOLEAN /\ Calm # {}

Torn == -1    \* the content two writers of one file leave behind

Jobs == {"prepare", "start", "again", "assign"} \cup Reloads

Downloaders == {"prepare"} \cup Reloads

VARIABLES
  config,    \* challenge.startPolicy, and what the contest is like: Config
  up,        \* the control plane: down, started but not recovered, running
  remote,    \* the version of the file at the contest
  life,      \* challenges.lifecycle_status, "ABSENT" without a row
  start,     \* challenges.start_status
  att,       \* the attachment row: its status, URL and size (0: no row, no size)
  file,      \* the version on disk, 0: none
  part,      \* is there a .part file?
  job,       \* the jobs: where each stands, the version it downloads, the size it expects
  preparing, \* ControlPlane.preparing
  held,      \* prepareBackoff: the challenges whose retry has to wait
  tomb,      \* deletedRemoteIds
  poll,      \* where the running poll stands
  faults     \* faults so far

vars == <<config, up, remote, life, start, att, file, part, job, preparing, held, tomb, poll, faults>>

Lifecycles == {"ABSENT", "DISCOVERED", "PREPARING", "READY", "QUEUED", "ACTIVE", "ERROR", "UNSUPPORTED"}

InPlay == {"READY", "QUEUED", "ACTIVE"}

NoJob == [at |-> "no", ver |-> 0, size |-> 0, shared |-> FALSE]

NoRow == [status |-> "NONE", url |-> 0, size |-> 0]

Rest == [at |-> "idle", todo |-> {}, seen |-> [c \in Challenges |-> 0]]

(* What does not change while the control plane runs. A contest whose list  *)
(* shows the files says their sizes; one whose details show them (DASCTF,   *)
(* CTFd) does not.                                                          *)
Config == [policy : Policies, contest : Contests, calm : Calm, offTopic : SUBSET OffTopic]

ListsFiles == config.contest.listsFiles

Changes == config.contest.change

Url(v) == IF "url" \in Changes THEN v ELSE 1

Size(v) == IF "size" \in Changes THEN v ELSE 1

SaidSize(v) == IF ListsFiles THEN Size(v) ELSE 0

Init ==
  /\ config \in Config
  /\ up = "boot"
  /\ remote = [c \in Challenges |-> 1]
  /\ life = [c \in Challenges |-> "ABSENT"]
  /\ start = [c \in Challenges |-> "NOT_STARTED"]
  /\ att = [c \in Challenges |-> NoRow]
  /\ file = [c \in Challenges |-> 0]
  /\ part = [c \in Challenges |-> FALSE]
  /\ job = [c \in Challenges |-> [j \in Jobs |-> NoJob]]
  /\ preparing = {} /\ held = {} /\ tomb = {}
  /\ poll = Rest
  /\ faults = 0
-----------------------------------------------------------------------------
Ends(c, j) == job' = [job EXCEPT ![c][j] = NoJob]

Moves(c, j, at, ver, size) ==
  job' = [job EXCEPT ![c][j] = [at |-> at, ver |-> ver, size |-> size, shared |-> FALSE]]

Streaming(c) == {j \in Downloaders : job[c][j].at = "stream"}

(* The other writers of the .part file that write another version. Two      *)
(* writers of one version leave that version; that one of them may fail     *)
(* half way is left out.                                                    *)
Rivals(c, v) == {j \in Streaming(c) : job[c][j].ver # v}

(* this.downloads: the downloads past the gate. *)
Downloads == Cardinality({p \in Challenges \X Downloaders : job[p[1]][p[2]].at = "stream"})

Fault(kind) == kind \in Faults /\ faults < MaxFaults /\ faults' = faults + 1

(* Mutant of Upserted: the status of the row is kept. *)
UpsertedQuietly(row, v) == [row EXCEPT !.url = Url(v)]

(* The row after upsertRemoteAttachments saw version v: a file that changed *)
(* is to be downloaded again, keeps its path and, when the contest does not *)
(* say the size, the size it had.                                           *)
Upserted(row, v) ==
  IF row.url = Url(v) /\ SaidSize(v) \in {0, row.size} THEN row
  ELSE [status |-> "PENDING", url |-> Url(v), size |-> IF SaidSize(v) = 0 THEN row.size ELSE SaidSize(v)]

(* attachmentsDiffer: a size that is not said differs from every stored one. *)
Differs(row, v) == row.url # Url(v) \/ row.size # SaidSize(v)

(* Does downloadPending fetch the file of this row? *)
Needed(c, row) == ~(row.status = "DOWNLOADED" /\ file[c] # 0)
-----------------------------------------------------------------------------
(* The poll.                                                               *)

(* What a poll may launch when it finds the file changed: downloadPending, *)
(* which is not awaited. At the bound, the poll is not taken further.      *)
Launch(c, jobs) ==
  \E r \in Reloads : jobs[c][r] = NoJob /\ job' = [jobs EXCEPT ![c][r] = [NoJob EXCEPT !.at = "detail", !.ver = remote[c]]]

(* isDeletedRemoteId. *)
Known(c) == c \notin tomb

(* syncRemoteChallenge for an existing row whose file the contest shows. *)
SyncFile(c, v) ==
  IF Differs(att[c], v)
  THEN att' = [att EXCEPT ![c] = Upserted(@, v)] /\ Launch(c, job)
  ELSE UNCHANGED <<att, job>>

PollAsk ==
  /\ up \in {"boot", "up"} /\ poll = Rest
  /\ poll' = [at |-> "list", todo |-> Challenges, seen |-> remote]
  /\ UNCHANGED <<config, up, remote, life, start, att, file, part, job, preparing, held, tomb, faults>>

(* One entry of the list, as the contest saw it when it answered. *)
SyncEntry(c) ==
  /\ poll.at = "list" /\ c \in poll.todo
  /\ poll' = [poll EXCEPT !.todo = @ \ {c}]
  /\ \/ /\ ~Known(c)
        /\ UNCHANGED <<life, start, att, job>>
     \/ /\ Known(c) /\ life[c] = "ABSENT"
        /\ life' = [life EXCEPT ![c] = "DISCOVERED"]
        /\ start' = [start EXCEPT ![c] = "NOT_STARTED"]
        /\ att' = [att EXCEPT ![c] = IF ListsFiles THEN Upserted(NoRow, poll.seen[c]) ELSE NoRow]
        /\ UNCHANGED job
     \/ /\ Known(c) /\ life[c] # "ABSENT"
        /\ IF ListsFiles THEN SyncFile(c, poll.seen[c]) ELSE UNCHANGED <<att, job>>
        /\ UNCHANGED <<life, start>>
  /\ UNCHANGED <<config, up, remote, file, part, preparing, held, tomb, faults>>

(* The challenges in play, of which only the first eight are refreshed. *)
Live == {c \in Challenges : life[c] \in InPlay}

Refreshed == {c \in Live : Cardinality({d \in Live : Place[d] < Place[c]}) < 8}

(* #refreshLiveChallengeDetails begins, when the list does not show files. *)
PollDetails ==
  /\ poll.at = "list" /\ poll.todo = {}
  /\ poll' = [at |-> "detail", seen |-> remote, todo |-> IF ListsFiles THEN {} ELSE Refreshed]
  /\ UNCHANGED <<config, up, remote, life, start, att, file, part, job, preparing, held, tomb, faults>>

(* The detail of one of them, or no answer. *)
RefreshDetail(c) ==
  /\ poll.at = "detail" /\ c \in poll.todo
  /\ poll' = [poll EXCEPT !.todo = @ \ {c}, !.seen = remote]
  /\ \/ /\ Known(c) /\ life[c] # "ABSENT"
        /\ SyncFile(c, remote[c])
        /\ UNCHANGED faults
     \/ /\ ~Known(c) \/ life[c] = "ABSENT"
        /\ UNCHANGED <<att, job, faults>>
     \/ Fault("transient") /\ UNCHANGED <<att, job>>
  /\ UNCHANGED <<config, up, remote, life, start, file, part, preparing, held, tomb>>

(* The poll ends; under ON_DISCOVERY it launches the starts, which it does  *)
(* not await. The start of a challenge that a recovery reset may still be   *)
(* under way: there are at most two.                                        *)
PollEnd ==
  /\ poll.at = "detail" /\ poll.todo = {}
  /\ poll' = Rest
  /\ LET due == IF config.policy = "ON_DISCOVERY"
                THEN {c \in Challenges : life[c] # "ABSENT" /\ start[c] = "NOT_STARTED"} ELSE {}
         free(c) == IF job[c]["start"] = NoJob THEN "start" ELSE "again"
     IN /\ start' = [c \in Challenges |-> IF c \in due THEN "STARTING" ELSE start[c]]
        /\ job' = [c \in Challenges |->
                     IF c \in due THEN [job[c] EXCEPT ![free(c)] = [NoJob EXCEPT !.at = "ensure"]] ELSE job[c]]
  /\ UNCHANGED <<config, up, remote, life, att, file, part, preparing, held, tomb, faults>>

(* listChallenges fails. *)
PollFails ==
  /\ poll.at = "list" /\ poll.todo = Challenges
  /\ Fault("transient")
  /\ poll' = Rest
  /\ UNCHANGED <<config, up, remote, life, start, att, file, part, job, preparing, held, tomb>>
-----------------------------------------------------------------------------
(* Starting a challenge at the contest (ChallengeStartService.ensure).      *)

(* What ensure does before its await, for a caller of the right phase. *)
Due(c, phase) == config.policy = phase

NeedsStart(c, phase) == Due(c, phase) /\ start[c] = "NOT_STARTED"

RefusesStart(c, phase) == Due(c, phase) /\ start[c] = "FAILED"

PassesStart(c, phase) == ~Due(c, phase) \/ start[c] \in {"STARTED", "STARTING"}

(* preparation.prepare up to its first await. *)
BeginPreparation(c) ==
  /\ life' = [life EXCEPT ![c] = Target(@, "PREPARE_START")]
  /\ Moves(c, "prepare", "detail", remote[c], 0)

(* #startSolver after the start. *)
Assign(c) ==
  /\ life' = [life EXCEPT ![c] = Target(@, "SCHEDULE")]
  /\ Ends(c, "assign")

(* The contest answers startChallenge. A job whose challenge was deleted    *)
(* meanwhile goes on and changes no row.                                    *)
StartSucceeds(c, j) ==
  /\ up # "down" /\ job[c][j].at = "ensure"
  /\ start' = IF life[c] = "ABSENT" THEN start ELSE [start EXCEPT ![c] = "STARTED"]
  /\ CASE life[c] = "ABSENT" -> Ends(c, j) /\ UNCHANGED <<life, preparing>>
       [] j = "prepare" /\ life[c] # "ABSENT" -> BeginPreparation(c) /\ UNCHANGED preparing
       [] j = "assign" /\ life[c] # "ABSENT" -> Assign(c) /\ UNCHANGED preparing
       [] OTHER -> Ends(c, j) /\ UNCHANGED <<life, preparing>>
  /\ UNCHANGED <<config, up, remote, att, file, part, held, tomb, poll, faults>>

(* A start that failed before the preparation began leaves the challenge    *)
(* DISCOVERED: no wait is noted, the next tick tries again.                 *)
StartFails(c, j, kind) ==
  /\ up # "down" /\ job[c][j].at = "ensure"
  /\ kind \in {"transient", "fatal"} /\ Fault(kind)
  /\ start' = [start EXCEPT ![c] = IF life[c] = "ABSENT" THEN @
                                   ELSE IF kind = "fatal" THEN "FAILED" ELSE "NOT_STARTED"]
  /\ Ends(c, j)
  /\ preparing' = IF j = "prepare" THEN preparing \ {c} ELSE preparing
  /\ UNCHANGED <<config, up, remote, life, att, file, part, held, tomb, poll>>
-----------------------------------------------------------------------------
(* Preparation.                                                            *)

(* The end of #prepare: the wait is forgotten, a challenge still PREPARING  *)
(* becomes READY.                                                           *)
PrepareSucceeds(c) ==
  /\ life' = [life EXCEPT ![c] = Target(@, "PREPARE_DONE")]
  /\ preparing' = preparing \ {c}
  /\ held' = held \ {c}

(* Mutant of PrepareThrows: the challenge stays where it is. *)
PrepareSwallowed(c, kind) == UNCHANGED <<life, held>> /\ preparing' = preparing \ {c}

(* Mutant of PrepareThrows: no finally. *)
PrepareNotForgotten(c, kind) ==
  /\ life' = [life EXCEPT ![c] = Target(@, IF kind = "fatal" THEN "PREPARE_FAILED" ELSE "PREPARE_RETRY")]
  /\ UNCHANGED <<preparing, held>>

(* Mutant of PrepareThrows: an incomplete preparation will do. *)
PrepareShrugged(c, kind) == PrepareSucceeds(c)

(* The catch of #prepare: only a challenge that is PREPARING is sent back,  *)
(* to wait and try again, or to ERROR.                                      *)
PrepareThrows(c, kind) ==
  /\ preparing' = preparing \ {c}
  /\ IF life[c] = "PREPARING"
     THEN /\ life' = [life EXCEPT ![c] = Target(@, IF kind = "fatal" THEN "PREPARE_FAILED" ELSE "PREPARE_RETRY")]
          /\ held' = IF kind = "fatal" THEN held ELSE held \cup {c}
     ELSE UNCHANGED <<life, held>>

(* A job that downloads ends well, or with an error: the one of a poll is   *)
(* only logged.                                                             *)
Finishes(c, j) ==
  /\ Ends(c, j)
  /\ IF j = "prepare" THEN PrepareSucceeds(c) ELSE UNCHANGED <<life, preparing, held>>

Throws(c, j, kind) ==
  /\ Ends(c, j)
  /\ IF j = "prepare" THEN PrepareThrows(c, kind) ELSE UNCHANGED <<life, preparing, held>>

(* The first part of schedulerTick looks at the first Triage discovered     *)
(* challenges only, those it then skips included.                           *)
Looked(c) == Cardinality({d \in Challenges : life[d] = "DISCOVERED" /\ Place[d] < Place[c]}) < Triage

Prepare(c) ==
  /\ up = "up" /\ life[c] = "DISCOVERED" /\ Looked(c)
  /\ c \notin held /\ c \notin preparing /\ c \notin config.offTopic
  /\ job[c]["prepare"] = NoJob
  /\ \/ /\ NeedsStart(c, "ON_PREPARATION")
        /\ start' = [start EXCEPT ![c] = "STARTING"]
        /\ Moves(c, "prepare", "ensure", 0, 0)
        /\ UNCHANGED life
     \/ /\ PassesStart(c, "ON_PREPARATION")
        /\ BeginPreparation(c)
        /\ UNCHANGED start
  /\ preparing' = preparing \cup {c}
  /\ UNCHANGED <<config, up, remote, att, file, part, held, tomb, poll, faults>>

Unsupported(c) ==
  /\ up = "up" /\ life[c] = "DISCOVERED" /\ Looked(c)
  /\ c \notin held /\ c \notin preparing /\ c \in config.offTopic
  /\ life' = [life EXCEPT ![c] = Target(@, "UNSUPPORTED")]
  /\ UNCHANGED <<config, up, remote, start, att, file, part, job, preparing, held, tomb, poll, faults>>

BackoffEnds(c) ==
  /\ c \in held
  /\ held' = held \ {c}
  /\ UNCHANGED <<config, up, remote, life, start, att, file, part, job, preparing, tomb, poll, faults>>

(* getChallenge answers: what the contest had when it was asked, or has     *)
(* now. A preparation upserts it; a re-download takes the row as it is.     *)
DetailArrives(c, j) ==
  /\ up # "down" /\ j \in Downloaders /\ job[c][j].at = "detail"
  /\ \E v \in {job[c][j].ver, remote[c]} :
       LET row == IF j = "prepare" THEN Upserted(att[c], v) ELSE att[c]
       IN /\ att' = IF life[c] = "ABSENT" THEN att ELSE [att EXCEPT ![c] = row]
          /\ CASE life[c] = "ABSENT" -> Throws(c, j, "fatal")
               [] life[c] # "ABSENT" /\ Needed(c, row) -> Moves(c, j, "gate", row.url, row.size) /\ UNCHANGED <<life, preparing, held>>
               [] OTHER -> Finishes(c, j)
  /\ UNCHANGED <<config, up, remote, start, file, part, tomb, poll, faults>>

DetailFails(c, j, kind) ==
  /\ up # "down" /\ j \in Downloaders /\ job[c][j].at = "detail"
  /\ kind \in {"transient", "fatal"} /\ Fault(kind)
  /\ Throws(c, j, kind)
  /\ UNCHANGED <<config, up, remote, start, att, file, part, tomb, poll>>

(* What the contest sends for the URL a job holds: when a replaced file     *)
(* keeps its URL, what it has now.                                          *)
Served(c, j) == IF "url" \in Changes THEN job[c][j].ver ELSE remote[c]

(* #downloadOne past the gate: the .part file is opened, whoever writes it. *)
DownloadBegins(c, j) ==
  /\ up # "down" /\ j \in Downloaders /\ job[c][j].at = "gate" /\ Downloads < MaxDownloads
  /\ IF life[c] = "ABSENT"    \* no workspace any more
     THEN Throws(c, j, "fatal") /\ UNCHANGED <<att, part>>
     ELSE /\ att' = [att EXCEPT ![c].status = "DOWNLOADING"]
          /\ part' = [part EXCEPT ![c] = TRUE]
          /\ LET v == Served(c, j)
             IN job' = [job EXCEPT ![c] = [k \in Jobs |->
                          IF k = j THEN [@[k] EXCEPT !.at = "stream", !.ver = v, !.shared = Rivals(c, v) # {}]
                          ELSE IF k \in Rivals(c, v) THEN [@[k] EXCEPT !.shared = TRUE] ELSE @[k]]]
          /\ UNCHANGED <<life, preparing, held>>
  /\ UNCHANGED <<config, up, remote, start, file, tomb, poll, faults>>

NoDisk(c, j) ==
  /\ up # "down" /\ j \in Downloaders /\ job[c][j].at = "gate" /\ Downloads < MaxDownloads
  /\ life[c] # "ABSENT" /\ Fault("disk")
  /\ att' = [att EXCEPT ![c].status = "FAILED"]
  /\ Throws(c, j, "disk")
  /\ UNCHANGED <<config, up, remote, start, file, part, tomb, poll>>

(* The row of a completed download has the size that was counted, and keeps *)
(* the URL the last poll gave it.                                           *)
Complete(c, v) == att' = [att EXCEPT ![c].status = "DOWNLOADED", ![c].size = Size(v)]

(* Another size than the job expects, if it expects one. *)
Mismatch(c, j) == job[c][j].size \notin {0, Size(job[c][j].ver)}

(* The download is complete: the .part file, if it is still there, becomes  *)
(* the file; what two writers left in it may be neither version.            *)
DownloadCompletes(c, j) ==
  /\ up # "down" /\ job[c][j].at = "stream"
  /\ ~Mismatch(c, j)
  /\ IF part[c]
     THEN /\ part' = [part EXCEPT ![c] = FALSE]
          /\ file' \in {[file EXCEPT ![c] = v] :
                          v \in {job[c][j].ver} \cup (IF job[c][j].shared THEN {Torn} ELSE {})}
          /\ IF life[c] = "ABSENT" THEN UNCHANGED att ELSE Complete(c, job[c][j].ver)
          /\ Finishes(c, j)
     ELSE Throws(c, j, "transient") /\ UNCHANGED <<att, file, part>>
  /\ UNCHANGED <<config, up, remote, start, tomb, poll, faults>>

(* What came is not of the size the row had when the download was listed:   *)
(* it is thrown away. Every retry of the same row ends the same way.        *)
SizeMismatch(c, j) ==
  /\ up # "down" /\ job[c][j].at = "stream" /\ Mismatch(c, j)
  /\ part' = [part EXCEPT ![c] = FALSE]
  /\ att' = IF life[c] = "ABSENT" THEN att ELSE [att EXCEPT ![c].status = "FAILED"]
  /\ Throws(c, j, "transient")
  /\ UNCHANGED <<config, up, remote, start, file, tomb, poll, faults>>

(* The contest fails, or sends fewer bytes than it announced. *)
DownloadFails(c, j, kind) ==
  /\ up # "down" /\ job[c][j].at = "stream"
  /\ kind \in {"transient", "fatal", "short"} /\ Fault(kind)
  /\ part' = [part EXCEPT ![c] = FALSE]
  /\ att' = IF life[c] = "ABSENT" THEN att ELSE [att EXCEPT ![c].status = "FAILED"]
  /\ Throws(c, j, kind)
  /\ UNCHANGED <<config, up, remote, start, file, tomb, poll>>
-----------------------------------------------------------------------------
(* The way to the solver.                                                  *)

Queue(c) ==
  /\ up = "up" /\ life[c] = "READY"
  /\ life' = [life EXCEPT ![c] = Target(@, "QUEUE")]
  /\ UNCHANGED <<config, up, remote, start, att, file, part, job, preparing, held, tomb, poll, faults>>

(* #startSolver: one at a time; with a start that failed for good it fails  *)
(* at every tick and changes nothing.                                       *)
StartSolver(c) ==
  /\ up = "up" /\ life[c] = "QUEUED"
  /\ \A d \in Challenges : job[d]["assign"] = NoJob
  /\ \/ /\ NeedsStart(c, "ON_SOLVER_ASSIGNMENT")
        /\ start' = [start EXCEPT ![c] = "STARTING"]
        /\ Moves(c, "assign", "ensure", 0, 0)
        /\ UNCHANGED life
     \/ /\ PassesStart(c, "ON_SOLVER_ASSIGNMENT")
        /\ Assign(c)
        /\ UNCHANGED start
  /\ UNCHANGED <<config, up, remote, att, file, part, preparing, held, tomb, poll, faults>>
-----------------------------------------------------------------------------
(* The human, the contest, the process.                                    *)

RetryPrepare(c) ==
  /\ up # "down" /\ life[c] = "ERROR"
  /\ life' = [life EXCEPT ![c] = Target(@, "RETRY_PREPARE")]
  /\ att' = [att EXCEPT ![c].status = IF @ \in {"FAILED", "PENDING", "DOWNLOADING"} THEN "PENDING" ELSE @]
  /\ preparing' = preparing \ {c} /\ held' = held \ {c}
  /\ UNCHANGED <<config, up, remote, start, file, part, job, tomb, poll, faults>>

(* deleteChallenge after its 200 ms: the tombstone, the rows, the files. *)
Delete(c) ==
  /\ up # "down" /\ life[c] # "ABSENT"
  /\ tomb' = tomb \cup {c}
  /\ life' = [life EXCEPT ![c] = "ABSENT"]
  /\ start' = [start EXCEPT ![c] = "NOT_STARTED"]
  /\ att' = [att EXCEPT ![c] = NoRow]
  /\ file' = [file EXCEPT ![c] = 0]
  /\ part' = [part EXCEPT ![c] = FALSE]
  /\ preparing' = preparing \ {c}
  /\ UNCHANGED <<config, up, remote, job, held, poll, faults>>

(* The contest replaces the file (external). *)
Replace(c) ==
  /\ remote[c] < MaxVersion
  /\ config.calm => poll = Rest /\ \A j \in Downloaders : job[c][j].at \notin {"detail", "gate", "stream"}
  /\ remote' = [remote EXCEPT ![c] = @ + 1]
  /\ UNCHANGED <<config, up, life, start, att, file, part, job, preparing, held, tomb, poll, faults>>

(* What the control plane keeps in memory is lost. *)
Crash ==
  /\ up # "down" /\ Fault("crash")
  /\ up' = "down"
  /\ job' = [c \in Challenges |-> [j \in Jobs |-> NoJob]]
  /\ preparing' = {} /\ held' = {}
  /\ poll' = Rest
  /\ UNCHANGED <<config, remote, life, start, att, file, part, tomb>>

(* A restored contest profile is polled before the recovery. *)
Boot ==
  /\ up = "down"
  /\ up' = "boot"
  /\ UNCHANGED <<config, remote, life, start, att, file, part, job, preparing, held, tomb, poll, faults>>

Recovered(s) ==
  CASE s = "PREPARING" -> Target(s, "RECOVER_PREPARING")
    [] s = "ACTIVE" -> Target(s, "RECOVER_ACTIVE")
    [] OTHER -> s

(* RecoveryManager.start, for the states modelled here. *)
Recover ==
  /\ up = "boot"
  /\ up' = "up"
  /\ att' = [c \in Challenges |-> [att[c] EXCEPT !.status = IF @ = "DOWNLOADING" THEN "PENDING" ELSE @]]
  /\ part' = [c \in Challenges |-> FALSE]
  /\ start' = [c \in Challenges |-> IF start[c] = "STARTING" THEN "NOT_STARTED" ELSE start[c]]
  /\ life' = [c \in Challenges |-> Recovered(life[c])]
  /\ UNCHANGED <<config, remote, file, job, preparing, held, tomb, poll, faults>>
-----------------------------------------------------------------------------
Contest(c) ==
  \/ \E j \in Jobs : StartSucceeds(c, j) \/ \E k \in Faults : StartFails(c, j, k)
  \/ \E j \in Downloaders : DetailArrives(c, j) \/ DownloadCompletes(c, j) \/ SizeMismatch(c, j)
  \/ \E j \in Downloaders, k \in Faults : DetailFails(c, j, k) \/ DownloadFails(c, j, k)

Gate(c) == \E j \in Downloaders : DownloadBegins(c, j) \/ NoDisk(c, j)

Polling == PollAsk \/ PollDetails \/ PollEnd \/ PollFails \/ \E c \in Challenges : SyncEntry(c) \/ RefreshDetail(c)

Tick(c) == Prepare(c) \/ Unsupported(c) \/ Queue(c) \/ StartSolver(c)

Human(c) == RetryPrepare(c) \/ Delete(c)

Next ==
  \/ Polling \/ Boot \/ Recover \/ Crash
  \/ \E c \in Challenges : Contest(c) \/ Gate(c) \/ Tick(c) \/ BackoffEnds(c) \/ Human(c) \/ Replace(c)

Spec == Init /\ [][Next]_vars

FairSpec ==
  /\ Spec
  /\ WF_vars(Polling) /\ WF_vars(Boot) /\ WF_vars(Recover)
  /\ \A c \in Challenges : WF_vars(Contest(c)) /\ WF_vars(Gate(c)) /\ WF_vars(Tick(c)) /\ WF_vars(BackoffEnds(c))
-----------------------------------------------------------------------------
(* Properties.                                                             *)

(* Type invariant. *)
TypeOK ==
  /\ config \in Config
  /\ up \in {"down", "boot", "up"}
  /\ remote \in [Challenges -> 1..MaxVersion]
  /\ life \in [Challenges -> Lifecycles]
  /\ start \in [Challenges -> {"NOT_STARTED", "STARTING", "STARTED", "FAILED"}]
  /\ att \in [Challenges -> [status : {"NONE", "PENDING", "DOWNLOADING", "DOWNLOADED", "FAILED"},
                             url : 0..MaxVersion, size : 0..MaxVersion]]
  /\ file \in [Challenges -> {Torn} \cup 0..MaxVersion]
  /\ part \in [Challenges -> BOOLEAN]
  /\ job \in [Challenges -> [Jobs -> [at : {"no", "ensure", "detail", "gate", "stream"},
                                     ver : 0..MaxVersion, size : 0..MaxVersion, shared : BOOLEAN]]]
  /\ preparing \subseteq Challenges /\ held \subseteq Challenges /\ tomb \subseteq Challenges
  /\ poll \in [at : {"idle", "list", "detail"}, todo : SUBSET Challenges,
               seen : [Challenges -> 0..MaxVersion]]
  /\ faults \in 0..MaxFaults

(* A challenge is PREPARING only as long as a #prepare is on its way to     *)
(* decide about it, or until the recovery resets it: no failure of the      *)
(* contest, the disk or the human's deletion leaves it there for good.      *)
PreparingIsDriven ==
  \A c \in Challenges :
    life[c] = "PREPARING" /\ up = "up" => c \in preparing /\ job[c]["prepare"].at \in {"detail", "gate", "stream"}

(* From READY on the file of a challenge is on disk, whatever failed, was   *)
(* retried, replaced or interrupted on the way there.                       *)
WorksWithFiles == \A c \in Challenges : life[c] \in InPlay => file[c] # 0

(* Unless challenges are started on discovery, a solver works only on a     *)
(* challenge the contest said it started.                                   *)
WorkIsStarted ==
  config.policy # "ON_DISCOVERY" => \A c \in Challenges : life[c] = "ACTIVE" => start[c] = "STARTED"

(* What the human deleted does not come back: not by a poll whose list was  *)
(* asked for before, not by a preparation or a download under way.          *)
DeletedStaysDeleted ==
  \A c \in tomb : life[c] = "ABSENT" /\ att[c] = NoRow /\ file[c] = 0

(* An attachment marked DOWNLOADED holds the version its row names once no  *)
(* download of it is under way (".part file -> atomic rename").             *)
DownloadedIsNamed ==
  \A c \in Challenges :
    att[c].status = "DOWNLOADED" /\ Streaming(c) = {} => file[c] # Torn /\ Url(file[c]) = att[c].url

(* Does the contest show that it replaced a file? *)
Shown == "url" \in Changes \/ (ListsFiles /\ "size" \in Changes)

Outdated(c) == config.calm /\ Shown /\ life[c] \in InPlay /\ file[c] # remote[c]

(* A challenge in play does not keep an outdated file that its row calls    *)
(* DOWNLOADED, once the contest, which shows that it replaced the file and  *)
(* does not do so during a poll or a download, has stopped replacing it. A  *)
(* contest that does not say sizes is asked again at every poll: there only *)
(* a file of another size stays out of reach.                               *)
NotSilentlyStale ==
  \A c \in Challenges :
    <>[](Outdated(c) => att[c].status # "DOWNLOADED" /\ (ListsFiles \/ "size" \in Changes))

(* Not so: a replaced file that the contest shows gets down in the end.     *)
ReplacedArrives == \A c \in Challenges : <>[](faults = 0 => ~Outdated(c))

(* Not so: a poll fetches a file again only when the contest changed it.    *)
RefetchedOnChange ==
  [][\A c \in Challenges, r \in Reloads : job[c][r] = NoJob /\ job'[c][r] # NoJob => att'[c] # att[c]]_vars

(* A discovered challenge gets ready, or ends where the human is asked: not *)
(* by a start that failed for good, which leaves it DISCOVERED.             *)
GetsPrepared ==
  \A c \in Challenges :
    life[c] = "DISCOVERED" ~> life[c] \in InPlay \cup {"ERROR", "UNSUPPORTED", "ABSENT"} \/ start[c] = "FAILED"

(* What every preparation, poll, deletion, crash and retry keeps: somebody  *)
(* drives a PREPARING challenge, a solver works on a started one, and the   *)
(* deleted stays deleted.                                                   *)
PreparationInv == TypeOK /\ PreparingIsDriven /\ WorkIsStarted /\ DeletedStaysDeleted
=============================================================================
