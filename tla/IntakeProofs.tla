----------------------------- MODULE IntakeProofs -----------------------------
(***************************************************************************)
(* Proofs about Intake, for any number of challenges, re-downloads, faults *)
(* and versions of a file: a PREPARING challenge is driven, a solver works *)
(* on a challenge that was started and whose file is there, the deleted    *)
(* stays deleted.                                                          *)
(***************************************************************************)
EXTENDS Intake, TLAPS

Versions == 0..MaxVersion

JobRow == [at : {"no", "ensure", "detail", "gate", "stream"}, ver : Versions, size : Versions, shared : BOOLEAN]

AttRow == [status : {"NONE", "PENDING", "DOWNLOADING", "DOWNLOADED", "FAILED"}, url : Versions, size : Versions]

StartStatus == {"NOT_STARTED", "STARTING", "STARTED", "FAILED"}

PollRow == [at : {"idle", "list", "detail"}, todo : SUBSET Challenges, seen : [Challenges -> Versions]]

At(c, j) == job[c][j].at

(* A #prepare runs while the process does, knows where its challenge is     *)
(* (unless the human has deleted it), and has it in the set the tick skips. *)
PrepareFits(c) ==
  At(c, "prepare") # "no" =>
    /\ up = "up"
    /\ life[c] # "ABSENT" =>
         /\ c \in preparing
         /\ life[c] = IF At(c, "prepare") = "ensure" THEN "DISCOVERED" ELSE "PREPARING"
    /\ At(c, "prepare") = "ensure" => config.policy = "ON_PREPARATION"

Driven(c) ==
  life[c] = "PREPARING" /\ up = "up" => At(c, "prepare") \in {"detail", "gate", "stream"}

AssignFits(c) ==
  At(c, "assign") # "no" =>
    up = "up" /\ config.policy = "ON_SOLVER_ASSIGNMENT" /\ life[c] \in {"ABSENT", "QUEUED"}

(* No start of the poll is under way. *)
StartsIdle(c) == At(c, "start") = "no" /\ At(c, "again") = "no"

OthersFit(c) ==
  /\ ~StartsIdle(c) => config.policy = "ON_DISCOVERY"
  /\ \A r \in Reloads : At(c, r) # "ensure"

(* A start under way belongs to a job, until a restart resets it. *)
StartingFits(c) ==
  up = "up" /\ start[c] = "STARTING" =>
    /\ config.policy = "ON_PREPARATION" => At(c, "prepare") = "ensure"
    /\ config.policy = "ON_SOLVER_ASSIGNMENT" => At(c, "assign") = "ensure"

StartedFits(c) ==
  /\ config.policy = "ON_PREPARATION" /\ life[c] \in {"PREPARING", "READY", "QUEUED", "ACTIVE"}
       => start[c] = "STARTED"
  /\ config.policy = "ON_SOLVER_ASSIGNMENT" /\ life[c] = "ACTIVE" => start[c] = "STARTED"

Tombed(c) ==
  c \in tomb =>
    life[c] = "ABSENT" /\ start[c] = "NOT_STARTED" /\ att[c] = NoRow /\ file[c] = 0 /\ ~part[c]

(* A challenge that was never seen has no jobs. *)
Unseen(c) ==
  life[c] = "ABSENT" /\ c \notin tomb => At(c, "prepare") = "no" /\ At(c, "assign") = "no"

Local(c) ==
  /\ PrepareFits(c) /\ Driven(c) /\ AssignFits(c) /\ OthersFit(c)
  /\ StartingFits(c) /\ StartedFits(c) /\ Tombed(c) /\ Unseen(c)

IInv == TypeOK /\ \A c \in Challenges : Local(c)
-----------------------------------------------------------------------------
LEMMA Names ==
  /\ "prepare" \notin Reloads /\ "start" \notin Reloads /\ "again" \notin Reloads /\ "assign" \notin Reloads
  /\ Jobs = {"prepare", "start", "again", "assign"} \cup Reloads
  /\ Downloaders \subseteq Jobs
  /\ MaxVersion \in Nat \ {0} /\ MaxFaults \in Nat
BY IntakeAssumption DEF Jobs, Downloaders

(* The transitions of the table that an intake takes. *)
LEMMA Targets ==
  /\ Target("DISCOVERED", "PREPARE_START") = "PREPARING"
  /\ Target("DISCOVERED", "UNSUPPORTED") = "UNSUPPORTED"
  /\ Target("PREPARING", "PREPARE_DONE") = "READY"
  /\ Target("PREPARING", "PREPARE_FAILED") = "ERROR"
  /\ Target("PREPARING", "PREPARE_RETRY") = "DISCOVERED"
  /\ Target("PREPARING", "RECOVER_PREPARING") = "DISCOVERED"
  /\ Target("READY", "QUEUE") = "QUEUED"
  /\ Target("QUEUED", "SCHEDULE") = "ACTIVE"
  /\ Target("ACTIVE", "RECOVER_ACTIVE") = "QUEUED"
  /\ Target("ERROR", "RETRY_PREPARE") = "DISCOVERED"
  /\ \A e : Target("ABSENT", e) = "ABSENT"
BY DEF Target, Allowed, T

LEMMA Types ==
  ASSUME TypeOK
  PROVE  /\ job \in [Challenges -> [Jobs -> JobRow]]
         /\ att \in [Challenges -> AttRow]
         /\ start \in [Challenges -> StartStatus]
         /\ poll \in PollRow
         /\ life \in [Challenges -> Lifecycles]
         /\ NoJob \in JobRow /\ NoRow \in AttRow /\ Rest \in PollRow
<1>1. 0 \in Versions
  BY Names DEF Versions
<1>2. NoJob \in JobRow /\ NoRow \in AttRow
  BY <1>1 DEF NoJob, NoRow, JobRow, AttRow
<1>3. Rest \in PollRow
  BY <1>1 DEF Rest, PollRow
<1>4. QED BY <1>2, <1>3 DEF TypeOK, JobRow, AttRow, StartStatus, PollRow, Versions

(* What is so for all challenges but one stays so.                          *)
OnlyAt(c) ==
  /\ UNCHANGED <<config, up>>
  /\ \A d \in Challenges \ {c} :
       /\ life'[d] = life[d] /\ start'[d] = start[d] /\ att'[d] = att[d]
       /\ file'[d] = file[d] /\ part'[d] = part[d] /\ job'[d] = job[d]
       /\ d \in preparing' <=> d \in preparing
       /\ d \in tomb' <=> d \in tomb

LEMMA OthersKeep ==
  ASSUME IInv, NEW c \in Challenges, OnlyAt(c), TypeOK', Local(c)'
  PROVE  IInv'
<1>1. ASSUME NEW d \in Challenges, d # c
      PROVE  Local(d)'
  <2>1. Local(d)
    BY DEF IInv
  <2>2. /\ config' = config /\ up' = up
        /\ life'[d] = life[d] /\ start'[d] = start[d] /\ att'[d] = att[d]
        /\ file'[d] = file[d] /\ part'[d] = part[d]
        /\ d \in preparing' <=> d \in preparing
        /\ d \in tomb' <=> d \in tomb
        /\ \A j : At(d, j)' = At(d, j)
    BY <1>1 DEF OnlyAt, At
  <2>3. QED
    BY <2>1, <2>2 DEF Local, PrepareFits, Driven, AssignFits, OthersFit, StartingFits,
       StartedFits, Tombed, Unseen, StartsIdle
<1>2. QED BY <1>1 DEF IInv

(* The sizes, URLs and rows a poll or a detail gives. *)
LEMMA Shows ==
  ASSUME NEW v \in Versions
  PROVE  /\ Url(v) \in Versions /\ Size(v) \in Versions /\ SaidSize(v) \in Versions
         /\ v # 0 => Url(v) # 0
         /\ \A row \in AttRow : Upserted(row, v) \in AttRow
         /\ \A row \in AttRow : v # 0 => Upserted(row, v).url # 0
<1>1. 0 \in Versions /\ 1 \in Versions
  BY Names DEF Versions
<1>2. /\ Url(v) \in Versions /\ Size(v) \in Versions /\ SaidSize(v) \in Versions
      /\ v # 0 => Url(v) # 0
  BY <1>1 DEF Url, Size, SaidSize
<1>3. ASSUME NEW row \in AttRow
      PROVE  Upserted(row, v) \in AttRow /\ (v # 0 => Upserted(row, v).url # 0)
  <2>1. CASE Upserted(row, v) = row /\ row.url = Url(v)
    BY <1>2, <2>1
  <2>2. CASE \E z \in Versions : Upserted(row, v) = [status |-> "PENDING", url |-> Url(v), size |-> z]
    BY <1>2, <2>2 DEF AttRow
  <2>3. row.size \in Versions
    BY DEF AttRow
  <2>4. QED BY <1>2, <2>1, <2>2, <2>3 DEF Upserted
<1>4. QED BY <1>2, <1>3

(* Jobs of one challenge. *)
LEMMA JobWritten ==
  ASSUME TypeOK, NEW c \in Challenges, NEW j \in Jobs, NEW row \in JobRow,
         job' = [job EXCEPT ![c][j] = row]
  PROVE  /\ job' \in [Challenges -> [Jobs -> JobRow]]
         /\ At(c, j)' = row.at
         /\ \A k \in Jobs \ {j} : At(c, k)' = At(c, k)
         /\ \A d \in Challenges \ {c} : job'[d] = job[d]
BY Types DEF At

LEMMA JobEnds ==
  ASSUME TypeOK, NEW c \in Challenges, NEW j \in Jobs, Ends(c, j)
  PROVE  /\ job' \in [Challenges -> [Jobs -> JobRow]]
         /\ At(c, j)' = "no"
         /\ \A k \in Jobs \ {j} : At(c, k)' = At(c, k)
         /\ \A d \in Challenges \ {c} : job'[d] = job[d]
<1>1. NoJob \in JobRow /\ NoJob.at = "no"
  BY Types DEF NoJob
<1>2. QED BY <1>1, JobWritten DEF Ends

LEMMA JobMoves ==
  ASSUME TypeOK, NEW c \in Challenges, NEW j \in Jobs, NEW v \in Versions, NEW s \in Versions,
         NEW at \in {"no", "ensure", "detail", "gate", "stream"}, Moves(c, j, at, v, s)
  PROVE  /\ job' \in [Challenges -> [Jobs -> JobRow]]
         /\ At(c, j)' = at
         /\ \A k \in Jobs \ {j} : At(c, k)' = At(c, k)
         /\ \A d \in Challenges \ {c} : job'[d] = job[d]
<1> DEFINE row == [at |-> at, ver |-> v, size |-> s, shared |-> FALSE]
<1>1. row \in JobRow /\ row.at = at
  BY DEF JobRow
<1>2. job' = [job EXCEPT ![c][j] = row]
  BY DEF Moves
<1> HIDE DEF row
<1>3. QED BY <1>1, <1>2, JobWritten

(* The catch of #prepare, and its end, for a job of the downloads that is   *)
(* at one of its awaits.                                                    *)
LEMMA ThrowsKeeps ==
  ASSUME IInv, up # "down", NEW c \in Challenges, NEW j \in Downloaders, NEW kind, Throws(c, j, kind),
         At(c, j) \in {"detail", "gate", "stream"}
  PROVE  /\ job' \in [Challenges -> [Jobs -> JobRow]] /\ life' \in [Challenges -> Lifecycles]
         /\ preparing' \subseteq Challenges /\ held' \subseteq Challenges
         /\ \A d \in Challenges \ {c} : /\ job'[d] = job[d] /\ life'[d] = life[d]
                                        /\ d \in preparing' <=> d \in preparing
         /\ life[c] = "ABSENT" <=> life'[c] = "ABSENT"
         /\ UNCHANGED <<config, up, start, tomb>> =>
              /\ PrepareFits(c)' /\ Driven(c)' /\ AssignFits(c)' /\ OthersFit(c)'
              /\ StartingFits(c)' /\ StartedFits(c)' /\ Unseen(c)'
<1>1. j \in Jobs /\ TypeOK /\ Local(c)
  BY Names DEF IInv
<1>2. /\ job' \in [Challenges -> [Jobs -> JobRow]]
      /\ At(c, j)' = "no"
      /\ \A k \in Jobs \ {j} : At(c, k)' = At(c, k)
      /\ \A d \in Challenges \ {c} : job'[d] = job[d]
  BY <1>1, JobEnds DEF Throws
<1>3. CASE j = "prepare"
  <2>1. life[c] \in {"ABSENT", "PREPARING"} /\ up = "up"
    BY <1>1, <1>3 DEF Local, PrepareFits
  <2>2. CASE life[c] = "ABSENT"
    <3>1. UNCHANGED <<life, held>> /\ preparing' = preparing \ {c}
      BY <1>3, <2>2 DEF Throws, PrepareThrows
    <3>2. QED
      BY <1>1, <1>2, <1>3, <2>2, <3>1, Names, Types
      DEF StartsIdle, TypeOK, Local, PrepareFits, Driven, AssignFits, OthersFit, StartingFits, StartedFits, Unseen
  <2>3. CASE life[c] = "PREPARING"
    <3>1. /\ life' = [life EXCEPT ![c] = IF kind = "fatal" THEN "ERROR" ELSE "DISCOVERED"]
          /\ preparing' = preparing \ {c} /\ held' \in {held, held \cup {c}}
      BY <1>3, <2>3, Targets DEF Throws, PrepareThrows
    <3>2. /\ life' \in [Challenges -> Lifecycles] /\ life'[c] \in {"ERROR", "DISCOVERED"}
          /\ \A d \in Challenges \ {c} : life'[d] = life[d]
      BY <1>1, <3>1, Types DEF Lifecycles
    <3>3. preparing' \subseteq Challenges /\ held' \subseteq Challenges
      BY <1>1, <3>1 DEF TypeOK
    <3>4. \A d \in Challenges \ {c} : d \in preparing' <=> d \in preparing
      BY <3>1
    <3>5. At(c, "assign") = "no" /\ At(c, "prepare") # "ensure"
      BY <1>1, <1>3, <2>3 DEF Local, AssignFits
    <3>6. ASSUME UNCHANGED <<config, up, start, tomb>>
          PROVE  /\ PrepareFits(c)' /\ Driven(c)' /\ AssignFits(c)' /\ OthersFit(c)'
                 /\ StartingFits(c)' /\ StartedFits(c)' /\ Unseen(c)'
      <4>1. At(c, "assign")' = "no" /\ At(c, "prepare")' = "no" /\ (StartsIdle(c)' <=> StartsIdle(c))
            /\ \A r \in Reloads : At(c, r)' = At(c, r)
        BY <1>2, <1>3, <3>5, Names DEF StartsIdle
      <4>2. QED
        BY <1>1, <2>1, <2>3, <3>2, <3>5, <3>6, <4>1
        DEF Local, PrepareFits, Driven, AssignFits, OthersFit, StartingFits, StartedFits, Unseen
    <3>7. QED BY <1>2, <2>3, <3>2, <3>3, <3>4, <3>6
  <2>4. QED BY <2>1, <2>2, <2>3
<1>4. CASE j # "prepare"
  <2>1. UNCHANGED <<life, preparing, held>> /\ j \in Reloads
    BY <1>4 DEF Throws, Downloaders
  <2>2. At(c, "assign")' = At(c, "assign") /\ At(c, "prepare")' = At(c, "prepare")
        /\ (StartsIdle(c)' <=> StartsIdle(c)) /\ \A r \in Reloads : At(c, r)' \in {At(c, r), "no"}
    BY <1>2, <2>1, Names DEF StartsIdle
  <2>3. QED
    BY <1>1, <1>2, <2>1, <2>2, Types
    DEF TypeOK, Local, PrepareFits, Driven, AssignFits, OthersFit, StartingFits, StartedFits, Unseen
<1>5. QED BY <1>3, <1>4

LEMMA FinishesKeeps ==
  ASSUME IInv, up # "down", NEW c \in Challenges, NEW j \in Downloaders, Finishes(c, j),
         At(c, j) \in {"detail", "gate", "stream"}
  PROVE  /\ job' \in [Challenges -> [Jobs -> JobRow]] /\ life' \in [Challenges -> Lifecycles]
         /\ preparing' \subseteq Challenges /\ held' \subseteq Challenges
         /\ \A d \in Challenges \ {c} : /\ job'[d] = job[d] /\ life'[d] = life[d]
                                        /\ d \in preparing' <=> d \in preparing
         /\ life[c] = "ABSENT" <=> life'[c] = "ABSENT"
         /\ UNCHANGED <<config, up, start, tomb>> =>
              /\ PrepareFits(c)' /\ Driven(c)' /\ AssignFits(c)' /\ OthersFit(c)'
              /\ StartingFits(c)' /\ StartedFits(c)' /\ Unseen(c)'
<1>1. j \in Jobs /\ TypeOK /\ Local(c)
  BY Names DEF IInv
<1>2. /\ job' \in [Challenges -> [Jobs -> JobRow]]
      /\ At(c, j)' = "no"
      /\ \A k \in Jobs \ {j} : At(c, k)' = At(c, k)
      /\ \A d \in Challenges \ {c} : job'[d] = job[d]
  BY <1>1, JobEnds DEF Finishes
<1>3. CASE j = "prepare"
  <2>1. life[c] \in {"ABSENT", "PREPARING"} /\ up = "up"
    BY <1>1, <1>3 DEF Local, PrepareFits
  <2>2. /\ life' = [life EXCEPT ![c] = IF life[c] = "ABSENT" THEN "ABSENT" ELSE "READY"]
        /\ preparing' = preparing \ {c} /\ held' = held \ {c}
    BY <1>3, <2>1, Targets DEF Finishes, PrepareSucceeds
  <2>3. /\ life' \in [Challenges -> Lifecycles]
        /\ life'[c] = IF life[c] = "ABSENT" THEN "ABSENT" ELSE "READY"
        /\ \A d \in Challenges \ {c} : life'[d] = life[d]
    BY <1>1, <2>2, Types DEF Lifecycles
  <2>4. preparing' \subseteq Challenges /\ held' \subseteq Challenges
    BY <1>1, <2>2 DEF TypeOK
  <2>5. \A d \in Challenges \ {c} : d \in preparing' <=> d \in preparing
    BY <2>2
  <2>6. ASSUME UNCHANGED <<config, up, start, tomb>>
        PROVE  /\ PrepareFits(c)' /\ Driven(c)' /\ AssignFits(c)' /\ OthersFit(c)'
               /\ StartingFits(c)' /\ StartedFits(c)' /\ Unseen(c)'
    <3>1. /\ At(c, "assign")' = At(c, "assign") /\ At(c, "prepare")' = "no"
          /\ (StartsIdle(c)' <=> StartsIdle(c)) /\ \A r \in Reloads : At(c, r)' = At(c, r)
          /\ At(c, "prepare") # "ensure"
      BY <1>2, <1>3, Names DEF StartsIdle
    <3>2. QED
      BY <1>1, <2>1, <2>3, <2>6, <3>1
      DEF Local, PrepareFits, Driven, AssignFits, OthersFit, StartingFits, StartedFits, Unseen
  <2>7. QED BY <1>2, <2>3, <2>4, <2>5, <2>6
<1>4. CASE j # "prepare"
  <2>1. UNCHANGED <<life, preparing, held>> /\ j \in Reloads
    BY <1>4 DEF Finishes, Downloaders
  <2>2. At(c, "assign")' = At(c, "assign") /\ At(c, "prepare")' = At(c, "prepare")
        /\ (StartsIdle(c)' <=> StartsIdle(c)) /\ \A r \in Reloads : At(c, r)' \in {At(c, r), "no"}
    BY <1>2, <2>1, Names DEF StartsIdle
  <2>3. QED
    BY <1>1, <1>2, <2>1, <2>2, Types
    DEF TypeOK, Local, PrepareFits, Driven, AssignFits, OthersFit, StartingFits, StartedFits, Unseen
<1>5. QED BY <1>3, <1>4

(* A job of the downloads goes on to another of its awaits.                 *)
LEMMA MovesKeeps ==
  ASSUME IInv, NEW c \in Challenges, NEW j \in Downloaders, NEW v \in Versions, NEW s \in Versions,
         NEW at \in {"detail", "gate", "stream"}, Moves(c, j, at, v, s),
         At(c, j) \in {"detail", "gate", "stream"}, UNCHANGED <<life, preparing, held>>
  PROVE  /\ job' \in [Challenges -> [Jobs -> JobRow]] /\ life' \in [Challenges -> Lifecycles]
         /\ preparing' \subseteq Challenges /\ held' \subseteq Challenges
         /\ \A d \in Challenges \ {c} : /\ job'[d] = job[d] /\ life'[d] = life[d]
                                        /\ d \in preparing' <=> d \in preparing
         /\ life[c] = "ABSENT" <=> life'[c] = "ABSENT"
         /\ UNCHANGED <<config, up, start, tomb>> =>
              /\ PrepareFits(c)' /\ Driven(c)' /\ AssignFits(c)' /\ OthersFit(c)'
              /\ StartingFits(c)' /\ StartedFits(c)' /\ Unseen(c)'
<1>1. j \in Jobs /\ TypeOK /\ Local(c)
  BY Names DEF IInv
<1>2. /\ job' \in [Challenges -> [Jobs -> JobRow]]
      /\ At(c, j)' = at
      /\ \A k \in Jobs \ {j} : At(c, k)' = At(c, k)
      /\ \A d \in Challenges \ {c} : job'[d] = job[d]
  BY <1>1, JobMoves
<1>3. /\ At(c, "assign")' = At(c, "assign") /\ (StartsIdle(c)' <=> StartsIdle(c))
      /\ \A r \in Reloads : At(c, r)' = At(c, r) \/ At(c, r)' = at
      /\ \/ At(c, "prepare")' = At(c, "prepare")
         \/ At(c, "prepare")' = at /\ At(c, "prepare") \in {"detail", "gate", "stream"}
  BY <1>2, Names DEF Downloaders, StartsIdle
<1>4. UNCHANGED <<config, up, start, tomb>> =>
        /\ PrepareFits(c)' /\ Driven(c)' /\ AssignFits(c)' /\ OthersFit(c)'
        /\ StartingFits(c)' /\ StartedFits(c)' /\ Unseen(c)'
  BY <1>1, <1>3
  DEF Local, PrepareFits, Driven, AssignFits, OthersFit, StartingFits, StartedFits, Unseen
<1>5. QED BY <1>1, <1>2, <1>4 DEF TypeOK

(* The rows and files a job of the downloads changes beside.                *)
LEMMA DownloadKeeps ==
  ASSUME IInv, NEW c \in Challenges,
         job' \in [Challenges -> [Jobs -> JobRow]], life' \in [Challenges -> Lifecycles],
         preparing' \subseteq Challenges, held' \subseteq Challenges,
         \A d \in Challenges \ {c} : /\ job'[d] = job[d] /\ life'[d] = life[d]
                                     /\ d \in preparing' <=> d \in preparing,
         life[c] = "ABSENT" <=> life'[c] = "ABSENT",
         PrepareFits(c)', Driven(c)', AssignFits(c)', OthersFit(c)',
         StartingFits(c)', StartedFits(c)', Unseen(c)',
         UNCHANGED <<config, up, remote, start, tomb, poll>>, faults' \in 0..MaxFaults,
         NEW a \in AttRow, att' = [att EXCEPT ![c] = a] \/ att' = att,
         NEW v \in {Torn} \cup Versions, file' = [file EXCEPT ![c] = v] \/ file' = file,
         NEW p \in BOOLEAN, part' = [part EXCEPT ![c] = p] \/ part' = part,
         c \in tomb => att' = att /\ file' = file /\ (part' = part \/ ~p)
  PROVE  IInv'
<1>1. TypeOK /\ Local(c)
  BY DEF IInv
<1>2. /\ att' \in [Challenges -> AttRow] /\ \A d \in Challenges \ {c} : att'[d] = att[d]
      /\ file' \in [Challenges -> {Torn} \cup Versions] /\ \A d \in Challenges \ {c} : file'[d] = file[d]
      /\ part' \in [Challenges -> BOOLEAN] /\ \A d \in Challenges \ {c} : part'[d] = part[d]
  <2>1. att \in [Challenges -> AttRow] /\ file \in [Challenges -> {Torn} \cup Versions]
        /\ part \in [Challenges -> BOOLEAN]
    BY <1>1, Types DEF TypeOK, Versions
  <2>2. att' \in [Challenges -> AttRow] /\ \A d \in Challenges \ {c} : att'[d] = att[d]
    BY <2>1
  <2>3. file' \in [Challenges -> {Torn} \cup Versions] /\ \A d \in Challenges \ {c} : file'[d] = file[d]
    BY <2>1
  <2>4. part' \in [Challenges -> BOOLEAN] /\ \A d \in Challenges \ {c} : part'[d] = part[d]
    BY <2>1
  <2>5. QED BY <2>2, <2>3, <2>4
<1>3. Tombed(c)'
  <2>1. c \in tomb => ~part'[c]
    BY <1>1 DEF Local, Tombed, TypeOK
  <2>2. QED BY <1>1, <2>1 DEF Local, Tombed
<1>4. OnlyAt(c)
  BY <1>2 DEF OnlyAt
<1>5. TypeOK'
  BY <1>1, <1>2 DEF TypeOK, JobRow, AttRow, Versions
<1>6. Local(c)'
  BY <1>3 DEF Local
<1>7. QED BY <1>4, <1>5, <1>6, OthersKeep
-----------------------------------------------------------------------------
LEMMA DetailArrivesKeeps ==
  ASSUME IInv, NEW c \in Challenges, NEW j \in Downloaders, DetailArrives(c, j)
  PROVE  IInv'
<1>1. TypeOK /\ Local(c) /\ j \in Jobs
  BY Names DEF IInv
<1>2. PICK v \in {job[c][j].ver, remote[c]} :
        LET row == IF j = "prepare" THEN Upserted(att[c], v) ELSE att[c]
        IN /\ att' = IF life[c] = "ABSENT" THEN att ELSE [att EXCEPT ![c] = row]
           /\ CASE life[c] = "ABSENT" -> Throws(c, j, "fatal")
                [] life[c] # "ABSENT" /\ Needed(c, row) ->
                     Moves(c, j, "gate", row.url, row.size) /\ UNCHANGED <<life, preparing, held>>
                [] OTHER -> Finishes(c, j)
  BY DEF DetailArrives
<1> DEFINE row == IF j = "prepare" THEN Upserted(att[c], v) ELSE att[c]
<1>3. v \in Versions
  BY <1>1, <1>2, Names, Types DEF TypeOK, JobRow, Versions
<1>4. row \in AttRow /\ row.url \in Versions /\ row.size \in Versions
  <2>1. att[c] \in AttRow
    BY <1>1, Types
  <2>2. row \in AttRow
    BY <1>3, <2>1, Shows
  <2> HIDE DEF row
  <2>3. QED BY <2>2 DEF AttRow
<1>5. att' = [att EXCEPT ![c] = row] \/ att' = att
  BY <1>2
<1>6. c \in tomb => att' = att
  BY <1>1, <1>2 DEF Local, Tombed
<1>7. \/ Throws(c, j, "fatal")
      \/ Moves(c, j, "gate", row.url, row.size) /\ UNCHANGED <<life, preparing, held>>
      \/ Finishes(c, j)
  BY <1>2
<1> HIDE DEF row
<1>8. /\ job' \in [Challenges -> [Jobs -> JobRow]] /\ life' \in [Challenges -> Lifecycles]
      /\ preparing' \subseteq Challenges /\ held' \subseteq Challenges
      /\ \A d \in Challenges \ {c} : /\ job'[d] = job[d] /\ life'[d] = life[d]
                                     /\ d \in preparing' <=> d \in preparing
      /\ life[c] = "ABSENT" <=> life'[c] = "ABSENT"
      /\ UNCHANGED <<config, up, start, tomb>> =>
           /\ PrepareFits(c)' /\ Driven(c)' /\ AssignFits(c)' /\ OthersFit(c)'
           /\ StartingFits(c)' /\ StartedFits(c)' /\ Unseen(c)'
  <2>1. up # "down" /\ At(c, j) \in {"detail", "gate", "stream"}
    BY DEF DetailArrives, At
  <2>2. CASE Throws(c, j, "fatal")
    BY <2>1, <2>2, ThrowsKeeps
  <2>3. CASE Finishes(c, j)
    BY <2>1, <2>3, FinishesKeeps
  <2>4. CASE Moves(c, j, "gate", row.url, row.size) /\ UNCHANGED <<life, preparing, held>>
    BY <1>4, <2>1, <2>4, MovesKeeps
  <2>5. QED BY <1>7, <2>2, <2>3, <2>4
<1>9. UNCHANGED <<config, up, remote, start, file, part, tomb, poll, faults>> /\ faults' \in 0..MaxFaults
  BY <1>1 DEF DetailArrives, TypeOK
<1>10. 0 \in {Torn} \cup Versions /\ TRUE \in BOOLEAN
  BY Names DEF Versions
<1>11. QED BY <1>4, <1>5, <1>6, <1>8, <1>9, <1>10, DownloadKeeps

(* The four ways to a Throws. *)
LEMMA FailuresKeep ==
  ASSUME IInv, NEW c \in Challenges, NEW j \in Downloaders, NEW k, up # "down",
         At(c, j) \in {"detail", "gate", "stream"}, Throws(c, j, k),
         UNCHANGED <<config, up, remote, start, file, tomb, poll>>, faults' \in 0..MaxFaults,
         att' = att \/ (life[c] # "ABSENT" /\ att' = [att EXCEPT ![c].status = "FAILED"]),
         part' = part \/ part' = [part EXCEPT ![c] = FALSE]
  PROVE  IInv'
<1>1. TypeOK /\ Local(c)
  BY DEF IInv
<1> DEFINE row == [att[c] EXCEPT !.status = "FAILED"]
<1>2. row \in AttRow
  BY <1>1, Types DEF AttRow
<1>3. att' = [att EXCEPT ![c] = row] \/ att' = att
  OBVIOUS
<1>4. c \in tomb => att' = att
  BY <1>1 DEF Local, Tombed
<1> HIDE DEF row
<1>5. 0 \in {Torn} \cup Versions /\ FALSE \in BOOLEAN
  BY Names DEF Versions
<1>6. /\ job' \in [Challenges -> [Jobs -> JobRow]] /\ life' \in [Challenges -> Lifecycles]
      /\ preparing' \subseteq Challenges /\ held' \subseteq Challenges
      /\ \A d \in Challenges \ {c} : /\ job'[d] = job[d] /\ life'[d] = life[d]
                                     /\ d \in preparing' <=> d \in preparing
      /\ life[c] = "ABSENT" <=> life'[c] = "ABSENT"
      /\ PrepareFits(c)' /\ Driven(c)' /\ AssignFits(c)' /\ OthersFit(c)'
      /\ StartingFits(c)' /\ StartedFits(c)' /\ Unseen(c)'
  BY ThrowsKeeps
<1>7. QED BY <1>2, <1>3, <1>4, <1>5, <1>6, DownloadKeeps

LEMMA FaultBounded ==
  ASSUME TypeOK, NEW k, Fault(k)
  PROVE  faults' \in 0..MaxFaults
BY Names DEF Fault, TypeOK

LEMMA DetailFailsKeeps ==
  ASSUME IInv, NEW c \in Challenges, NEW j \in Downloaders, NEW k, DetailFails(c, j, k)
  PROVE  IInv'
<1>1. faults' \in 0..MaxFaults
  BY FaultBounded DEF DetailFails, IInv
<1>2. up # "down" /\ At(c, j) \in {"detail", "gate", "stream"} /\ Throws(c, j, k)
  BY DEF DetailFails, At
<1>3. UNCHANGED <<config, up, remote, start, att, file, part, tomb, poll>>
  BY DEF DetailFails
<1>4. QED BY <1>1, <1>2, <1>3, FailuresKeep

LEMMA DownloadFailsKeeps ==
  ASSUME IInv, NEW c \in Challenges, NEW j \in Downloaders, NEW k, DownloadFails(c, j, k)
  PROVE  IInv'
<1>1. faults' \in 0..MaxFaults
  BY FaultBounded DEF DownloadFails, IInv
<1>2. up # "down" /\ At(c, j) \in {"detail", "gate", "stream"} /\ Throws(c, j, k)
  BY DEF DownloadFails, At
<1>3. UNCHANGED <<config, up, remote, start, file, tomb, poll>>
  BY DEF DownloadFails
<1>4. att' = att \/ (life[c] # "ABSENT" /\ att' = [att EXCEPT ![c].status = "FAILED"])
  BY DEF DownloadFails
<1>5. part' = part \/ part' = [part EXCEPT ![c] = FALSE]
  BY DEF DownloadFails
<1>6. QED BY <1>1, <1>2, <1>3, <1>4, <1>5, FailuresKeep

LEMMA NoDiskKeeps ==
  ASSUME IInv, NEW c \in Challenges, NEW j \in Downloaders, NoDisk(c, j)
  PROVE  IInv'
<1>1. faults' \in 0..MaxFaults
  BY FaultBounded DEF NoDisk, IInv
<1>2. up # "down" /\ At(c, j) \in {"detail", "gate", "stream"} /\ Throws(c, j, "disk")
  BY DEF NoDisk, At
<1>3. UNCHANGED <<config, up, remote, start, file, part, tomb, poll>>
  BY DEF NoDisk
<1>4. life[c] # "ABSENT" /\ att' = [att EXCEPT ![c].status = "FAILED"]
  BY DEF NoDisk
<1>5. QED BY <1>1, <1>2, <1>3, <1>4, FailuresKeep

LEMMA DownloadCompletesKeeps ==
  ASSUME IInv, NEW c \in Challenges, NEW j \in Downloaders, DownloadCompletes(c, j)
  PROVE  IInv'
<1>1. TypeOK /\ Local(c) /\ j \in Jobs
  BY Names DEF IInv
<1>2. up # "down" /\ At(c, j) \in {"detail", "gate", "stream"}
  BY DEF DownloadCompletes, At
<1>3. UNCHANGED <<config, up, remote, start, tomb, poll, faults>> /\ faults' \in 0..MaxFaults
  BY <1>1 DEF DownloadCompletes, TypeOK
<1>4. CASE ~part[c]
  <2>1. Throws(c, j, "transient") /\ UNCHANGED <<att, file, part>>
    BY <1>4 DEF DownloadCompletes
  <2>2. QED BY <1>2, <1>3, <2>1, FailuresKeep
<1>5. CASE part[c]
  <2>1. c \notin tomb
    BY <1>1, <1>5 DEF Local, Tombed
  <2>2. PICK v \in {job[c][j].ver, Torn} : file' = [file EXCEPT ![c] = v]
    BY <1>5 DEF DownloadCompletes
  <2> DEFINE a == [att[c] EXCEPT !.status = "DOWNLOADED", !.size = Size(job[c][j].ver)]
  <2>3. job[c][j].ver \in Versions /\ att[c] \in AttRow
    BY <1>1, Types DEF JobRow
  <2>4. a \in AttRow /\ v \in {Torn} \cup Versions
    BY <2>2, <2>3, Shows DEF AttRow
  <2>5. att' = [att EXCEPT ![c] = a] \/ att' = att
    BY <1>5, <2>3 DEF DownloadCompletes, Complete
  <2>6. part' = [part EXCEPT ![c] = FALSE] /\ Finishes(c, j)
    BY <1>5 DEF DownloadCompletes
  <2> HIDE DEF a
  <2>7. /\ job' \in [Challenges -> [Jobs -> JobRow]] /\ life' \in [Challenges -> Lifecycles]
        /\ preparing' \subseteq Challenges /\ held' \subseteq Challenges
        /\ \A d \in Challenges \ {c} : /\ job'[d] = job[d] /\ life'[d] = life[d]
                                       /\ d \in preparing' <=> d \in preparing
        /\ life[c] = "ABSENT" <=> life'[c] = "ABSENT"
        /\ PrepareFits(c)' /\ Driven(c)' /\ AssignFits(c)' /\ OthersFit(c)'
        /\ StartingFits(c)' /\ StartedFits(c)' /\ Unseen(c)'
    BY <1>2, <1>3, <2>6, FinishesKeeps
  <2>8. QED BY <1>3, <2>1, <2>2, <2>4, <2>5, <2>6, <2>7, DownloadKeeps
<1>6. QED BY <1>1, <1>4, <1>5 DEF TypeOK

LEMMA SizeMismatchKeeps ==
  ASSUME IInv, NEW c \in Challenges, NEW j \in Downloaders, SizeMismatch(c, j)
  PROVE  IInv'
<1>1. TypeOK
  BY DEF IInv
<1>2. /\ UNCHANGED <<config, up, remote, start, file, tomb, poll>> /\ faults' \in 0..MaxFaults
      /\ part' = [part EXCEPT ![c] = FALSE]
  BY <1>1 DEF SizeMismatch, TypeOK
<1>3. att' = att \/ (life[c] # "ABSENT" /\ att' = [att EXCEPT ![c].status = "FAILED"])
  BY DEF SizeMismatch
<1>4. up # "down" /\ At(c, j) \in {"detail", "gate", "stream"} /\ Throws(c, j, "transient")
  BY DEF SizeMismatch, At
<1>5. QED BY <1>2, <1>3, <1>4, FailuresKeep

LEMMA DownloadBeginsKeeps ==
  ASSUME IInv, NEW c \in Challenges, NEW j \in Downloaders, DownloadBegins(c, j)
  PROVE  IInv'
<1>1. TypeOK /\ Local(c) /\ j \in Jobs
  BY Names DEF IInv
<1>2. up # "down" /\ At(c, j) = "gate"
  BY DEF DownloadBegins, At
<1>3. UNCHANGED <<config, up, remote, start, file, tomb, poll, faults>> /\ faults' \in 0..MaxFaults
  BY <1>1 DEF DownloadBegins, TypeOK
<1>4. CASE life[c] = "ABSENT"
  <2>1. Throws(c, j, "fatal") /\ UNCHANGED <<att, part>>
    BY <1>4 DEF DownloadBegins
  <2>2. QED BY <1>2, <1>3, <2>1, FailuresKeep
<1>5. CASE life[c] # "ABSENT"
  <2> DEFINE v == Served(c, j)
  <2>14. v \in Versions
    BY <1>1, Names, Types DEF Served, JobRow, TypeOK, Versions
  <2>1. /\ att' = [att EXCEPT ![c].status = "DOWNLOADING"]
        /\ part' = [part EXCEPT ![c] = TRUE]
        /\ job' = [job EXCEPT ![c] = [k \in Jobs |->
             IF k = j THEN [job[c][k] EXCEPT !.at = "stream", !.ver = v, !.shared = Rivals(c, v) # {}]
             ELSE IF k \in Rivals(c, v) THEN [job[c][k] EXCEPT !.shared = TRUE] ELSE job[c][k]]]
        /\ UNCHANGED <<life, preparing, held>>
    BY <1>5 DEF DownloadBegins
  <2> DEFINE a == [att[c] EXCEPT !.status = "DOWNLOADING"]
             is == Rivals(c, v) # {}
             new == [k \in Jobs |->
               IF k = j THEN [job[c][k] EXCEPT !.at = "stream", !.ver = v, !.shared = is]
               ELSE IF k \in Rivals(c, v) THEN [job[c][k] EXCEPT !.shared = TRUE] ELSE job[c][k]]
  <2>2. a \in AttRow /\ att' = [att EXCEPT ![c] = a]
    BY <1>1, <2>1, Types DEF AttRow
  <2>3. is \in BOOLEAN /\ job' = [job EXCEPT ![c] = new]
    BY <2>1
  <2> HIDE DEF is, v
  <2>4. ASSUME NEW k \in Jobs
        PROVE  new[k] \in JobRow /\ new[k].at = IF k = j THEN "stream" ELSE job[c][k].at
    <3>1. job[c][k] \in JobRow
      BY <1>1, Types
    <3>2. CASE k = j
      <4>1. new[k] = [job[c][k] EXCEPT !.at = "stream", !.ver = v, !.shared = is]
        BY <3>2
      <4>2. QED BY <2>3, <2>14, <3>1, <3>2, <4>1 DEF JobRow
    <3>3. CASE k # j
      <4>1. new[k] \in {job[c][k], [job[c][k] EXCEPT !.shared = TRUE]}
        BY <3>3
      <4>2. QED BY <3>1, <3>3, <4>1 DEF JobRow
    <3>4. QED BY <3>2, <3>3
  <2>5. new \in [Jobs -> JobRow]
    BY <2>4
  <2> HIDE DEF new, a
  <2>6. /\ job' \in [Challenges -> [Jobs -> JobRow]] /\ job'[c] = new
        /\ \A d \in Challenges \ {c} : job'[d] = job[d]
    BY <1>1, <2>3, <2>5, Types
  <2>7. \A k \in Jobs : At(c, k)' = IF k = j THEN "stream" ELSE At(c, k)
    BY <2>4, <2>6 DEF At
  <2>8. /\ At(c, "assign")' = At(c, "assign") /\ (StartsIdle(c)' <=> StartsIdle(c))
        /\ \A r \in Reloads : At(c, r)' = At(c, r) \/ At(c, r)' = "stream"
        /\ \/ At(c, "prepare")' = At(c, "prepare")
           \/ At(c, "prepare")' = "stream" /\ At(c, "prepare") = "gate"
    BY <1>2, <2>7, Names DEF Downloaders, StartsIdle
  <2>9. /\ PrepareFits(c)' /\ Driven(c)' /\ AssignFits(c)' /\ OthersFit(c)'
        /\ StartingFits(c)' /\ StartedFits(c)' /\ Unseen(c)'
    BY <1>1, <1>3, <2>1, <2>8
    DEF Local, PrepareFits, Driven, AssignFits, OthersFit, StartingFits, StartedFits, Unseen
  <2>10. c \notin tomb
    BY <1>1, <1>5 DEF Local, Tombed
  <2>11. 0 \in {Torn} \cup Versions /\ TRUE \in BOOLEAN
    BY Names DEF Versions
  <2>12. life' \in [Challenges -> Lifecycles] /\ preparing' \subseteq Challenges /\ held' \subseteq Challenges
    BY <1>1, <2>1 DEF TypeOK
  <2>13. QED BY <1>3, <2>1, <2>2, <2>6, <2>9, <2>10, <2>11, <2>12, DownloadKeeps
<1>6. QED BY <1>4, <1>5
-----------------------------------------------------------------------------
(* Starts, the tick, and the human.                                         *)

LEMMA StartSucceedsKeeps ==
  ASSUME IInv, NEW c \in Challenges, NEW j \in Jobs, StartSucceeds(c, j)
  PROVE  IInv'
<1>1. TypeOK /\ Local(c) /\ At(c, j) = "ensure"
  BY DEF IInv, StartSucceeds, At
<1>2. UNCHANGED <<config, up, remote, att, file, part, preparing, held, tomb, poll, faults>>
  BY DEF StartSucceeds, BeginPreparation, Assign
<1>3. j \in {"prepare", "start", "again", "assign"}
  BY <1>1, Names DEF Local, OthersFit
<1>4. /\ start' \in [Challenges -> StartStatus] /\ \A d \in Challenges \ {c} : start'[d] = start[d]
      /\ start'[c] = IF life[c] = "ABSENT" THEN start[c] ELSE "STARTED"
  BY <1>1, Types DEF StartSucceeds, StartStatus
<1>5. CASE life[c] = "ABSENT" \/ j \in {"start", "again"}
  <2>1. Ends(c, j) /\ life' = life
    BY <1>5 DEF StartSucceeds
  <2>2. /\ job' \in [Challenges -> [Jobs -> JobRow]]
        /\ At(c, j)' = "no"
        /\ \A k \in Jobs \ {j} : At(c, k)' = At(c, k)
        /\ \A d \in Challenges \ {c} : job'[d] = job[d]
    BY <1>1, <2>1, JobEnds
  <2>3. \A k \in Jobs : At(c, k)' \in {At(c, k), "no"}
    BY <2>2
  <2>4. TypeOK'
    BY <1>1, <1>2, <1>4, <2>1, <2>2 DEF TypeOK, JobRow, StartStatus, Versions
  <2>5. OnlyAt(c)
    BY <1>2, <1>4, <2>1, <2>2 DEF OnlyAt
  <2>6. j \in {"start", "again"} => config.policy = "ON_DISCOVERY"
    BY <1>1 DEF Local, OthersFit, StartsIdle
  <2>7. Local(c)'
    <3>1. PrepareFits(c)' /\ AssignFits(c)' /\ OthersFit(c)' /\ Unseen(c)'
      BY <1>1, <1>2, <2>1, <2>3, Names
      DEF StartsIdle, Local, PrepareFits, AssignFits, OthersFit, Unseen
    <3>6. Tombed(c)'
      BY <1>1, <1>2, <1>4, <2>1 DEF Local, Tombed
    <3>2. Driven(c)'
      BY <1>1, <1>2, <1>5, <2>1, <2>2, Names DEF Local, Driven
    <3>3. StartedFits(c)'
      BY <1>1, <1>2, <1>4, <2>1 DEF Local, StartedFits
    <3>4. StartingFits(c)'
      <4>1. CASE life[c] # "ABSENT"
        BY <1>4, <4>1 DEF StartingFits
      <4>2. CASE life[c] = "ABSENT" /\ c \notin tomb
        BY <1>1, <1>2, <1>4, <2>1, <2>2, <2>6, <4>2 DEF Local, StartingFits, Unseen
      <4>3. CASE life[c] = "ABSENT" /\ c \in tomb
        BY <1>1, <1>2, <1>4, <2>1, <2>2, <2>6, <4>3 DEF Local, StartingFits, Tombed
      <4>4. QED BY <4>1, <4>2, <4>3
    <3>5. QED BY <3>1, <3>2, <3>3, <3>4, <3>6 DEF Local
  <2>8. QED BY <2>4, <2>5, <2>7, OthersKeep
<1>6. CASE life[c] # "ABSENT" /\ j = "prepare"
  <2>1. life[c] = "DISCOVERED" /\ up = "up" /\ c \in preparing /\ config.policy = "ON_PREPARATION"
    BY <1>1, <1>6 DEF Local, PrepareFits
  <2>2. life' = [life EXCEPT ![c] = "PREPARING"] /\ Moves(c, "prepare", "detail", remote[c], 0)
    BY <1>6, <2>1, Targets DEF StartSucceeds, BeginPreparation
  <2>3. life' \in [Challenges -> Lifecycles] /\ life'[c] = "PREPARING"
        /\ \A d \in Challenges \ {c} : life'[d] = life[d]
    BY <1>1, <2>2, Types DEF Lifecycles
  <2>4. remote[c] \in Versions /\ 0 \in Versions
    BY <1>1, Names DEF TypeOK, Versions
  <2>5. /\ job' \in [Challenges -> [Jobs -> JobRow]]
        /\ At(c, "prepare")' = "detail"
        /\ \A k \in Jobs \ {"prepare"} : At(c, k)' = At(c, k)
        /\ \A d \in Challenges \ {c} : job'[d] = job[d]
    BY <1>1, <1>6, <2>2, <2>4, JobMoves
  <2>6. TypeOK'
    BY <1>1, <1>2, <1>4, <2>3, <2>5 DEF TypeOK, JobRow, StartStatus, Versions
  <2>7. OnlyAt(c)
    BY <1>2, <1>4, <2>3, <2>5 DEF OnlyAt
  <2>8. At(c, "assign")' = "no" /\ (StartsIdle(c)' <=> StartsIdle(c)) /\ \A r \in Reloads : At(c, r)' = At(c, r)
    BY <1>1, <2>1, <2>5, Names DEF Local, AssignFits, StartsIdle
  <2>9. c \notin tomb
    BY <1>1, <1>6 DEF Local, Tombed
  <2>10. Local(c)'
    BY <1>1, <1>2, <1>4, <1>6, <2>1, <2>3, <2>5, <2>8, <2>9
    DEF Local, PrepareFits, Driven, AssignFits, OthersFit, StartingFits, StartedFits, Unseen, Tombed
  <2>11. QED BY <2>6, <2>7, <2>10, OthersKeep
<1>7. CASE life[c] # "ABSENT" /\ j = "assign"
  <2>1. life[c] = "QUEUED" /\ up = "up" /\ config.policy = "ON_SOLVER_ASSIGNMENT"
    BY <1>1, <1>7 DEF Local, AssignFits
  <2>2. life' = [life EXCEPT ![c] = "ACTIVE"] /\ Ends(c, "assign")
    BY <1>7, <2>1, Targets DEF StartSucceeds, Assign
  <2>3. life' \in [Challenges -> Lifecycles] /\ life'[c] = "ACTIVE"
        /\ \A d \in Challenges \ {c} : life'[d] = life[d]
    BY <1>1, <2>2, Types DEF Lifecycles
  <2>4. /\ job' \in [Challenges -> [Jobs -> JobRow]]
        /\ At(c, "assign")' = "no"
        /\ \A k \in Jobs \ {"assign"} : At(c, k)' = At(c, k)
        /\ \A d \in Challenges \ {c} : job'[d] = job[d]
    BY <1>1, <1>7, <2>2, JobEnds
  <2>5. TypeOK'
    BY <1>1, <1>2, <1>4, <2>3, <2>4 DEF TypeOK, JobRow, StartStatus, Versions
  <2>6. OnlyAt(c)
    BY <1>2, <1>4, <2>3, <2>4 DEF OnlyAt
  <2>7. At(c, "prepare") = "no" /\ At(c, "prepare")' = "no" /\ (StartsIdle(c)' <=> StartsIdle(c))
        /\ \A r \in Reloads : At(c, r)' = At(c, r)
    BY <1>1, <2>1, <2>4, Names DEF Local, PrepareFits, StartsIdle
  <2>8. c \notin tomb
    BY <1>1, <1>7 DEF Local, Tombed
  <2>9. Local(c)'
    BY <1>1, <1>2, <1>4, <1>7, <2>1, <2>3, <2>4, <2>7, <2>8
    DEF Local, PrepareFits, Driven, AssignFits, OthersFit, StartingFits, StartedFits, Unseen, Tombed
  <2>10. QED BY <2>5, <2>6, <2>9, OthersKeep
<1>8. QED BY <1>3, <1>5, <1>6, <1>7

(* A job that starts a challenge fails, or the poll launches nothing: what  *)
(* is left is a challenge that may be tried again.                          *)
LEMMA StartFailsKeeps ==
  ASSUME IInv, NEW c \in Challenges, NEW j \in Jobs, NEW k, StartFails(c, j, k)
  PROVE  IInv'
<1>1. TypeOK /\ Local(c) /\ At(c, j) = "ensure"
  BY DEF IInv, StartFails, At
<1>2. UNCHANGED <<config, up, remote, life, att, file, part, held, tomb, poll>> /\ faults' \in 0..MaxFaults
  BY <1>1, FaultBounded DEF StartFails
<1>3. /\ start' \in [Challenges -> StartStatus] /\ \A d \in Challenges \ {c} : start'[d] = start[d]
      /\ life[c] # "ABSENT" => start'[c] \in {"FAILED", "NOT_STARTED"}
      /\ life[c] = "ABSENT" => start'[c] = start[c]
  BY <1>1, Types DEF StartFails, StartStatus
<1>4. /\ job' \in [Challenges -> [Jobs -> JobRow]]
      /\ At(c, j)' = "no"
      /\ \A i \in Jobs \ {j} : At(c, i)' = At(c, i)
      /\ \A d \in Challenges \ {c} : job'[d] = job[d]
  BY <1>1, JobEnds DEF StartFails
<1>5. /\ preparing' \subseteq Challenges
      /\ \A d \in Challenges \ {c} : d \in preparing' <=> d \in preparing
      /\ j # "prepare" => preparing' = preparing
  BY <1>1 DEF StartFails, TypeOK
<1>6. TypeOK'
  BY <1>1, <1>2, <1>3, <1>4, <1>5 DEF TypeOK, JobRow, StartStatus, Versions
<1>7. OnlyAt(c)
  BY <1>2, <1>3, <1>4, <1>5 DEF OnlyAt
<1>8. \A i \in Jobs : At(c, i)' \in {At(c, i), "no"}
  BY <1>4
<1>9. PrepareFits(c)' /\ AssignFits(c)' /\ OthersFit(c)' /\ Unseen(c)'
  <2>1. CASE j = "prepare"
    BY <1>1, <1>2, <1>4, <1>8, <2>1, Names DEF Local, PrepareFits, AssignFits, OthersFit, Unseen, StartsIdle
  <2>2. CASE j # "prepare"
    BY <1>1, <1>2, <1>4, <1>5, <1>8, <2>2, Names DEF Local, PrepareFits, AssignFits, OthersFit, Unseen, StartsIdle
  <2>3. QED BY <2>1, <2>2
<1>10. Driven(c)'
  <2>1. CASE j = "prepare"
    BY <1>1, <1>2, <2>1 DEF Local, PrepareFits, Driven
  <2>2. CASE j # "prepare"
    BY <1>1, <1>2, <1>4, <2>2, Names DEF Local, Driven
  <2>3. QED BY <2>1, <2>2
<1>11. Tombed(c)'
  BY <1>1, <1>2, <1>3 DEF Local, Tombed
<1>12. j \in {"start", "again"} => config.policy = "ON_DISCOVERY"
  BY <1>1 DEF Local, OthersFit, StartsIdle
<1>13. j \in {"prepare", "assign", "start", "again"}
  BY <1>1, Names DEF Local, OthersFit
<1>14. StartingFits(c)'
  <2>1. CASE life[c] # "ABSENT"
    BY <1>3, <2>1 DEF StartingFits
  <2>2. CASE life[c] = "ABSENT" /\ c \notin tomb
    BY <1>1, <1>2, <1>3, <1>4, <1>12, <1>13, <2>2 DEF Local, StartingFits, Unseen
  <2>3. CASE life[c] = "ABSENT" /\ c \in tomb
    BY <1>3, <1>1, <2>3 DEF Local, StartingFits, Tombed
  <2>4. QED BY <2>1, <2>2, <2>3
<1>15. StartedFits(c)'
  <2>1. CASE j = "prepare"
    BY <1>1, <1>2, <1>3, <2>1 DEF Local, PrepareFits, StartedFits
  <2>2. CASE j = "assign"
    BY <1>1, <1>2, <1>3, <2>2 DEF Local, AssignFits, StartedFits
  <2>3. CASE j \in {"start", "again"}
    BY <1>2, <1>12, <2>3 DEF StartedFits
  <2>4. QED BY <1>13, <2>1, <2>2, <2>3
<1>16. Local(c)'
  BY <1>9, <1>10, <1>11, <1>14, <1>15 DEF Local
<1>17. QED BY <1>6, <1>7, <1>16, OthersKeep

LEMMA PrepareKeeps ==
  ASSUME IInv, NEW c \in Challenges, Prepare(c)
  PROVE  IInv'
<1>1. TypeOK /\ Local(c) /\ up = "up" /\ life[c] = "DISCOVERED" /\ At(c, "prepare") = "no"
  BY DEF IInv, Prepare, At, NoJob
<1>2. UNCHANGED <<config, up, remote, att, file, part, held, tomb, poll, faults>> /\ preparing' = preparing \cup {c}
  BY DEF Prepare
<1>3. c \notin tomb /\ At(c, "assign") = "no"
  BY <1>1 DEF Local, Tombed, AssignFits
<1>4. 0 \in Versions /\ remote[c] \in Versions /\ "prepare" \in Jobs
  BY <1>1, Names DEF TypeOK, Versions
<1>5. /\ preparing' \subseteq Challenges /\ c \in preparing'
      /\ \A d \in Challenges \ {c} : d \in preparing' <=> d \in preparing
  BY <1>1, <1>2 DEF TypeOK
<1>6. ASSUME NEW at \in {"ensure", "detail"}, NEW v \in Versions, Moves(c, "prepare", at, v, 0)
      PROVE  /\ job' \in [Challenges -> [Jobs -> JobRow]]
             /\ At(c, "prepare")' = at /\ At(c, "assign")' = "no" /\ (StartsIdle(c)' <=> StartsIdle(c))
             /\ \A r \in Reloads : At(c, r)' = At(c, r)
             /\ \A d \in Challenges \ {c} : job'[d] = job[d]
  <2>1. /\ job' \in [Challenges -> [Jobs -> JobRow]]
        /\ At(c, "prepare")' = at
        /\ \A k \in Jobs \ {"prepare"} : At(c, k)' = At(c, k)
        /\ \A d \in Challenges \ {c} : job'[d] = job[d]
    BY <1>1, <1>4, <1>6, JobMoves
  <2>2. QED BY <1>3, <2>1, Names DEF StartsIdle
<1>7. CASE NeedsStart(c, "ON_PREPARATION") /\ start' = [start EXCEPT ![c] = "STARTING"]
           /\ Moves(c, "prepare", "ensure", 0, 0) /\ UNCHANGED life
  <2>1. /\ job' \in [Challenges -> [Jobs -> JobRow]]
        /\ At(c, "prepare")' = "ensure" /\ At(c, "assign")' = "no" /\ (StartsIdle(c)' <=> StartsIdle(c))
        /\ \A r \in Reloads : At(c, r)' = At(c, r)
        /\ \A d \in Challenges \ {c} : job'[d] = job[d]
    BY <1>4, <1>6, <1>7
  <2>2. /\ start' \in [Challenges -> StartStatus] /\ start'[c] = "STARTING"
        /\ \A d \in Challenges \ {c} : start'[d] = start[d]
    BY <1>1, <1>7, Types DEF StartStatus
  <2>3. TypeOK'
    BY <1>1, <1>2, <1>5, <1>7, <2>1, <2>2 DEF TypeOK, JobRow, StartStatus, Versions
  <2>4. OnlyAt(c)
    BY <1>2, <1>5, <1>7, <2>1, <2>2 DEF OnlyAt
  <2>5. config.policy = "ON_PREPARATION"
    BY <1>7 DEF NeedsStart, Due
  <2>6. Local(c)'
    BY <1>1, <1>2, <1>3, <1>5, <1>7, <2>1, <2>2, <2>5
    DEF Local, PrepareFits, Driven, AssignFits, OthersFit, StartingFits, StartedFits, Unseen, Tombed
  <2>7. QED BY <2>3, <2>4, <2>6, OthersKeep
<1>8. CASE PassesStart(c, "ON_PREPARATION") /\ BeginPreparation(c) /\ UNCHANGED start
  <2>1. life' = [life EXCEPT ![c] = "PREPARING"] /\ Moves(c, "prepare", "detail", remote[c], 0)
    BY <1>1, <1>8, Targets DEF BeginPreparation
  <2>2. /\ job' \in [Challenges -> [Jobs -> JobRow]]
        /\ At(c, "prepare")' = "detail" /\ At(c, "assign")' = "no" /\ (StartsIdle(c)' <=> StartsIdle(c))
        /\ \A r \in Reloads : At(c, r)' = At(c, r)
        /\ \A d \in Challenges \ {c} : job'[d] = job[d]
    BY <1>4, <1>6, <2>1
  <2>3. life' \in [Challenges -> Lifecycles] /\ life'[c] = "PREPARING"
        /\ \A d \in Challenges \ {c} : life'[d] = life[d]
    BY <1>1, <2>1, Types DEF Lifecycles
  <2>4. TypeOK'
    BY <1>1, <1>2, <1>5, <1>8, <2>2, <2>3 DEF TypeOK, JobRow, Versions
  <2>5. OnlyAt(c)
    BY <1>2, <1>5, <1>8, <2>2, <2>3 DEF OnlyAt
  <2>6. config.policy = "ON_PREPARATION" => start[c] = "STARTED"
    BY <1>1, <1>8 DEF PassesStart, Due, Local, StartingFits
  <2>7. start[c] = "STARTING" => config.policy \notin {"ON_PREPARATION", "ON_SOLVER_ASSIGNMENT"}
    BY <1>1, <1>3 DEF Local, StartingFits
  <2>8. Local(c)'
    BY <1>1, <1>2, <1>3, <1>5, <1>8, <2>2, <2>3, <2>6, <2>7
    DEF Local, PrepareFits, Driven, AssignFits, OthersFit, StartingFits, StartedFits, Unseen, Tombed
  <2>9. QED BY <2>4, <2>5, <2>8, OthersKeep
<1>9. QED BY <1>7, <1>8 DEF Prepare

LEMMA StartSolverKeeps ==
  ASSUME IInv, NEW c \in Challenges, StartSolver(c)
  PROVE  IInv'
<1>1. TypeOK /\ Local(c) /\ up = "up" /\ life[c] = "QUEUED" /\ At(c, "assign") = "no"
  BY DEF IInv, StartSolver, At, NoJob
<1>2. UNCHANGED <<config, up, remote, att, file, part, preparing, held, tomb, poll, faults>>
  BY DEF StartSolver
<1>3. c \notin tomb /\ At(c, "prepare") = "no"
  BY <1>1 DEF Local, Tombed, PrepareFits
<1>4. 0 \in Versions /\ "assign" \in Jobs
  BY Names DEF Versions
<1>5. CASE NeedsStart(c, "ON_SOLVER_ASSIGNMENT") /\ start' = [start EXCEPT ![c] = "STARTING"]
           /\ Moves(c, "assign", "ensure", 0, 0) /\ UNCHANGED life
  <2>1. /\ job' \in [Challenges -> [Jobs -> JobRow]]
        /\ At(c, "assign")' = "ensure"
        /\ \A k \in Jobs \ {"assign"} : At(c, k)' = At(c, k)
        /\ \A d \in Challenges \ {c} : job'[d] = job[d]
    BY <1>1, <1>4, <1>5, JobMoves
  <2>2. At(c, "prepare")' = "no" /\ (StartsIdle(c)' <=> StartsIdle(c)) /\ \A r \in Reloads : At(c, r)' = At(c, r)
    BY <1>3, <2>1, Names DEF StartsIdle
  <2>3. /\ start' \in [Challenges -> StartStatus] /\ start'[c] = "STARTING"
        /\ \A d \in Challenges \ {c} : start'[d] = start[d]
    BY <1>1, <1>5, Types DEF StartStatus
  <2>4. TypeOK'
    BY <1>1, <1>2, <1>5, <2>1, <2>3 DEF TypeOK, JobRow, StartStatus, Versions
  <2>5. OnlyAt(c)
    BY <1>2, <1>5, <2>1, <2>3 DEF OnlyAt
  <2>6. config.policy = "ON_SOLVER_ASSIGNMENT"
    BY <1>5 DEF NeedsStart, Due
  <2>7. Local(c)'
    BY <1>1, <1>2, <1>3, <1>5, <2>1, <2>2, <2>3, <2>6
    DEF Local, PrepareFits, Driven, AssignFits, OthersFit, StartingFits, StartedFits, Unseen, Tombed
  <2>8. QED BY <2>4, <2>5, <2>7, OthersKeep
<1>6. CASE PassesStart(c, "ON_SOLVER_ASSIGNMENT") /\ Assign(c) /\ UNCHANGED start
  <2>1. life' = [life EXCEPT ![c] = "ACTIVE"] /\ Ends(c, "assign")
    BY <1>1, <1>6, Targets DEF Assign
  <2>2. /\ job' \in [Challenges -> [Jobs -> JobRow]]
        /\ At(c, "assign")' = "no"
        /\ \A k \in Jobs \ {"assign"} : At(c, k)' = At(c, k)
        /\ \A d \in Challenges \ {c} : job'[d] = job[d]
    BY <1>1, <1>4, <2>1, JobEnds
  <2>3. At(c, "prepare")' = "no" /\ (StartsIdle(c)' <=> StartsIdle(c)) /\ \A r \in Reloads : At(c, r)' = At(c, r)
    BY <1>3, <2>2, Names DEF StartsIdle
  <2>4. life' \in [Challenges -> Lifecycles] /\ life'[c] = "ACTIVE"
        /\ \A d \in Challenges \ {c} : life'[d] = life[d]
    BY <1>1, <2>1, Types DEF Lifecycles
  <2>5. TypeOK'
    BY <1>1, <1>2, <1>6, <2>2, <2>4 DEF TypeOK, JobRow, Versions
  <2>6. OnlyAt(c)
    BY <1>2, <1>6, <2>2, <2>4 DEF OnlyAt
  <2>7. config.policy = "ON_SOLVER_ASSIGNMENT" => start[c] = "STARTED"
    BY <1>1, <1>6 DEF PassesStart, Due, Local, StartingFits
  <2>8. start[c] = "STARTING" => config.policy \notin {"ON_PREPARATION", "ON_SOLVER_ASSIGNMENT"}
    BY <1>1, <1>3 DEF Local, StartingFits
  <2>9. Local(c)'
    BY <1>1, <1>2, <1>3, <1>6, <2>2, <2>3, <2>4, <2>7, <2>8
    DEF Local, PrepareFits, Driven, AssignFits, OthersFit, StartingFits, StartedFits, Unseen, Tombed
  <2>10. QED BY <2>5, <2>6, <2>9, OthersKeep
<1>7. QED BY <1>5, <1>6 DEF StartSolver

(* Steps that change no row that Local reads. *)
LEMMA QuietKeeps ==
  ASSUME IInv, TypeOK', UNCHANGED <<config, up, life, start, att, file, part, job, preparing, tomb>>
  PROVE  IInv'
<1>1. ASSUME NEW c \in Challenges
      PROVE  Local(c)'
  <2>1. Local(c)
    BY DEF IInv
  <2>2. QED
    BY <2>1 DEF Local, PrepareFits, Driven, AssignFits, OthersFit, StartingFits, StartedFits,
       Tombed, Unseen, At, StartsIdle
<1>2. QED BY <1>1 DEF IInv

LEMMA PollStepsKeep ==
  ASSUME IInv, PollAsk \/ PollDetails \/ PollFails
  PROVE  IInv'
<1>1. TypeOK /\ remote \in [Challenges -> Versions] /\ Rest \in PollRow
  <2>1. TypeOK
    BY DEF IInv
  <2>2. remote \in [Challenges -> 1..MaxVersion]
    BY <2>1 DEF TypeOK
  <2>3. remote \in [Challenges -> Versions]
    BY <2>2, Names DEF Versions
  <2>4. QED BY <2>1, <2>3, Types
<1>2. UNCHANGED <<config, up, remote, life, start, att, file, part, job, preparing, held, tomb>>
  BY DEF PollAsk, PollDetails, PollFails
<1>3. Refreshed \in SUBSET Challenges /\ {} \in SUBSET Challenges /\ Challenges \in SUBSET Challenges
  BY DEF Refreshed, Live
<1>4. poll' \in PollRow
  BY <1>1, <1>3 DEF PollAsk, PollDetails, PollFails, PollRow
<1>5. faults' \in 0..MaxFaults
  BY <1>1, FaultBounded DEF PollAsk, PollDetails, PollFails, TypeOK
<1>6. TypeOK'
  BY <1>1, <1>2, <1>4, <1>5 DEF TypeOK, PollRow, Versions
<1>7. QED BY <1>2, <1>6, QuietKeeps

LEMMA BackoffEndsKeeps ==
  ASSUME IInv, NEW c \in Challenges, BackoffEnds(c)
  PROVE  IInv'
<1>1. TypeOK'
  BY DEF IInv, TypeOK, BackoffEnds
<1>2. QED BY <1>1, QuietKeeps DEF BackoffEnds

LEMMA ReplaceKeeps ==
  ASSUME IInv, NEW c \in Challenges, Replace(c)
  PROVE  IInv'
<1>1. remote' \in [Challenges -> 1..MaxVersion]
  BY Names DEF IInv, TypeOK, Replace
<1>2. TypeOK'
  BY <1>1 DEF IInv, TypeOK, Replace
<1>3. QED BY <1>2, QuietKeeps DEF Replace

(* Steps that write the lifecycle of one challenge that nobody prepares.    *)
LEMMA LifeKeeps ==
  ASSUME IInv, NEW c \in Challenges, NEW s \in Lifecycles, NEW t \in Lifecycles, life[c] = s,
         <<s, t>> \in {<<"DISCOVERED", "UNSUPPORTED">>, <<"READY", "QUEUED">>, <<"ERROR", "DISCOVERED">>},
         s = "DISCOVERED" => At(c, "prepare") = "no",
         life' = [life EXCEPT ![c] = t], preparing' \in {preparing, preparing \ {c}},
         UNCHANGED <<config, up, remote, start, file, part, job, tomb, poll, faults>>,
         NEW a \in AttRow, att' = [att EXCEPT ![c] = a], held' \subseteq Challenges
  PROVE  IInv'
<1>1. TypeOK /\ Local(c)
  BY DEF IInv
<1>2. /\ life' \in [Challenges -> Lifecycles] /\ life'[c] = t
      /\ \A d \in Challenges \ {c} : life'[d] = life[d]
  BY <1>1, Types
<1>3. att' \in [Challenges -> AttRow] /\ \A d \in Challenges \ {c} : att'[d] = att[d]
  BY <1>1, Types
<1>4. preparing' \subseteq Challenges /\ \A d \in Challenges \ {c} : d \in preparing' <=> d \in preparing
  BY <1>1 DEF TypeOK
<1>5. TypeOK'
  BY <1>1, <1>2, <1>3, <1>4 DEF TypeOK, AttRow, Versions
<1>6. OnlyAt(c)
  BY <1>2, <1>3, <1>4 DEF OnlyAt
<1>7. At(c, "prepare") = "no" /\ At(c, "assign") = "no" /\ c \notin tomb
  BY <1>1 DEF Local, PrepareFits, AssignFits, Tombed
<1>8. \A j : At(c, j)' = At(c, j)
  BY DEF At
<1>9. Local(c)'
  BY <1>1, <1>2, <1>7, <1>8
  DEF StartsIdle, Local, PrepareFits, Driven, AssignFits, OthersFit, StartingFits, StartedFits, Tombed, Unseen
<1>10. QED BY <1>5, <1>6, <1>9, OthersKeep

LEMMA UnsupportedKeeps ==
  ASSUME IInv, NEW c \in Challenges, Unsupported(c)
  PROVE  IInv'
<1>1. TypeOK /\ Local(c) /\ life[c] = "DISCOVERED" /\ c \notin preparing
  BY DEF IInv, Unsupported
<1>2. At(c, "prepare") = "no"
  BY <1>1 DEF Local, PrepareFits
<1>3. life' = [life EXCEPT ![c] = "UNSUPPORTED"]
  BY <1>1, Targets DEF Unsupported
<1>4. att[c] \in AttRow /\ att' = [att EXCEPT ![c] = att[c]] /\ held' \subseteq Challenges
  BY <1>1, Types DEF Unsupported, TypeOK
<1>5. {"DISCOVERED", "UNSUPPORTED"} \subseteq Lifecycles
  BY DEF Lifecycles
<1>6. UNCHANGED <<config, up, remote, start, file, part, job, preparing, tomb, poll, faults>>
  BY DEF Unsupported
<1>7. QED BY <1>1, <1>2, <1>3, <1>4, <1>5, <1>6, LifeKeeps

LEMMA QueueKeeps ==
  ASSUME IInv, NEW c \in Challenges, Queue(c)
  PROVE  IInv'
<1>1. TypeOK /\ life[c] = "READY"
  BY DEF IInv, Queue
<1>2. life' = [life EXCEPT ![c] = "QUEUED"]
  BY <1>1, Targets DEF Queue
<1>3. att[c] \in AttRow /\ att' = [att EXCEPT ![c] = att[c]] /\ held' \subseteq Challenges
  BY <1>1, Types DEF Queue, TypeOK
<1>4. {"READY", "QUEUED"} \subseteq Lifecycles
  BY DEF Lifecycles
<1>5. UNCHANGED <<config, up, remote, start, file, part, job, preparing, tomb, poll, faults>>
  BY DEF Queue
<1>6. QED BY <1>1, <1>2, <1>3, <1>4, <1>5, LifeKeeps

LEMMA RetryPrepareKeeps ==
  ASSUME IInv, NEW c \in Challenges, RetryPrepare(c)
  PROVE  IInv'
<1>1. TypeOK /\ life[c] = "ERROR"
  BY DEF IInv, RetryPrepare
<1>2. life' = [life EXCEPT ![c] = "DISCOVERED"]
  BY <1>1, Targets DEF RetryPrepare
<1> DEFINE a == [att[c] EXCEPT !.status = IF @ \in {"FAILED", "PENDING", "DOWNLOADING"} THEN "PENDING" ELSE @]
<1>3. a \in AttRow /\ att' = [att EXCEPT ![c] = a]
  BY <1>1, Types DEF RetryPrepare, AttRow
<1> HIDE DEF a
<1>4. {"ERROR", "DISCOVERED"} \subseteq Lifecycles /\ held' \subseteq Challenges
  BY <1>1 DEF Lifecycles, RetryPrepare, TypeOK
<1>5. UNCHANGED <<config, up, remote, start, file, part, job, tomb, poll, faults>> /\ preparing' = preparing \ {c}
  BY DEF RetryPrepare
<1>6. QED BY <1>1, <1>2, <1>3, <1>4, <1>5, LifeKeeps

LEMMA DeleteKeeps ==
  ASSUME IInv, NEW c \in Challenges, Delete(c)
  PROVE  IInv'
<1>1. TypeOK /\ Local(c) /\ life[c] # "ABSENT"
  BY DEF IInv, Delete
<1>2. UNCHANGED <<config, up, remote, job, held, poll, faults>>
  BY DEF Delete
<1>3. /\ life' \in [Challenges -> Lifecycles] /\ life'[c] = "ABSENT"
      /\ \A d \in Challenges \ {c} : life'[d] = life[d]
  BY <1>1, Types DEF Delete, Lifecycles
<1>4. /\ start' \in [Challenges -> StartStatus] /\ start'[c] = "NOT_STARTED"
      /\ \A d \in Challenges \ {c} : start'[d] = start[d]
  BY <1>1, Types DEF Delete, StartStatus
<1>5. /\ att' \in [Challenges -> AttRow] /\ att'[c] = NoRow
      /\ \A d \in Challenges \ {c} : att'[d] = att[d]
  BY <1>1, Types DEF Delete
<1>6. /\ file' \in [Challenges -> {Torn} \cup Versions] /\ file'[c] = 0
      /\ \A d \in Challenges \ {c} : file'[d] = file[d]
  <2>1. 0 \in Versions /\ file \in [Challenges -> {Torn} \cup Versions]
    BY <1>1, Names DEF TypeOK, Versions
  <2>2. QED BY <2>1 DEF Delete
<1>7. /\ part' \in [Challenges -> BOOLEAN] /\ ~part'[c]
      /\ \A d \in Challenges \ {c} : part'[d] = part[d]
  BY <1>1 DEF Delete, TypeOK
<1>8. /\ preparing' \subseteq Challenges /\ tomb' \subseteq Challenges /\ c \in tomb'
      /\ \A d \in Challenges \ {c} : (d \in preparing' <=> d \in preparing) /\ (d \in tomb' <=> d \in tomb)
  BY <1>1 DEF Delete, TypeOK
<1>9. TypeOK'
  BY <1>1, <1>2, <1>3, <1>4, <1>5, <1>6, <1>7, <1>8 DEF TypeOK, AttRow, StartStatus, Versions
<1>10. OnlyAt(c)
  BY <1>2, <1>3, <1>4, <1>5, <1>6, <1>7, <1>8 DEF OnlyAt
<1>11. \A j : At(c, j)' = At(c, j)
  BY <1>2 DEF At
<1>12. Local(c)'
  BY <1>1, <1>2, <1>3, <1>4, <1>5, <1>6, <1>7, <1>8, <1>11
  DEF StartsIdle, Local, PrepareFits, Driven, AssignFits, OthersFit, StartingFits, StartedFits, Tombed, Unseen
<1>13. QED BY <1>9, <1>10, <1>12, OthersKeep
-----------------------------------------------------------------------------
(* The poll writes rows.                                                    *)

LEMMA SyncFileKeeps ==
  ASSUME IInv, NEW c \in Challenges, NEW v \in Versions, SyncFile(c, v), c \notin tomb,
         UNCHANGED <<config, up, remote, life, start, file, part, preparing, held, tomb, faults>>, poll' \in PollRow
  PROVE  IInv'
<1>1. TypeOK /\ Local(c)
  BY DEF IInv
<1>2. /\ att' \in [Challenges -> AttRow] /\ \A d \in Challenges \ {c} : att'[d] = att[d]
  <2> DEFINE a == Upserted(att[c], v)
  <2>1. a \in AttRow
    BY <1>1, Shows, Types
  <2>2. att' = att \/ att' = [att EXCEPT ![c] = a]
    BY DEF SyncFile
  <2> HIDE DEF a
  <2>3. QED BY <1>1, <2>1, <2>2, Types
<1>3. /\ job' \in [Challenges -> [Jobs -> JobRow]] /\ \A d \in Challenges \ {c} : job'[d] = job[d]
      /\ \A j \in Jobs : At(c, j)' = At(c, j) \/ (j \in Reloads /\ At(c, j)' = "detail")
  <2>1. CASE job' = job
    BY <1>1, <2>1, Types DEF At
  <2>2. CASE job' # job
    <3>1. PICK r \in Reloads :
            job' = [job EXCEPT ![c][r] = [NoJob EXCEPT !.at = "detail", !.ver = remote[c]]]
      BY <2>2 DEF SyncFile, Launch
    <3> DEFINE row == [NoJob EXCEPT !.at = "detail", !.ver = remote[c]]
    <3>2. row \in JobRow /\ row.at = "detail"
      <4>1. remote[c] \in Versions
        BY <1>1, Names DEF TypeOK, Versions
      <4>2. QED BY <1>1, <4>1, Types DEF JobRow, NoJob
    <3>3. r \in Jobs /\ job' = [job EXCEPT ![c][r] = row]
      BY <3>1, Names
    <3> HIDE DEF row
    <3>4. /\ job' \in [Challenges -> [Jobs -> JobRow]] /\ At(c, r)' = row.at
          /\ \A k \in Jobs \ {r} : At(c, k)' = At(c, k)
          /\ \A d \in Challenges \ {c} : job'[d] = job[d]
      BY <1>1, <3>2, <3>3, JobWritten
    <3>5. QED BY <3>2, <3>4
  <2>3. QED BY <2>1, <2>2
<1>4. TypeOK'
  BY <1>1, <1>2, <1>3 DEF TypeOK, JobRow, AttRow, PollRow, Versions
<1>5. OnlyAt(c)
  BY <1>2, <1>3 DEF OnlyAt
<1>6. At(c, "prepare")' = At(c, "prepare") /\ At(c, "assign")' = At(c, "assign")
      /\ (StartsIdle(c)' <=> StartsIdle(c)) /\ \A r \in Reloads : At(c, r)' \in {At(c, r), "detail"}
  BY <1>3, Names DEF StartsIdle
<1>7. Local(c)'
  BY <1>1, <1>6
  DEF Local, PrepareFits, Driven, AssignFits, OthersFit, StartingFits, StartedFits, Tombed, Unseen
<1>8. QED BY <1>4, <1>5, <1>7, OthersKeep

LEMMA SyncEntryKeeps ==
  ASSUME IInv, NEW c \in Challenges, SyncEntry(c)
  PROVE  IInv'
<1>1. TypeOK /\ Local(c)
  BY DEF IInv
<1>2. /\ UNCHANGED <<config, up, remote, file, part, preparing, held, tomb, faults>>
      /\ poll' = [poll EXCEPT !.todo = @ \ {c}]
  BY DEF SyncEntry
<1>3. poll' \in PollRow /\ poll.seen[c] \in Versions
  BY <1>1, <1>2, Types DEF PollRow
<1>4. CASE UNCHANGED <<life, start, att, job>>
  <2>1. TypeOK'
    BY <1>1, <1>2, <1>3, <1>4 DEF TypeOK, PollRow, Versions
  <2>2. QED BY <1>2, <1>4, <2>1, QuietKeeps
<1>5. CASE /\ Known(c) /\ life[c] = "ABSENT"
           /\ life' = [life EXCEPT ![c] = "DISCOVERED"]
           /\ start' = [start EXCEPT ![c] = "NOT_STARTED"]
           /\ att' = [att EXCEPT ![c] = IF ListsFiles THEN Upserted(NoRow, poll.seen[c]) ELSE NoRow]
           /\ UNCHANGED job
  <2>1. /\ life' \in [Challenges -> Lifecycles] /\ life'[c] = "DISCOVERED"
        /\ \A d \in Challenges \ {c} : life'[d] = life[d]
    BY <1>1, <1>5, Types DEF Lifecycles
  <2>2. /\ start' \in [Challenges -> StartStatus] /\ start'[c] = "NOT_STARTED"
        /\ \A d \in Challenges \ {c} : start'[d] = start[d]
    BY <1>1, <1>5, Types DEF StartStatus
  <2> DEFINE a == IF ListsFiles THEN Upserted(NoRow, poll.seen[c]) ELSE NoRow
  <2>3. a \in AttRow
    BY <1>1, <1>3, Shows, Types
  <2>4. att' = [att EXCEPT ![c] = a]
    BY <1>5
  <2> HIDE DEF a
  <2>5. att' \in [Challenges -> AttRow] /\ \A d \in Challenges \ {c} : att'[d] = att[d]
    BY <1>1, <2>3, <2>4, Types
  <2>6. TypeOK'
    BY <1>1, <1>2, <1>3, <1>5, <2>1, <2>2, <2>5 DEF TypeOK, PollRow, AttRow, StartStatus, Versions
  <2>7. OnlyAt(c)
    BY <1>2, <1>5, <2>1, <2>2, <2>5 DEF OnlyAt
  <2>8. c \notin tomb /\ At(c, "prepare") = "no" /\ At(c, "assign") = "no"
    BY <1>1, <1>5 DEF Known, Local, Unseen
  <2>9. \A j : At(c, j)' = At(c, j)
    BY <1>5 DEF At
  <2>10. Local(c)'
    BY <1>1, <1>2, <2>1, <2>2, <2>8, <2>9
    DEF StartsIdle, Local, PrepareFits, Driven, AssignFits, OthersFit, StartingFits, StartedFits, Tombed, Unseen
  <2>11. QED BY <2>6, <2>7, <2>10, OthersKeep
<1>6. CASE Known(c) /\ SyncFile(c, poll.seen[c]) /\ UNCHANGED <<life, start>>
  BY <1>2, <1>3, <1>6, SyncFileKeeps DEF Known
<1>7. QED BY <1>4, <1>5, <1>6 DEF SyncEntry

LEMMA RefreshDetailKeeps ==
  ASSUME IInv, NEW c \in Challenges, RefreshDetail(c)
  PROVE  IInv'
<1>1. TypeOK /\ Local(c)
  BY DEF IInv
<1>2. /\ UNCHANGED <<config, up, remote, life, start, file, part, preparing, held, tomb>>
      /\ poll' = [poll EXCEPT !.todo = @ \ {c}, !.seen = remote]
  BY DEF RefreshDetail
<1>3. remote \in [Challenges -> Versions] /\ remote[c] \in Versions
  BY <1>1, Names DEF TypeOK, Versions
<1>4. poll' \in PollRow
  BY <1>1, <1>2, <1>3, Types DEF PollRow
<1>5. CASE UNCHANGED <<att, job>> /\ faults' \in 0..MaxFaults
  <2>1. TypeOK'
    BY <1>1, <1>2, <1>4, <1>5 DEF TypeOK, PollRow, Versions
  <2>2. QED BY <1>2, <1>5, <2>1, QuietKeeps
<1>6. CASE Known(c) /\ SyncFile(c, remote[c]) /\ UNCHANGED faults
  BY <1>2, <1>3, <1>4, <1>6, SyncFileKeeps DEF Known
<1>7. faults' = faults => faults' \in 0..MaxFaults
  BY <1>1 DEF TypeOK
<1>8. QED BY <1>1, <1>5, <1>6, <1>7, FaultBounded DEF RefreshDetail

LEMMA PollEndKeeps ==
  ASSUME IInv, PollEnd
  PROVE  IInv'
<1> DEFINE due == IF config.policy = "ON_DISCOVERY"
                  THEN {c \in Challenges : life[c] # "ABSENT" /\ start[c] = "NOT_STARTED"} ELSE {}
           row == [NoJob EXCEPT !.at = "ensure"]
           free(c) == IF job[c]["start"] = NoJob THEN "start" ELSE "again"
<1>1. TypeOK
  BY DEF IInv
<1>2. /\ UNCHANGED <<config, up, remote, life, att, file, part, preparing, held, tomb, faults>> /\ poll' = Rest
      /\ start' = [c \in Challenges |-> IF c \in due THEN "STARTING" ELSE start[c]]
      /\ job' = [c \in Challenges |-> IF c \in due THEN [job[c] EXCEPT ![free(c)] = row] ELSE job[c]]
  BY DEF PollEnd
<1>3. row \in JobRow /\ row.at = "ensure" /\ \A c : free(c) \in {"start", "again"} /\ free(c) \in Jobs
  BY <1>1, Types, Names DEF JobRow, NoJob
<1>4. \A c \in due : c \notin tomb /\ config.policy = "ON_DISCOVERY"
  BY DEF IInv, Local, Tombed
<1> HIDE DEF due, row, free
<1>5. ASSUME NEW c \in Challenges
      PROVE  /\ start'[c] \in StartStatus /\ (start'[c] = start[c] \/ c \in due)
             /\ job'[c] \in [Jobs -> JobRow]
             /\ \A j \in Jobs : At(c, j)' = At(c, j) \/ (j \in {"start", "again"} /\ c \in due)
  <2>1. job[c] \in [Jobs -> JobRow] /\ start[c] \in StartStatus
    BY <1>1, Types
  <2>2. CASE c \in due
    BY <1>2, <1>3, <2>1, <2>2 DEF At, StartStatus
  <2>3. CASE c \notin due
    BY <1>2, <2>1, <2>3 DEF At
  <2>4. QED BY <2>2, <2>3
<1>6. TypeOK'
  <2>1. job' \in [Challenges -> [Jobs -> JobRow]]
    <3> DEFINE new(c) == IF c \in due THEN [job[c] EXCEPT ![free(c)] = row] ELSE job[c]
    <3>1. job' = [c \in Challenges |-> new(c)]
      BY <1>2
    <3>2. \A c \in Challenges : job'[c] = new(c)
      BY <3>1
    <3> HIDE DEF new
    <3>3. \A c \in Challenges : new(c) \in [Jobs -> JobRow]
      BY <1>5, <3>2
    <3>4. QED BY <3>1, <3>3
  <2>2. start' \in [Challenges -> StartStatus]
    BY <1>2, <1>5
  <2>3. QED BY <1>1, <1>2, <2>1, <2>2, Types DEF TypeOK, JobRow, StartStatus, PollRow, Versions
<1>7. ASSUME NEW c \in Challenges
      PROVE  Local(c)'
  <2>1. Local(c)
    BY DEF IInv
  <2>2. /\ At(c, "prepare")' = At(c, "prepare") /\ At(c, "assign")' = At(c, "assign")
        /\ (StartsIdle(c)' <=> StartsIdle(c)) \/ c \in due
    BY <1>5, Names DEF StartsIdle
  <2>3. \A r \in Reloads : At(c, r)' = At(c, r)
    BY <1>5, Names
  <2>4. start'[c] = start[c] \/ c \in due
    BY <1>5
  <2>5. QED
    BY <1>2, <1>4, <2>1, <2>2, <2>3, <2>4
    DEF Local, PrepareFits, Driven, AssignFits, OthersFit, StartingFits, StartedFits, Tombed, Unseen
<1>8. QED BY <1>6, <1>7 DEF IInv
-----------------------------------------------------------------------------
(* The process.                                                             *)

LEMMA CrashKeeps ==
  ASSUME IInv, Crash
  PROVE  IInv'
<1>1. TypeOK
  BY DEF IInv
<1>2. /\ up' = "down" /\ preparing' = {} /\ held' = {} /\ poll' = Rest
      /\ job' = [c \in Challenges |-> [j \in Jobs |-> NoJob]]
      /\ UNCHANGED <<config, remote, life, start, att, file, part, tomb>> /\ faults' \in 0..MaxFaults
  BY <1>1, FaultBounded DEF Crash
<1>3. TypeOK'
  <2>1. job' \in [Challenges -> [Jobs -> JobRow]]
    BY <1>1, <1>2, Types
  <2>2. QED BY <1>1, <1>2, <2>1, Types DEF TypeOK, JobRow, PollRow, Versions
<1>4. ASSUME NEW c \in Challenges
      PROVE  Local(c)'
  <2>1. Local(c)
    BY DEF IInv
  <2>2. \A j \in Jobs : At(c, j)' = "no"
    BY <1>2 DEF At, NoJob
  <2>3. At(c, "prepare")' = "no" /\ At(c, "assign")' = "no" /\ At(c, "start")' = "no" /\ At(c, "again")' = "no"
        /\ \A r \in Reloads : At(c, r)' = "no"
    BY <2>2, Names
  <2>4. QED
    BY <1>2, <2>1, <2>3
    DEF StartsIdle, Local, PrepareFits, Driven, AssignFits, OthersFit, StartingFits, StartedFits, Tombed, Unseen
<1>5. QED BY <1>3, <1>4 DEF IInv

LEMMA BootKeeps ==
  ASSUME IInv, Boot
  PROVE  IInv'
<1>1. TypeOK'
  BY DEF IInv, TypeOK, Boot
<1>2. ASSUME NEW c \in Challenges
      PROVE  Local(c)'
  <2>1. Local(c) /\ up = "down"
    BY DEF IInv, Boot
  <2>2. /\ up' = "boot" /\ UNCHANGED <<config, life, start, att, file, part, preparing, tomb>>
        /\ \A j : At(c, j)' = At(c, j)
    BY DEF Boot, At
  <2>3. QED
    BY <2>1, <2>2
    DEF StartsIdle, Local, PrepareFits, Driven, AssignFits, OthersFit, StartingFits, StartedFits, Tombed, Unseen
<1>3. QED BY <1>1, <1>2 DEF IInv

LEMMA RecoverKeeps ==
  ASSUME IInv, Recover
  PROVE  IInv'
<1>1. TypeOK
  BY DEF IInv
<1>2. UNCHANGED <<config, remote, file, job, preparing, held, tomb, poll, faults>> /\ up = "boot" /\ up' = "up"
  BY DEF Recover
<1>3. ASSUME NEW c \in Challenges
      PROVE  /\ att'[c] \in AttRow /\ (att[c] = NoRow => att'[c] = NoRow) /\ ~part'[c]
             /\ start'[c] \in StartStatus \ {"STARTING"} /\ (start[c] # "STARTING" => start'[c] = start[c])
             /\ life'[c] \in Lifecycles
             /\ \/ life[c] \notin {"PREPARING", "ACTIVE"} /\ life'[c] = life[c]
                \/ life[c] = "PREPARING" /\ life'[c] = "DISCOVERED"
                \/ life[c] = "ACTIVE" /\ life'[c] = "QUEUED"
  <2>1. att'[c] \in AttRow /\ (att[c] = NoRow => att'[c] = NoRow)
    <3>1. att[c] \in AttRow
      BY <1>1, Types
    <3>2. att'[c] = [att[c] EXCEPT !.status = IF @ = "DOWNLOADING" THEN "PENDING" ELSE @]
      BY DEF Recover
    <3>3. QED BY <3>1, <3>2 DEF AttRow, NoRow
  <2>2. start'[c] \in StartStatus \ {"STARTING"} /\ (start[c] # "STARTING" => start'[c] = start[c])
    <3>1. start[c] \in StartStatus
      BY <1>1, Types
    <3>2. QED BY <3>1 DEF Recover, StartStatus
  <2>3. life[c] \in Lifecycles /\ life'[c] = Recovered(life[c])
    BY <1>1, Types DEF Recover
  <2>4. \/ life[c] \notin {"PREPARING", "ACTIVE"} /\ life'[c] = life[c]
        \/ life[c] = "PREPARING" /\ life'[c] = "DISCOVERED"
        \/ life[c] = "ACTIVE" /\ life'[c] = "QUEUED"
    BY <2>3, Targets DEF Recovered
  <2>5. QED BY <2>1, <2>2, <2>3, <2>4 DEF Recover, Lifecycles
<1>4. TypeOK'
  <2>1. /\ att' \in [Challenges -> AttRow] /\ start' \in [Challenges -> StartStatus]
        /\ life' \in [Challenges -> Lifecycles] /\ part' \in [Challenges -> BOOLEAN]
    BY <1>3 DEF Recover
  <2>2. QED BY <1>1, <1>2, <2>1 DEF TypeOK, AttRow, StartStatus, Versions
<1>5. ASSUME NEW c \in Challenges
      PROVE  Local(c)'
  <2>1. Local(c)
    BY DEF IInv
  <2>2. /\ At(c, "prepare")' = "no" /\ At(c, "assign")' = "no"
        /\ \A j : At(c, j)' = At(c, j)
    BY <1>2, <2>1 DEF Local, PrepareFits, AssignFits, At
  <2>3. PrepareFits(c)' /\ AssignFits(c)' /\ Unseen(c)'
    BY <2>2 DEF PrepareFits, AssignFits, Unseen
  <2>4. OthersFit(c)'
    BY <1>2, <2>1, <2>2 DEF Local, OthersFit, StartsIdle
  <2>5. Driven(c)' /\ StartingFits(c)'
    BY <1>3 DEF Driven, StartingFits
  <2>6. StartedFits(c)'
    BY <1>2, <1>3, <2>1 DEF Local, StartedFits
  <2>7. Tombed(c)'
    BY <1>2, <1>3, <2>1 DEF Local, Tombed
  <2>8. QED BY <2>3, <2>4, <2>5, <2>6, <2>7 DEF Local
<1>6. QED BY <1>4, <1>5 DEF IInv
-----------------------------------------------------------------------------
LEMMA IntakeInit == Init => IInv
<1> SUFFICES ASSUME Init
             PROVE  IInv
  OBVIOUS
<1>1. 0 \in Versions /\ 1 \in 1..MaxVersion /\ 0 \in 0..MaxFaults
  BY Names DEF Versions
<1>2. TypeOK
  <2>1. job \in [Challenges -> [Jobs -> JobRow]] /\ att \in [Challenges -> AttRow] /\ poll \in PollRow
    BY <1>1 DEF Init, NoJob, NoRow, Rest, JobRow, AttRow, PollRow
  <2>2. QED BY <1>1, <2>1 DEF Init, TypeOK, JobRow, AttRow, PollRow, Versions, Lifecycles
<1>3. ASSUME NEW c \in Challenges
      PROVE  Local(c)
  <2>1. \A j \in Jobs : At(c, j) = "no"
    BY DEF Init, At, NoJob
  <2>2. /\ At(c, "prepare") = "no" /\ At(c, "assign") = "no" /\ At(c, "start") = "no" /\ At(c, "again") = "no"
        /\ \A r \in Reloads : At(c, r) = "no"
    BY <2>1, Names
  <2>3. life[c] = "ABSENT" /\ start[c] = "NOT_STARTED" /\ c \notin tomb
    BY DEF Init
  <2>4. QED
    BY <2>2, <2>3
    DEF StartsIdle, Local, PrepareFits, Driven, AssignFits, OthersFit, StartingFits, StartedFits, Tombed, Unseen
<1>4. QED BY <1>2, <1>3 DEF IInv

LEMMA IntakeStep == IInv /\ [Next]_vars => IInv'
<1> SUFFICES ASSUME IInv, [Next]_vars
             PROVE  IInv'
  OBVIOUS
<1>1. CASE UNCHANGED vars
  <2>1. TypeOK'
    BY <1>1 DEF IInv, TypeOK, vars
  <2>2. QED BY <1>1, <2>1, QuietKeeps DEF vars
<1>2. CASE Polling
  BY <1>2, PollStepsKeep, PollEndKeeps, SyncEntryKeeps, RefreshDetailKeeps DEF Polling
<1>3. CASE Boot \/ Recover \/ Crash
  BY <1>3, BootKeeps, RecoverKeeps, CrashKeeps
<1>4. ASSUME NEW c \in Challenges, Contest(c)
      PROVE  IInv'
  <2>1. ASSUME NEW j \in Jobs, StartSucceeds(c, j) \/ \E k \in Faults : StartFails(c, j, k)
        PROVE  IInv'
    BY <2>1, StartSucceedsKeeps, StartFailsKeeps
  <2>2. ASSUME NEW j \in Downloaders, DetailArrives(c, j) \/ DownloadCompletes(c, j) \/ SizeMismatch(c, j)
        PROVE  IInv'
    BY <2>2, DetailArrivesKeeps, DownloadCompletesKeeps, SizeMismatchKeeps
  <2>3. ASSUME NEW j \in Downloaders, NEW k \in Faults, DetailFails(c, j, k) \/ DownloadFails(c, j, k)
        PROVE  IInv'
    BY <2>3, DetailFailsKeeps, DownloadFailsKeeps
  <2>4. QED BY <1>4, <2>1, <2>2, <2>3 DEF Contest
<1>5. ASSUME NEW c \in Challenges, Gate(c)
      PROVE  IInv'
  BY <1>5, DownloadBeginsKeeps, NoDiskKeeps DEF Gate
<1>6. ASSUME NEW c \in Challenges, Tick(c)
      PROVE  IInv'
  BY <1>6, PrepareKeeps, UnsupportedKeeps, QueueKeeps, StartSolverKeeps DEF Tick
<1>7. ASSUME NEW c \in Challenges, BackoffEnds(c) \/ Human(c) \/ Replace(c)
      PROVE  IInv'
  BY <1>7, BackoffEndsKeeps, RetryPrepareKeeps, DeleteKeeps, ReplaceKeeps DEF Human
<1>8. QED BY <1>1, <1>2, <1>3, <1>4, <1>5, <1>6, <1>7 DEF Next

(* What the intake promises of a challenge follows from what is so of it.   *)
LEMMA PromisesKept == IInv => PreparationInv
<1> SUFFICES ASSUME IInv
             PROVE  PreparationInv
  OBVIOUS
<1>1. TypeOK
  BY DEF IInv
<1>2. PreparingIsDriven
  BY DEF IInv, Local, Driven, PrepareFits, PreparingIsDriven, At
<1>3. WorkIsStarted
  <2>1. config.policy \in {"ON_DISCOVERY", "ON_PREPARATION", "ON_SOLVER_ASSIGNMENT"}
    BY <1>1, IntakeAssumption DEF TypeOK, Config
  <2>2. QED BY <2>1 DEF IInv, Local, StartedFits, WorkIsStarted
<1>4. DeletedStaysDeleted
  BY <1>1 DEF IInv, Local, Tombed, DeletedStaysDeleted, TypeOK
<1>5. QED BY <1>1, <1>2, <1>3, <1>4 DEF PreparationInv

(* Whatever fails, is retried, deleted, replaced or interrupted: a          *)
(* PREPARING challenge has a #prepare that will decide about it, a solver   *)
(* works on a challenge the contest started, what the human deleted stays   *)
(* deleted (#prepare, #startSolver, syncRemoteChallenge, deleteChallenge).  *)
THEOREM PreparationIsSound == Spec => []PreparationInv
<1>1. Init => IInv
  BY IntakeInit
<1>2. IInv /\ [Next]_vars => IInv'
  BY IntakeStep
<1>3. IInv => PreparationInv
  BY PromisesKept
<1>4. QED BY <1>1, <1>2, <1>3, PTL DEF Spec
-----------------------------------------------------------------------------
(* From READY on, the file is there. What that rests on: a challenge        *)
(* without a row has no attachment row either, and every download knows the *)
(* version it fetches.                                                      *)

HasFile(c) == life[c] \in InPlay => file[c] # 0

HasRow(c) == life[c] = "ABSENT" => att[c] = NoRow

NamesVersion(c) ==
  /\ \A j \in Downloaders : At(c, j) \in {"detail", "gate", "stream"} => job[c][j].ver # 0
  /\ \A r \in Reloads : At(c, r) = "detail" => att[c].url # 0 \/ c \in tomb

FilesFit(c) == HasFile(c) /\ HasRow(c) /\ NamesVersion(c)

(* What a poll has seen of a challenge is a version. *)
PollFits == poll.at # "idle" => \A c \in Challenges : poll.seen[c] # 0

FInv == PollFits /\ \A c \in Challenges : FilesFit(c)

(* A download keeps its stage and its version, ends, or has a version of a  *)
(* file that the row names.                                                 *)
JobsNameVersions(c) ==
  \A j \in Downloaders :
    \/ job'[c][j] = job[c][j]
    \/ At(c, j)' \in {"no", "ensure"}
    \/ At(c, j) # "no" /\ job'[c][j].ver = job[c][j].ver /\ At(c, j)' # "detail"
         /\ At(c, j) # "ensure"
    \/ job'[c][j].ver # 0 /\ (At(c, j)' = "detail" /\ j \in Reloads => att'[c].url # 0)

LEMMA FitsOn ==
  ASSUME NEW c \in Challenges, TypeOK, FilesFit(c), JobsNameVersions(c), HasFile(c)', HasRow(c)',
         att[c].url # 0 => att'[c].url # 0 \/ c \in tomb', c \in tomb => c \in tomb'
  PROVE  FilesFit(c)'
<1>1. ASSUME NEW j \in Downloaders, At(c, j)' \in {"detail", "gate", "stream"}
      PROVE  job'[c][j].ver # 0
  <2>1. At(c, j) \in {"no", "ensure", "detail", "gate", "stream"}
    BY Names, Types DEF At, JobRow
  <2>2. QED BY <1>1, <2>1 DEF JobsNameVersions, FilesFit, NamesVersion, At
<1>2. ASSUME NEW r \in Reloads, At(c, r)' = "detail"
      PROVE  att'[c].url # 0 \/ c \in tomb'
  BY <1>2 DEF JobsNameVersions, FilesFit, NamesVersion, At, Downloaders
<1>3. QED BY <1>1, <1>2 DEF FilesFit, NamesVersion

(* Nothing of it changes. *)
LEMMA Untouched ==
  ASSUME NEW c \in Challenges, TypeOK, FilesFit(c), job'[c] = job[c], life'[c] = life[c],
         att'[c] = att[c], file'[c] = file[c], c \in tomb => c \in tomb'
  PROVE  FilesFit(c)'
BY DEF FilesFit, NamesVersion, HasFile, HasRow, At

LEMMA OtherFiles ==
  ASSUME IInv, FInv, NEW c \in Challenges, PollFits', FilesFit(c)', tomb \subseteq tomb',
         \A d \in Challenges \ {c} : /\ job'[d] = job[d] /\ life'[d] = life[d]
                                     /\ att'[d] = att[d] /\ file'[d] = file[d]
  PROVE  FInv'
<1>1. ASSUME NEW d \in Challenges, d # c
      PROVE  FilesFit(d)'
  BY <1>1, Untouched DEF FInv, IInv
<1>2. QED BY <1>1 DEF FInv

(* The two ends of a download. *)
LEMMA ThrowsFile ==
  ASSUME IInv, NEW c \in Challenges, NEW j \in Downloaders, NEW kind, Throws(c, j, kind),
         At(c, j) \in {"detail", "gate", "stream"}
  PROVE  /\ life'[c] \in InPlay \cup {"ABSENT"} => life'[c] = life[c]
         /\ life[c] = "ABSENT" => life'[c] = "ABSENT"
         /\ JobsNameVersions(c)
         /\ \A d \in Challenges \ {c} : job'[d] = job[d] /\ life'[d] = life[d]
<1>1. TypeOK /\ Local(c) /\ j \in Jobs
  BY Names DEF IInv
<1>2. /\ At(c, j)' = "no"
      /\ \A k \in Jobs \ {j} : job'[c][k] = job[c][k]
      /\ \A d \in Challenges \ {c} : job'[d] = job[d]
  BY <1>1, Types DEF Throws, Ends, At, NoJob
<1>3. JobsNameVersions(c)
  BY <1>2, Names DEF JobsNameVersions
<1>4. CASE j # "prepare"
  BY <1>2, <1>3, <1>4 DEF Throws
<1>5. CASE j = "prepare"
  <2>1. life[c] \in {"ABSENT", "PREPARING"}
    BY <1>1, <1>5 DEF Local, PrepareFits
  <2>2. \/ life[c] = "ABSENT" /\ life' = life
        \/ life[c] = "PREPARING" /\ \E s \in {"ERROR", "DISCOVERED"} : life' = [life EXCEPT ![c] = s]
    BY <1>5, <2>1, Targets DEF Throws, PrepareThrows
  <2>3. QED BY <1>1, <1>2, <1>3, <2>2, Types DEF InPlay
<1>6. QED BY <1>4, <1>5

LEMMA FinishesFile ==
  ASSUME IInv, NEW c \in Challenges, NEW j \in Downloaders, Finishes(c, j),
         At(c, j) \in {"detail", "gate", "stream"}
  PROVE  /\ life'[c] = "ABSENT" <=> life[c] = "ABSENT"
         /\ JobsNameVersions(c)
         /\ \A d \in Challenges \ {c} : job'[d] = job[d] /\ life'[d] = life[d]
<1>1. TypeOK /\ Local(c) /\ j \in Jobs
  BY Names DEF IInv
<1>2. /\ At(c, j)' = "no"
      /\ \A k \in Jobs \ {j} : job'[c][k] = job[c][k]
      /\ \A d \in Challenges \ {c} : job'[d] = job[d]
  BY <1>1, Types DEF Finishes, Ends, At, NoJob
<1>3. JobsNameVersions(c)
  BY <1>2, Names DEF JobsNameVersions
<1>4. CASE j # "prepare"
  BY <1>2, <1>3, <1>4 DEF Finishes
<1>5. CASE j = "prepare"
  <2>1. life[c] \in {"ABSENT", "PREPARING"}
    BY <1>1, <1>5 DEF Local, PrepareFits
  <2>2. life' = [life EXCEPT ![c] = IF life[c] = "ABSENT" THEN "ABSENT" ELSE "READY"]
    BY <1>5, <2>1, Targets DEF Finishes, PrepareSucceeds
  <2>3. QED BY <1>1, <1>2, <1>3, <2>2, Types
<1>6. QED BY <1>4, <1>5

LEMMA MovesFile ==
  ASSUME TypeOK, NEW c \in Challenges, NEW j \in Jobs, NEW at \in {"ensure", "detail", "gate", "stream"},
         NEW v, NEW s, Moves(c, j, at, v, s),
         at \in {"gate", "stream"} \/ j = "prepare" => at = "ensure" \/ v # 0,
         at = "detail" => j = "prepare"
  PROVE  /\ JobsNameVersions(c)
         /\ \A d \in Challenges \ {c} : job'[d] = job[d]
<1>1. /\ job'[c][j] = [at |-> at, ver |-> v, size |-> s, shared |-> FALSE]
      /\ \A k \in Jobs \ {j} : job'[c][k] = job[c][k]
      /\ \A d \in Challenges \ {c} : job'[d] = job[d]
  BY Types DEF Moves
<1>2. QED BY <1>1, Names DEF JobsNameVersions, At
-----------------------------------------------------------------------------
LEMMA DetailArrivesFile ==
  ASSUME IInv, FInv, NEW c \in Challenges, NEW j \in Downloaders, DetailArrives(c, j)
  PROVE  FInv'
<1>1. TypeOK /\ Local(c) /\ FilesFit(c) /\ j \in Jobs /\ At(c, j) = "detail"
  BY Names DEF IInv, FInv, DetailArrives, At
<1>2. PICK v \in {job[c][j].ver, remote[c]} :
        LET row == IF j = "prepare" THEN Upserted(att[c], v) ELSE att[c]
        IN /\ att' = IF life[c] = "ABSENT" THEN att ELSE [att EXCEPT ![c] = row]
           /\ CASE life[c] = "ABSENT" -> Throws(c, j, "fatal")
                [] life[c] # "ABSENT" /\ Needed(c, row) ->
                     Moves(c, j, "gate", row.url, row.size) /\ UNCHANGED <<life, preparing, held>>
                [] OTHER -> Finishes(c, j)
  BY DEF DetailArrives
<1> DEFINE row == IF j = "prepare" THEN Upserted(att[c], v) ELSE att[c]
<1>3. UNCHANGED <<file, tomb, poll>>
  BY DEF DetailArrives
<1>4. PollFits'
  BY <1>3 DEF FInv, PollFits
<1>5. CASE life[c] = "ABSENT"
  <2>1. Throws(c, j, "fatal") /\ att' = att
    BY <1>2, <1>5
  <2>2. HasFile(c)' /\ HasRow(c)'
    BY <1>1, <1>3, <1>5, <2>1, ThrowsFile DEF HasFile, HasRow, FilesFit, InPlay
  <2>3. FilesFit(c)'
    BY <1>1, <1>3, <2>1, <2>2, ThrowsFile, FitsOn
  <2>4. QED BY <1>1, <1>3, <1>4, <2>1, <2>3, ThrowsFile, OtherFiles
<1>6. CASE life[c] # "ABSENT"
  <2>1. v # 0
    BY <1>1, Names DEF FilesFit, NamesVersion, TypeOK
  <2>2. row.url # 0
    <3>1. CASE j = "prepare"
      <4>1. att[c] \in AttRow /\ job[c][j] \in JobRow
        BY <1>1, Types
      <4>2. job[c][j].ver \in Versions /\ remote[c] \in Versions
        BY <1>1, <4>1, Names DEF JobRow, TypeOK, Versions
      <4>3. v \in Versions
        BY <1>2, <4>2
      <4>4. QED BY <2>1, <3>1, <4>1, <4>3, Shows
    <3>2. CASE j # "prepare"
      <4>1. j \in Reloads /\ c \notin tomb
        BY <1>1, <1>6, <3>2 DEF Downloaders, Local, Tombed
      <4>2. QED BY <1>1, <3>2, <4>1 DEF FilesFit, NamesVersion
    <3>3. QED BY <3>1, <3>2
  <2>3. att' = [att EXCEPT ![c] = row]
    BY <1>2, <1>6
  <2> HIDE DEF row
  <2>4. att'[c].url # 0 /\ \A d \in Challenges \ {c} : att'[d] = att[d]
    BY <1>1, <2>2, <2>3, Types
  <2>5. \/ Needed(c, row) /\ Moves(c, j, "gate", row.url, row.size) /\ UNCHANGED life
        \/ ~Needed(c, row) /\ Finishes(c, j)
    BY <1>2, <1>6 DEF row
  <2>6. CASE Needed(c, row) /\ Moves(c, j, "gate", row.url, row.size) /\ UNCHANGED life
    <3>1. JobsNameVersions(c) /\ \A d \in Challenges \ {c} : job'[d] = job[d]
      BY <1>1, <2>2, <2>6, MovesFile
    <3>2. HasFile(c)' /\ HasRow(c)'
      BY <1>1, <1>3, <1>6, <2>6 DEF HasFile, HasRow, FilesFit
    <3>3. FilesFit(c)'
      BY <1>1, <1>3, <2>4, <3>1, <3>2, FitsOn
    <3>4. QED BY <1>3, <1>4, <2>4, <2>6, <3>1, <3>3, OtherFiles
  <2>7. CASE ~Needed(c, row) /\ Finishes(c, j)
    <3>1. file'[c] # 0
      BY <1>3, <2>7 DEF Needed
    <3>2. HasFile(c)' /\ HasRow(c)'
      BY <1>1, <1>6, <2>7, <3>1, FinishesFile DEF HasFile, HasRow
    <3>3. FilesFit(c)'
      BY <1>1, <1>3, <2>4, <2>7, <3>2, FinishesFile, FitsOn
    <3>4. QED BY <1>1, <1>3, <1>4, <2>4, <2>7, <3>3, FinishesFile, OtherFiles
  <2>8. QED BY <2>5, <2>6, <2>7
<1>7. QED BY <1>5, <1>6

(* A download that fails leaves the file and the version of the row. *)
LEMMA FailureFile ==
  ASSUME IInv, FInv, NEW c \in Challenges, NEW j \in Downloaders, NEW kind, Throws(c, j, kind),
         At(c, j) \in {"detail", "gate", "stream"}, UNCHANGED <<file, tomb, poll>>,
         \/ att' = att
         \/ life[c] # "ABSENT" /\ \E s : att' = [att EXCEPT ![c].status = s]
  PROVE  FInv'
<1>1. TypeOK /\ FilesFit(c)
  BY DEF IInv, FInv
<1>2. /\ \A d \in Challenges \ {c} : att'[d] = att[d]
      /\ att'[c].url = att[c].url
      /\ life[c] = "ABSENT" => att'[c] = att[c]
  BY <1>1, Types DEF AttRow
<1>3. HasFile(c)' /\ HasRow(c)'
  BY <1>1, <1>2, ThrowsFile DEF HasFile, HasRow, FilesFit
<1>4. FilesFit(c)'
  BY <1>1, <1>2, <1>3, ThrowsFile, FitsOn
<1>5. QED BY <1>2, <1>4, ThrowsFile, OtherFiles DEF FInv, PollFits

LEMMA FailuresFile ==
  ASSUME IInv, FInv, NEW c \in Challenges, NEW j \in Downloaders, NEW kind,
         DetailFails(c, j, kind) \/ DownloadFails(c, j, kind) \/ NoDisk(c, j) \/ SizeMismatch(c, j)
  PROVE  FInv'
<1>1. CASE DetailFails(c, j, kind)
  BY <1>1, FailureFile DEF DetailFails, At
<1>2. CASE DownloadFails(c, j, kind)
  BY <1>2, FailureFile DEF DownloadFails, At
<1>3. CASE NoDisk(c, j)
  BY <1>3, FailureFile DEF NoDisk, At
<1>4. CASE SizeMismatch(c, j)
  BY <1>4, FailureFile DEF SizeMismatch, At
<1>5. QED BY <1>1, <1>2, <1>3, <1>4

LEMMA DownloadCompletesFile ==
  ASSUME IInv, FInv, NEW c \in Challenges, NEW j \in Downloaders, DownloadCompletes(c, j)
  PROVE  FInv'
<1>1. TypeOK /\ Local(c) /\ FilesFit(c) /\ j \in Jobs /\ At(c, j) = "stream" /\ UNCHANGED <<tomb, poll>>
  BY Names DEF IInv, FInv, DownloadCompletes, At
<1>2. CASE ~part[c]
  BY <1>1, <1>2, FailureFile DEF DownloadCompletes
<1>3. CASE part[c]
  <2>1. PICK v \in {job[c][j].ver, Torn} : file' = [file EXCEPT ![c] = v]
    BY <1>3 DEF DownloadCompletes
  <2>2. /\ Finishes(c, j)
        /\ IF life[c] = "ABSENT" THEN UNCHANGED att ELSE Complete(c, job[c][j].ver)
    BY <1>3 DEF DownloadCompletes
  <2>3. job[c][j].ver # 0
    BY <1>1 DEF FilesFit, NamesVersion
  <2>4. file'[c] # 0 /\ \A d \in Challenges \ {c} : file'[d] = file[d]
    BY <1>1, <2>1, <2>3 DEF Torn, TypeOK
  <2>5. /\ att[c].url # 0 => att'[c].url # 0
        /\ life[c] = "ABSENT" => att'[c] = att[c]
        /\ \A d \in Challenges \ {c} : att'[d] = att[d]
    <3>1. att \in [Challenges -> AttRow]
      BY <1>1, Types
    <3>2. att' = att \/ (life[c] # "ABSENT"
            /\ att' = [att EXCEPT ![c] = [@ EXCEPT !.status = "DOWNLOADED", !.size = Size(job[c][j].ver)]])
      BY <2>2, <3>1 DEF Complete
    <3>3. QED BY <3>1, <3>2 DEF AttRow
  <2>6. HasFile(c)' /\ HasRow(c)'
    BY <1>1, <2>2, <2>4, <2>5, FinishesFile DEF HasFile, HasRow, FilesFit
  <2>7. FilesFit(c)'
    BY <1>1, <2>2, <2>5, <2>6, FinishesFile, FitsOn
  <2>8. PollFits'
    BY <1>1 DEF FInv, PollFits
  <2>9. QED BY <1>1, <2>2, <2>4, <2>5, <2>7, <2>8, FinishesFile, OtherFiles
<1>4. QED BY <1>2, <1>3

LEMMA DownloadBeginsFile ==
  ASSUME IInv, FInv, NEW c \in Challenges, NEW j \in Downloaders, DownloadBegins(c, j)
  PROVE  FInv'
<1>1. TypeOK /\ FilesFit(c) /\ j \in Jobs /\ At(c, j) = "gate" /\ UNCHANGED <<file, tomb, poll>>
  BY Names DEF IInv, FInv, DownloadBegins, At
<1>2. CASE life[c] = "ABSENT"
  BY <1>1, <1>2, FailureFile DEF DownloadBegins
<1>3. CASE life[c] # "ABSENT"
  <2> DEFINE v == Served(c, j)
  <2>8. v # 0
    BY <1>1, Names DEF Served, FilesFit, NamesVersion, TypeOK
  <2>1. /\ att' = [att EXCEPT ![c].status = "DOWNLOADING"] /\ UNCHANGED life
        /\ job' = [job EXCEPT ![c] = [k \in Jobs |->
                     IF k = j THEN [@[k] EXCEPT !.at = "stream", !.ver = v, !.shared = Rivals(c, v) # {}]
                     ELSE IF k \in Rivals(c, v) THEN [@[k] EXCEPT !.shared = TRUE] ELSE @[k]]]
    BY <1>3 DEF DownloadBegins
  <2>2. /\ att'[c].url = att[c].url
        /\ \A d \in Challenges \ {c} : att'[d] = att[d] /\ job'[d] = job[d]
    BY <1>1, <2>1, Types DEF AttRow
  <2> DEFINE is == Rivals(c, v) # {}
             new == [k \in Jobs |->
               IF k = j THEN [job[c][k] EXCEPT !.at = "stream", !.ver = v, !.shared = is]
               ELSE IF k \in Rivals(c, v) THEN [job[c][k] EXCEPT !.shared = TRUE] ELSE job[c][k]]
  <2>3. ASSUME NEW k \in Jobs
        PROVE  job'[c][k].ver = (IF k = j THEN v ELSE job[c][k].ver) /\ job'[c][k].at = IF k = j THEN "stream" ELSE job[c][k].at
    <3>1. job[c][k] \in JobRow
      BY <1>1, Types
    <3>2. is \in BOOLEAN
      OBVIOUS
    <3>3. job'[c] = new
      BY <1>1, <2>1, Types
    <3> HIDE DEF is, v
    <3>4. CASE k = j
      <4>1. job'[c][k] = [job[c][k] EXCEPT !.at = "stream", !.ver = v, !.shared = is]
        BY <3>3, <3>4
      <4> HIDE DEF new
      <4>2. QED BY <3>1, <3>2, <3>4, <4>1 DEF JobRow
    <3>5. CASE k # j
      <4>1. job'[c][k] \in {job[c][k], [job[c][k] EXCEPT !.shared = TRUE]}
        BY <3>3, <3>5
      <4>2. QED BY <3>1, <3>5, <4>1 DEF JobRow
    <3>6. QED BY <3>4, <3>5
  <2>4. At(c, j)' = "stream" /\ \A k \in Jobs \ {j} : At(c, k)' = At(c, k)
    BY <1>1, <2>3 DEF At
  <2>5. HasFile(c)' /\ HasRow(c)'
    BY <1>1, <1>3, <2>1 DEF HasFile, HasRow, FilesFit
  <2>6. NamesVersion(c)'
    BY <1>1, <2>2, <2>3, <2>4, <2>8, Names DEF FilesFit, NamesVersion, Downloaders
  <2>7. QED BY <1>1, <2>1, <2>2, <2>5, <2>6, OtherFiles DEF FInv, PollFits, FilesFit
<1>4. QED BY <1>2, <1>3

(* Steps that write only the status: none of them brings a challenge into   *)
(* play, or takes its row.                                                  *)
LEMMA LifeFile ==
  ASSUME IInv, FInv, NEW c \in Challenges, NEW s, life' = [life EXCEPT ![c] = s],
         s \in InPlay => life[c] \in InPlay, s # "ABSENT",
         JobsNameVersions(c), \A d \in Challenges \ {c} : job'[d] = job[d],
         att'[c].url = att[c].url, \A d \in Challenges \ {c} : att'[d] = att[d],
         UNCHANGED <<file, tomb, poll>>
  PROVE  FInv'
<1>1. TypeOK /\ FilesFit(c)
  BY DEF IInv, FInv
<1>2. \A d \in Challenges \ {c} : att'[d] = att[d]
  OBVIOUS
<1>3. life'[c] = s /\ \A d \in Challenges \ {c} : life'[d] = life[d]
  BY <1>1, Types
<1>4. HasFile(c)' /\ HasRow(c)'
  BY <1>1, <1>3 DEF HasFile, HasRow, FilesFit
<1>5. FilesFit(c)'
  BY <1>1, <1>2, <1>4, FitsOn
<1>6. QED BY <1>2, <1>3, <1>5, OtherFiles DEF FInv, PollFits

LEMMA StillFile ==
  ASSUME IInv, FInv, NEW c \in Challenges, JobsNameVersions(c),
         \A d \in Challenges \ {c} : job'[d] = job[d],
         UNCHANGED <<life, att, file, tomb, poll>>
  PROVE  FInv'
<1>1. TypeOK /\ FilesFit(c)
  BY DEF IInv, FInv
<1>2. HasFile(c)' /\ HasRow(c)'
  BY <1>1 DEF HasFile, HasRow, FilesFit
<1>3. FilesFit(c)'
  BY <1>1, <1>2, FitsOn
<1>4. QED BY <1>3, OtherFiles DEF FInv, PollFits

LEMMA EndsFile ==
  ASSUME TypeOK, NEW c \in Challenges, NEW j \in Jobs, Ends(c, j)
  PROVE  JobsNameVersions(c) /\ \A d \in Challenges \ {c} : job'[d] = job[d]
<1>1. /\ job'[c][j] = NoJob
      /\ \A k \in Jobs \ {j} : job'[c][k] = job[c][k]
      /\ \A d \in Challenges \ {c} : job'[d] = job[d]
  BY Types DEF Ends
<1>2. QED BY <1>1, Names DEF JobsNameVersions, At, NoJob

LEMMA BeginPreparationFile ==
  ASSUME TypeOK, NEW c \in Challenges, BeginPreparation(c), life[c] = "DISCOVERED"
  PROVE  /\ life' = [life EXCEPT ![c] = "PREPARING"]
         /\ JobsNameVersions(c) /\ \A d \in Challenges \ {c} : job'[d] = job[d]
<1>1. remote[c] # 0 /\ "prepare" \in Jobs
  BY Names DEF TypeOK
<1>2. QED BY <1>1, Targets, MovesFile DEF BeginPreparation

LEMMA StartSucceedsFile ==
  ASSUME IInv, FInv, NEW c \in Challenges, NEW j \in Jobs, StartSucceeds(c, j)
  PROVE  FInv'
<1>1. TypeOK /\ Local(c) /\ At(c, j) = "ensure" /\ UNCHANGED <<att, file, tomb, poll>>
  BY DEF IInv, StartSucceeds, At
<1>2. \A d \in Challenges : d # c => job'[d] = job[d] /\ life'[d] = life[d]
  BY <1>1, EndsFile, Types, JobMoves DEF StartSucceeds, BeginPreparation, Assign, Moves
<1>3. CASE life' = life /\ Ends(c, j)
  BY <1>1, <1>3, EndsFile, StillFile
<1>4. CASE life[c] # "ABSENT" /\ j = "prepare" /\ BeginPreparation(c)
  <2>1. life[c] = "DISCOVERED"
    BY <1>1, <1>4 DEF Local, PrepareFits
  <2>2. life' = [life EXCEPT ![c] = "PREPARING"] /\ JobsNameVersions(c)
    BY <1>1, <1>4, <2>1, BeginPreparationFile
  <2>3. "PREPARING" \notin InPlay
    BY DEF InPlay
  <2>4. QED BY <1>1, <1>2, <2>2, <2>3, LifeFile
<1>5. CASE life[c] # "ABSENT" /\ j = "assign" /\ Assign(c)
  <2>1. life[c] = "QUEUED"
    BY <1>1, <1>5 DEF Local, AssignFits
  <2>2. life' = [life EXCEPT ![c] = "ACTIVE"] /\ Ends(c, j)
    BY <1>5, <2>1, Targets DEF Assign
  <2>3. JobsNameVersions(c) /\ "QUEUED" \in InPlay
    BY <1>1, <2>2, EndsFile DEF InPlay
  <2>4. QED BY <1>1, <1>2, <2>1, <2>2, <2>3, LifeFile
<1>6. QED BY <1>3, <1>4, <1>5 DEF StartSucceeds

LEMMA StartFailsFile ==
  ASSUME IInv, FInv, NEW c \in Challenges, NEW j \in Jobs, NEW kind, StartFails(c, j, kind)
  PROVE  FInv'
<1>1. TypeOK /\ UNCHANGED <<life, att, file, tomb, poll>> /\ Ends(c, j)
  BY DEF IInv, StartFails
<1>2. QED BY <1>1, EndsFile, StillFile

LEMMA TickFile ==
  ASSUME IInv, FInv, NEW c \in Challenges, Tick(c)
  PROVE  FInv'
<1>1. TypeOK /\ "prepare" \in Jobs /\ "assign" \in Jobs
  BY Names DEF IInv
<1>2. CASE Prepare(c)
  <2>1. UNCHANGED <<att, file, tomb, poll>> /\ life[c] = "DISCOVERED"
    BY <1>2 DEF Prepare
  <2>2. CASE BeginPreparation(c)
    <3>1. /\ life' = [life EXCEPT ![c] = "PREPARING"]
          /\ JobsNameVersions(c) /\ \A d \in Challenges \ {c} : job'[d] = job[d]
      BY <1>1, <2>1, <2>2, BeginPreparationFile
    <3>2. "PREPARING" \notin InPlay
      BY DEF InPlay
    <3>3. QED BY <2>1, <3>1, <3>2, LifeFile
  <2>3. CASE Moves(c, "prepare", "ensure", 0, 0) /\ UNCHANGED life
    <3>1. JobsNameVersions(c) /\ \A d \in Challenges \ {c} : job'[d] = job[d]
      BY <1>1, <2>3, MovesFile
    <3>2. QED BY <1>1, <2>1, <2>3, <3>1, StillFile
  <2>4. QED BY <1>2, <2>2, <2>3 DEF Prepare
<1>3. CASE StartSolver(c)
  <2>1. UNCHANGED <<att, file, tomb, poll>> /\ life[c] = "QUEUED"
    BY <1>3 DEF StartSolver
  <2>2. CASE Assign(c)
    <3>1. life' = [life EXCEPT ![c] = "ACTIVE"] /\ Ends(c, "assign")
      BY <2>1, <2>2, Targets DEF Assign
    <3>2. /\ JobsNameVersions(c) /\ \A d \in Challenges \ {c} : job'[d] = job[d]
          /\ "QUEUED" \in InPlay
      BY <1>1, <3>1, EndsFile DEF InPlay
    <3>3. QED BY <2>1, <3>1, <3>2, LifeFile
  <2>3. CASE Moves(c, "assign", "ensure", 0, 0) /\ UNCHANGED life
    <3>1. JobsNameVersions(c) /\ \A d \in Challenges \ {c} : job'[d] = job[d]
      BY <1>1, <2>3, MovesFile
    <3>2. QED BY <1>1, <2>1, <2>3, <3>1, StillFile
  <2>4. QED BY <1>3, <2>2, <2>3 DEF StartSolver
<1>4. UNCHANGED job => JobsNameVersions(c)
  BY DEF JobsNameVersions
<1>5. CASE Unsupported(c)
  <2>1. life' = [life EXCEPT ![c] = "UNSUPPORTED"] /\ UNCHANGED <<job, att, file, tomb, poll>>
    BY <1>5, Targets DEF Unsupported
  <2>2. "UNSUPPORTED" \notin InPlay
    BY DEF InPlay
  <2>3. QED BY <1>4, <2>1, <2>2, LifeFile
<1>6. CASE Queue(c)
  <2>1. life' = [life EXCEPT ![c] = "QUEUED"] /\ UNCHANGED <<job, att, file, tomb, poll>>
    BY <1>6, Targets DEF Queue
  <2>2. life[c] \in InPlay
    BY <1>6 DEF Queue, InPlay
  <2>3. QED BY <1>4, <2>1, <2>2, LifeFile
<1>7. QED BY <1>2, <1>3, <1>5, <1>6 DEF Tick

LEMMA HumanFile ==
  ASSUME IInv, FInv, NEW c \in Challenges, Human(c)
  PROVE  FInv'
<1>1. TypeOK /\ FilesFit(c)
  BY DEF IInv, FInv
<1>2. CASE RetryPrepare(c)
  <2>1. life' = [life EXCEPT ![c] = "DISCOVERED"] /\ UNCHANGED <<job, file, tomb, poll>>
    BY <1>2, Targets DEF RetryPrepare
  <2>2. att'[c].url = att[c].url /\ \A d \in Challenges \ {c} : att'[d] = att[d]
    BY <1>1, <1>2, Types DEF RetryPrepare, AttRow
  <2>3. "DISCOVERED" \notin InPlay /\ JobsNameVersions(c)
    BY <2>1 DEF InPlay, JobsNameVersions
  <2>4. QED BY <2>1, <2>2, <2>3, LifeFile
<1>3. CASE Delete(c)
  <2>1. /\ life'[c] = "ABSENT" /\ att'[c] = NoRow /\ c \in tomb' /\ tomb \subseteq tomb'
        /\ \A d \in Challenges \ {c} : life'[d] = life[d] /\ att'[d] = att[d] /\ file'[d] = file[d]
        /\ UNCHANGED <<job, poll>>
    BY <1>1, <1>3, Types DEF Delete, TypeOK
  <2>2. HasFile(c)' /\ HasRow(c)' /\ JobsNameVersions(c)
    BY <2>1 DEF HasFile, HasRow, InPlay, JobsNameVersions
  <2>3. FilesFit(c)'
    BY <1>1, <2>1, <2>2, FitsOn
  <2>4. QED BY <2>1, <2>3, OtherFiles DEF FInv, PollFits
<1>4. QED BY <1>2, <1>3 DEF Human

(* A poll that sees version v of a file. *)
LEMMA SyncFileFile ==
  ASSUME IInv, FInv, NEW c \in Challenges, NEW v \in Versions \ {0}, life[c] # "ABSENT", SyncFile(c, v),
         UNCHANGED <<life, file, tomb>>, PollFits'
  PROVE  FInv'
<1>1. TypeOK /\ FilesFit(c)
  BY DEF IInv, FInv
<1>2. /\ att'[c].url # 0
      /\ \A d \in Challenges \ {c} : att'[d] = att[d]
  <2>1. att \in [Challenges -> AttRow]
    BY <1>1, Types
  <2>2. Upserted(att[c], v).url # 0 /\ Url(v) # 0
    BY <2>1, Shows
  <2>3. CASE Differs(att[c], v)
    <3> DEFINE a == Upserted(att[c], v)
    <3>1. att' = [att EXCEPT ![c] = a]
      BY <2>3 DEF SyncFile
    <3> HIDE DEF a
    <3>2. att'[c] = a /\ \A d \in Challenges \ {c} : att'[d] = att[d]
      BY <2>1, <3>1
    <3>3. QED BY <2>2, <3>2 DEF a
  <2>4. CASE ~Differs(att[c], v)
    BY <2>2, <2>4 DEF SyncFile, Differs
  <2>5. QED BY <2>3, <2>4
<1>3. JobsNameVersions(c) /\ \A d \in Challenges \ {c} : job'[d] = job[d]
  <2>1. CASE job' = job
    BY <2>1 DEF JobsNameVersions
  <2>2. CASE job' # job
    <3>1. PICK r \in Reloads : job' = [job EXCEPT ![c][r] = [NoJob EXCEPT !.at = "detail", !.ver = remote[c]]]
      BY <2>2 DEF SyncFile, Launch
    <3>2. r \in Jobs /\ r # "prepare" /\ remote[c] # 0
      BY <1>1, Names DEF TypeOK
    <3>3. /\ job'[c][r] = [NoJob EXCEPT !.at = "detail", !.ver = remote[c]]
          /\ \A k \in Jobs \ {r} : job'[c][k] = job[c][k]
          /\ \A d \in Challenges \ {c} : job'[d] = job[d]
      BY <1>1, <3>1, <3>2, Types
    <3>4. job'[c][r].ver # 0
      BY <3>2, <3>3 DEF NoJob
    <3>5. QED BY <1>2, <3>3, <3>4, Names DEF JobsNameVersions
  <2>3. QED BY <2>1, <2>2
<1>4. HasFile(c)' /\ HasRow(c)'
  BY <1>1 DEF FilesFit, HasFile, HasRow
<1>5. FilesFit(c)'
  BY <1>1, <1>2, <1>3, <1>4, FitsOn
<1>6. QED BY <1>2, <1>3, <1>5, OtherFiles

LEMMA StillAll ==
  ASSUME IInv, FInv, PollFits', UNCHANGED <<life, file, att, job, tomb>>
  PROVE  FInv'
BY Untouched DEF FInv, IInv

LEMMA PollFile ==
  ASSUME IInv, FInv, Polling, IInv'
  PROVE  FInv'
<1>1. TypeOK /\ TypeOK'
  BY DEF IInv
<1>2. \A c \in Challenges : remote[c] # 0 /\ remote[c] \in Versions
  BY <1>1, Names DEF TypeOK, Versions
<1>3. CASE PollAsk
  BY <1>2, <1>3, StillAll DEF PollAsk, PollFits
<1>4. CASE PollDetails
  BY <1>2, <1>4, StillAll DEF PollDetails, PollFits
<1>5. CASE PollFails
  BY <1>5, StillAll DEF PollFails, PollFits, Rest
<1>6. CASE PollEnd
  <2>1. PollFits' /\ UNCHANGED <<life, file, att, tomb>>
    BY <1>6 DEF PollEnd, PollFits, Rest
  <2>2. PICK due \in SUBSET Challenges :
          job' = [c \in Challenges |->
                    IF c \in due
                    THEN [job[c] EXCEPT ![IF job[c]["start"] = NoJob THEN "start" ELSE "again"] = [NoJob EXCEPT !.at = "ensure"]]
                    ELSE job[c]]
    BY <1>6 DEF PollEnd
  <2>3. ASSUME NEW c \in Challenges
        PROVE  FilesFit(c)'
    <3>1. \A j \in Downloaders : job'[c][j] = job[c][j]
      BY <1>1, <2>2, Names, Types DEF Downloaders
    <3>2. JobsNameVersions(c) /\ HasFile(c)' /\ HasRow(c)' /\ FilesFit(c)
      BY <2>1, <3>1 DEF FInv, FilesFit, HasFile, HasRow, JobsNameVersions
    <3>3. QED BY <1>1, <2>1, <3>2, FitsOn
  <2>4. QED BY <2>1, <2>3 DEF FInv
<1>7. ASSUME NEW c \in Challenges, SyncEntry(c)
      PROVE  FInv'
  <2>1. UNCHANGED <<file, tomb>> /\ poll.at = "list" /\ poll'.seen = poll.seen /\ FilesFit(c)
    BY <1>1, <1>7 DEF SyncEntry, TypeOK, FInv
  <2>2. PollFits' /\ poll.seen[c] \in Versions \ {0}
    BY <1>1, <2>1, Types DEF PollFits, FInv, PollRow
  <2>3. CASE UNCHANGED <<life, att, job>>
    BY <2>1, <2>2, <2>3, StillAll
  <2>4. CASE life[c] # "ABSENT" /\ SyncFile(c, poll.seen[c]) /\ UNCHANGED life
    BY <2>1, <2>2, <2>4, SyncFileFile
  <2>5. CASE /\ life[c] = "ABSENT" /\ UNCHANGED job
             /\ life' = [life EXCEPT ![c] = "DISCOVERED"]
             /\ att' = [att EXCEPT ![c] = IF ListsFiles THEN Upserted(NoRow, poll.seen[c]) ELSE NoRow]
    <3>1. /\ life'[c] = "DISCOVERED" /\ att[c] = NoRow /\ att[c].url = 0
          /\ \A d \in Challenges \ {c} : life'[d] = life[d] /\ att'[d] = att[d]
      BY <1>1, <2>1, <2>5, Types DEF FilesFit, HasRow, NoRow
    <3>2. HasFile(c)' /\ HasRow(c)' /\ JobsNameVersions(c)
      BY <2>5, <3>1 DEF HasFile, HasRow, InPlay, JobsNameVersions
    <3>3. FilesFit(c)'
      BY <1>1, <2>1, <3>1, <3>2, FitsOn
    <3>4. QED BY <2>1, <2>2, <2>5, <3>1, <3>3, OtherFiles
  <2>6. QED BY <1>7, <2>3, <2>4, <2>5 DEF SyncEntry
<1>8. ASSUME NEW c \in Challenges, RefreshDetail(c)
      PROVE  FInv'
  <2>1. UNCHANGED <<life, file, tomb>> /\ poll'.seen = remote
    BY <1>1, <1>8 DEF RefreshDetail, TypeOK
  <2>2. PollFits'
    BY <1>2, <2>1 DEF PollFits
  <2>3. CASE UNCHANGED <<att, job>>
    BY <2>1, <2>2, <2>3, StillAll
  <2>4. CASE life[c] # "ABSENT" /\ SyncFile(c, remote[c])
    BY <1>2, <2>1, <2>2, <2>4, SyncFileFile
  <2>5. QED BY <1>8, <2>3, <2>4 DEF RefreshDetail
<1>9. QED BY <1>3, <1>4, <1>5, <1>6, <1>7, <1>8 DEF Polling

LEMMA ProcessFile ==
  ASSUME IInv, FInv, Boot \/ Recover \/ Crash
  PROVE  FInv'
<1>1. TypeOK
  BY DEF IInv
<1>2. CASE Boot
  BY <1>2, StillAll DEF Boot, FInv, PollFits
<1>3. CASE Crash
  <2>1. UNCHANGED <<life, file, att, tomb>> /\ PollFits'
    BY <1>3 DEF Crash, PollFits, Rest
  <2>2. ASSUME NEW c \in Challenges
        PROVE  FilesFit(c)'
    <3>1. \A j \in Jobs : At(c, j)' = "no"
      BY <1>3 DEF Crash, At, NoJob
    <3>2. JobsNameVersions(c) /\ HasFile(c)' /\ HasRow(c)' /\ FilesFit(c)
      BY <2>1, <3>1, Names DEF FInv, FilesFit, HasFile, HasRow, JobsNameVersions
    <3>3. QED BY <1>1, <2>1, <3>2, FitsOn
  <2>3. QED BY <2>1, <2>2 DEF FInv
<1>4. CASE Recover
  <2>1. UNCHANGED <<file, job, tomb, poll>> /\ PollFits'
    BY <1>4 DEF Recover, FInv, PollFits
  <2>2. ASSUME NEW c \in Challenges
        PROVE  FilesFit(c)'
    <3>1. att'[c].url = att[c].url /\ (att[c] = NoRow => att'[c] = NoRow)
      BY <1>1, <1>4, Types DEF Recover, AttRow, NoRow
    <3>2. life'[c] = Recovered(life[c])
      BY <1>4 DEF Recover
    <3>3. /\ life'[c] \in InPlay => life[c] \in InPlay
          /\ life'[c] = "ABSENT" => life[c] = "ABSENT"
      BY <3>2, Targets DEF Recovered, InPlay
    <3>4. JobsNameVersions(c) /\ HasFile(c)' /\ HasRow(c)' /\ FilesFit(c)
      BY <2>1, <3>1, <3>3 DEF FInv, FilesFit, HasFile, HasRow, JobsNameVersions
    <3>5. QED BY <1>1, <2>1, <3>1, <3>4, FitsOn
  <2>3. QED BY <2>1, <2>2 DEF FInv
<1>5. QED BY <1>2, <1>3, <1>4
-----------------------------------------------------------------------------
LEMMA FilesInit == Init => FInv
BY DEF Init, FInv, PollFits, Rest, FilesFit, HasFile, HasRow, NamesVersion, InPlay, At, NoJob, Downloaders, Jobs

LEMMA FilesStep ==
  ASSUME IInv, IInv', FInv, [Next]_vars
  PROVE  FInv'
<1>1. CASE UNCHANGED vars
  BY <1>1, StillAll DEF vars, FInv, PollFits
<1>2. CASE Polling
  BY <1>2, PollFile
<1>3. CASE Boot \/ Recover \/ Crash
  BY <1>3, ProcessFile
<1>4. ASSUME NEW c \in Challenges, Contest(c)
      PROVE  FInv'
  BY <1>4, StartSucceedsFile, StartFailsFile, DetailArrivesFile, DownloadCompletesFile, FailuresFile DEF Contest
<1>5. ASSUME NEW c \in Challenges, Gate(c)
      PROVE  FInv'
  BY <1>5, DownloadBeginsFile, FailuresFile DEF Gate
<1>6. ASSUME NEW c \in Challenges, BackoffEnds(c) \/ Replace(c)
      PROVE  FInv'
  BY <1>6, StillAll DEF BackoffEnds, Replace, FInv, PollFits
<1>7. QED
  BY <1>1, <1>2, <1>3, <1>4, <1>5, <1>6, TickFile, HumanFile DEF Next

(* From READY on the file of a challenge is on disk (#prepare,              *)
(* downloadPending, deleteChallenge, RecoveryManager): whatever failed, was *)
(* torn by two writers, replaced, retried, deleted or interrupted.          *)
THEOREM SolversHaveFiles == Spec => []WorksWithFiles
<1>1. Init => IInv /\ FInv
  BY IntakeInit, FilesInit
<1>2. IInv /\ FInv /\ [Next]_vars => (IInv /\ FInv)'
  BY IntakeStep, FilesStep
<1>3. FInv => WorksWithFiles
  BY DEF FInv, FilesFit, HasFile, WorksWithFiles
<1>4. QED BY <1>1, <1>2, <1>3, PTL DEF Spec
=============================================================================
