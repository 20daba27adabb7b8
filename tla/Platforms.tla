------------------------------ MODULE Platforms ------------------------------
(***************************************************************************)
(* What the contest adapters (packages/contest/src) make of the answers of *)
(* a platform: a submission of a flag (dasctf.ts, ctfd.ts), an attachment  *)
(* (dasctf.ts, stream-body.ts); and how the scheduler ranks the challenges *)
(* (packages/scheduler/src/priority.ts).                                   *)
(***************************************************************************)
EXTENDS Integers, Sequences, SequencesExt, FiniteSets, FiniteSetsExt

Result(ok, status) == [ok |-> ok, status |-> status]

(* A DasctfEnvelope: its code ("none" where it has none), data.isCorrect,   *)
(* and which of the two patterns its message matches.                       *)
Envelope ==
  [code : {"00000", "40001", "40401", "none"}, isCorrect : BOOLEAN,
   says : SUBSET {"limit", "wrong"}]

(* mapDasctfSubmit: whatever has a code, is not "00000" and does not speak   *)
(* of a limit counts as a wrong flag, a refusal of any other kind included.  *)
MapDasctfSubmit(json) ==
  CASE json.code = "00000" -> Result(TRUE, IF json.isCorrect THEN "CORRECT" ELSE "WRONG")
    [] json.code # "00000" /\ "limit" \in json.says -> Result(FALSE, "RATE_LIMITED")
    [] json.code # "00000" /\ "limit" \notin json.says /\ ("wrong" \in json.says \/ json.code # "none") ->
         Result(TRUE, "WRONG")
    [] OTHER -> Result(FALSE, "UNKNOWN")

(* #request: a redirect is followed and a 429 asked again, five times,     *)
(* in rounds 0 to MAX_REDIRECTS + 6; replies is what the platform answers.  *)
MaxRounds == 12

Reply == {"redirect", "limit", "json", "denied", "broken"}

Followed(replies, i) ==
  \/ replies[i] = "redirect"
  \/ replies[i] = "limit" /\ Cardinality({j \in 1..(i - 1) : replies[j] = "limit"}) < 5

Request(replies) ==
  LET last == {i \in DOMAIN replies : i <= MaxRounds /\ ~Followed(replies, i)}
  IN  IF last = {} THEN [sent |-> MaxRounds, got |-> "throws"]
      ELSE [sent |-> Min(last), got |-> replies[Min(last)]]

(* submitFlag of DASCTF, and what #submitNow takes it for where it throws.  *)
(* got is the last reply: an Envelope comes with HTTP 200.                  *)
Thrown == Result(FALSE, "UNKNOWN")

DasctfSubmitFlag(got, json) ==
  CASE got # "json" -> Thrown    \* no JSON, HTTP 401, 403, 429, 5xx, too many redirects
    [] got = "json" /\ json.code = "40001" /\ "limit" \in json.says -> Thrown
    [] OTHER -> MapDasctfSubmit(json)

MapCtfdSubmitStatus(status) ==
  CASE status \in {"correct", "already_solved"} -> Result(TRUE, "CORRECT")
    [] status \in {"incorrect", "wrong"} -> Result(TRUE, "WRONG")
    [] status \in {"ratelimited", "rate_limited", "paused"} -> Result(FALSE, "RATE_LIMITED")
    [] OTHER -> Result(FALSE, "UNKNOWN")

(* #request of CTFd: redirects only, in rounds 0 to MAX_REDIRECTS; what is   *)
(* not followed ends it, a 429 too.                                         *)
CtfdRounds == 6

CtfdRequest(replies) ==
  LET last == {i \in DOMAIN replies : i <= CtfdRounds /\ replies[i] # "redirect"}
  IN  IF last = {} THEN [sent |-> CtfdRounds, got |-> "throws"]
      ELSE [sent |-> Min(last), got |-> replies[Min(last)]]

(* submitFlag of CTFd; an injected challenge has no judge, and what is no    *)
(* JSON with a 2xx throws.                                                  *)
CtfdSubmitFlag(injected, got, status) ==
  CASE injected -> Result(FALSE, "UNKNOWN")
    [] ~injected /\ got # "json" -> Thrown
    [] OTHER -> MapCtfdSubmitStatus(status)
-----------------------------------------------------------------------------
(* A response to a download: its HTTP status (NoResponse: the request       *)
(* throws), its type ("binary", "text", "odd" where it says nothing),       *)
(* whether it names a file, whether its text is a business error; body: the *)
(* chunks that arrive, broken: the connection dies after them; foreign: how *)
(* many of their bytes are not UTF-8, marked: they begin with a byte order  *)
(* mark; length is the Content-Length.                                      *)
Unsaid == -1      \* no Content-Length
Garbled == -2     \* one that is no number
NoResponse == 0

(* res.ok *)
Successful == 200..299

Arrived(body) == FoldLeft(LAMBDA acc, chunk : acc + chunk, 0, body)

(* What comes of it; exact: the bytes are those the platform sent.          *)
Streamed(ok, bytes, exact, retryable) ==
  [ok |-> ok, bytes |-> bytes, exact |-> exact, retryable |-> retryable, threw |-> FALSE]

Refused(retryable) == Streamed(FALSE, 0, FALSE, retryable)

Threw == [Refused(FALSE) EXCEPT !.threw = TRUE]

(* Mutant of StreamResponseToSink: what the header says is not compared.    *)
StreamUnmeasured(bytes, broken, length, exact) == Streamed(~broken, bytes, exact, broken)

(* streamResponseToSink of a body of so many bytes; maxBytes is never given *)
(* by the adapters. What it counts is what arrived: writeChunk skips a sink *)
(* that is destroyed, and says nothing.                                     *)
StreamResponseToSink(bytes, broken, length, exact) ==
  CASE length = Garbled -> Refused(FALSE)
    [] length # Garbled /\ (broken \/ (length # Unsaid /\ bytes # length)) ->
         Streamed(FALSE, bytes, exact, TRUE)
    [] OTHER -> Streamed(TRUE, bytes, exact, FALSE)

(* writeChunk: what of the body the sink has, when it was destroyed after    *)
(* so many chunks.                                                          *)
WrittenChunks(body, taken) == SubSeq(body, 1, Min({taken, Len(body)}))

(* Buffer.from(await res.text()): the mark is dropped, and a byte that is   *)
(* not UTF-8 becomes the three of U+FFFD.                                   *)
MarkBytes(res) == IF res.marked THEN 3 ELSE 0
Textual(res) == res.foreign = 0 /\ ~res.marked
TextBytes(res) ==
  IF Textual(res) THEN Arrived(res.body) ELSE Arrived(res.body) + 2 * res.foreign - MarkBytes(res)

(* shouldProbeDasctfDownloadBody *)
ShouldProbe(res) ==
  /\ res.type # "binary"
  /\ ~res.named
  /\ res.type = "text" \/ res.length \in 1..4096

(* DasctfAdapter.downloadAttachment; from: is there a url? A probed body is *)
(* read as text (which throws where the connection dies) and streamed from  *)
(* memory, its new length as Content-Length.                                *)
DasctfDownload(res) ==
  CASE res.from # "url" -> Refused(FALSE)
    [] res.from = "url" /\ res.status = NoResponse -> Threw
    [] res.from = "url" /\ res.status \notin {NoResponse} \cup Successful ->
         Refused(res.status = 429 \/ res.status >= 500)
    [] res.from = "url" /\ res.status \in Successful /\ ShouldProbe(res) ->
         IF res.broken THEN Threw
         ELSE IF res.business THEN Refused(FALSE)
         ELSE StreamResponseToSink(TextBytes(res), FALSE, TextBytes(res), Textual(res))
    [] OTHER -> StreamResponseToSink(Arrived(res.body), res.broken, res.length, TRUE)

(* CtfdAdapter.downloadAttachment; the file of an injected challenge is in  *)
(* memory.                                                                  *)
CtfdDownload(res) ==
  CASE res.from = "memory" -> Streamed(TRUE, Arrived(res.body), TRUE, FALSE)
    [] res.from = "nowhere" -> Refused(FALSE)
    [] res.from = "url" /\ res.status = NoResponse -> Threw
    [] res.from = "url" /\ res.status \notin {NoResponse} \cup Successful ->
         Refused(res.status = 429 \/ res.status >= 500)
    [] OTHER -> StreamResponseToSink(Arrived(res.body), res.broken, res.length, TRUE)
-----------------------------------------------------------------------------
(* startChallenge of DASCTF. first: isNeedInit and isNeedCheck at the       *)
(* start; breaks: which request throws before the polls, the first detail   *)
(* or the build (no answer, no JSON, or a code that assertDasctfOk does not *)
(* take); polls: what each of the envPollMax details after says, or that it *)
(* throws.                                                                  *)
EnvPoll == {"preparing", "ready", "throws"}

Started(ok, built, polls) == [ok |-> ok, built |-> built, polls |-> polls, threw |-> FALSE]

StartThrew(built, polls) == [Started(FALSE, built, polls) EXCEPT !.threw = TRUE]

StartChallenge(first, breaks, polls) ==
  LET told == {i \in DOMAIN polls : polls[i] # "preparing"}
      last == Min(told)
  IN  CASE breaks = "detail" -> StartThrew(FALSE, 0)
        [] breaks # "detail" /\ ~first.init /\ ~first.check -> Started(TRUE, FALSE, 0)
        [] breaks = "build" /\ first.init -> StartThrew(FALSE, 0)
        [] breaks # "detail" /\ (first.init \/ first.check) /\ ~(breaks = "build" /\ first.init) ->
             IF told = {} THEN Started(FALSE, first.init, Len(polls))
             ELSE IF polls[last] = "throws" THEN StartThrew(first.init, last)
             ELSE Started(TRUE, first.init, last)
-----------------------------------------------------------------------------
(* computePriorityScore with DEFAULT_WEIGHTS. A candidate c: manual (of     *)
(* MANUAL_PRIORITY), attempts, difficulty (0: unknown), score, age in       *)
(* minutes, progress, class.                                                *)
ManualPriority == {-30, 0, 50, 100}

Candidate ==
  [manual : ManualPriority, attempts : Nat, difficulty : 0..5, score : Nat, age : Nat,
   progress : {"ACTIVE", "STALLED", "NONE"}, class : {"HEAVY", "NORMAL", "LIGHT"}]

EasyBonus(d) == IF d \in 1..5 THEN 10 * (5 - d) ELSE 0

(* Math.round of score / 500 * 20 *)
ScoreBonus(score) == Min({20, (2 * score * 20 + 500) \div 1000})

AgeBonus(minutes) == Min({20, (minutes \div 10) * 2})

ProgressBonus(p) == CASE p = "ACTIVE" -> 10 [] p = "STALLED" -> -10 [] OTHER -> 0
ClassBonus(c) == CASE c = "HEAVY" -> -15 [] c = "NORMAL" -> -5 [] OTHER -> 0

Score(c) ==
  c.manual + (IF c.attempts = 0 THEN 50 ELSE 0) + EasyBonus(c.difficulty) + ScoreBonus(c.score)
  + AgeBonus(c.age) + ProgressBonus(c.progress) + ClassBonus(c.class) - 5 * c.attempts

(* scoreAndRankQueued: the best first, of equals the oldest, and of those   *)
(* of one age the first of the list (the sort is stable).                   *)
Before(queued, i, j) ==
  LET a == queued[i]  b == queued[j]
  IN  \/ Score(a) > Score(b)
      \/ Score(a) = Score(b) /\ a.age > b.age
      \/ Score(a) = Score(b) /\ a.age = b.age /\ i < j

Rank(queued, j) == 1 + Cardinality({i \in DOMAIN queued : Before(queued, i, j)})

ScoreAndRankQueued(queued) ==
  [n \in DOMAIN queued |-> queued[CHOOSE j \in DOMAIN queued : Rank(queued, j) = n]]
=============================================================================
