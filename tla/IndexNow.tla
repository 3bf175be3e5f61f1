------------------------------ MODULE IndexNow ------------------------------
(***************************************************************************)
(* The IndexNow queue: pages that changed wait for the daily runner, which *)
(* reads a batch, posts it to IndexNow and reports what came of it.        *)
(*                                                                         *)
(*   lib/indexnow-queue.ts        the queue and the submission log         *)
(*   lib/indexnow-drain.ts        expiry, batch, report                    *)
(*   scripts/indexnow-runner.ts   the runner                               *)
(*                                                                         *)
(* A day is Phases ticks: expiry is at its first, the runner is scheduled  *)
(* at its second and posts a tick after it read.  One runner runs at a     *)
(* time; the handlers of its report may cross, for an attempt that timed   *)
(* out is repeated.                                                        *)
(***************************************************************************)
EXTENDS Naturals

CONSTANTS
  Urls,
  Reports,      \* handlers of a report at one time
  Phases,       \* ticks of a day
  Window,       \* INDEXNOW_RESEND_MIN_DAYS and INDEXNOW_QUEUE_MAX_AGE_DAYS
  MaxClock,     \* bound: time
  MaxId,        \* bound: rows ever queued
  MaxBatch,     \* bound: batches read
  Punctual      \* the runner never misses its hour, IndexNow accepts all

ASSUME IndexNowConstants ==
  /\ Phases \in Nat \ {0} /\ Window \in Nat
  /\ MaxClock \in Nat /\ MaxId \in Nat /\ MaxBatch \in Nat
  /\ Punctual \in BOOLEAN

VARIABLES
  clock,
  today,        \* which of today's two jobs have run
  row,          \* the queue: the id of a URL's row, 0 when it has none
  queuedAt,     \* queued_at of that row
  lastId,       \* ids are never used again
  lastBatch,
  runner,       \* the runner: its place, and the batch it is at
  reporter,     \* each handler of a report: its place, and the report
  accepted,     \* recrawl_submissions: accepted rows, with their writer
  takenAt,      \* submitted_at of a URL's newest accepted row, 0 without
  closed,       \* batches with any log row, or a job_runs row
  owed,         \* ghost: pages changed since IndexNow last took them
  excused,      \* ghost: changed while out, never queued, or expired
  waited        \* ghost: queued pages some drain held back

queueVars == <<row, queuedAt, lastId>>
logVars   == <<accepted, takenAt, closed>>
timeVars  == <<clock, today>>
indexVars == <<timeVars, queueVars, lastBatch, runner, reporter, logVars,
               owed, excused, waited>>

Phase  == clock % Phases
Away   == [at |-> "away", batch |-> 0, ids |-> {}, ok |-> FALSE, sent |-> 0]
Queued == {u \in Urls : row[u] # 0}

IndexNowInit ==
  /\ clock     = Phases
  /\ today     = {}
  /\ row       = [u \in Urls |-> 0]
  /\ queuedAt  = [u \in Urls |-> 0]
  /\ lastId    = 0
  /\ lastBatch = 0
  /\ runner    = Away
  /\ reporter  = [p \in Reports |-> Away]
  /\ accepted  = {}
  /\ takenAt   = [u \in Urls |-> 0]
  /\ closed    = {}
  /\ owed      = {}
  /\ excused   = {}
  /\ waited    = {}

-----------------------------------------------------------------------------
(* Expiry is a cron and runs at its hour.  A punctual runner reads at its  *)
(* own and is through by the end of the day.                               *)
Tick ==
  /\ clock < MaxClock
  /\ Phase = 0 => "expired" \in today
  /\ Punctual => /\ Phase = 1 => "drained" \in today
                 /\ Phase + 1 = Phases => runner = Away
  /\ clock' = clock + 1
  /\ today' = IF (clock + 1) % Phases = 0 THEN {} ELSE today
  /\ UNCHANGED <<queueVars, lastBatch, runner, reporter, logVars, owed, excused,
                 waited>>

(* IndexNow took the batch, and its row is only still there to be deleted. *)
Out(u) ==
  \/ runner.at = "sent" /\ runner.ok /\ row[u] \in runner.ids
  \/ \E p \in Reports :
       reporter[p].at = "commit" /\ reporter[p].ok /\ row[u] \in reporter[p].ids

(* A page changes and its hook queues the URL: a row that is there stays   *)
(* as it is (its tier may improve, its queued_at does not move).           *)
Change(u) ==
  /\ owed' = owed \cup {u}
  /\ \/ /\ u \in Queued
        /\ excused' = IF Out(u) THEN excused \cup {u} ELSE excused
        /\ UNCHANGED queueVars
     \/ /\ u \notin Queued /\ lastId < MaxId
        /\ lastId'   = lastId + 1
        /\ row'      = [row EXCEPT ![u] = lastId + 1]
        /\ queuedAt' = [queuedAt EXCEPT ![u] = clock]
        /\ excused'  = excused \ {u}
     \/ /\ u \notin Queued          \* the hook is best effort
        /\ excused' = excused \cup {u}
        /\ UNCHANGED queueVars
  /\ UNCHANGED <<timeVars, lastBatch, runner, reporter, logVars, waited>>

(* A plausible bug: a deleted row's age is kept for the next row.          *)
DequeueKeepsAge(U) ==
  /\ row'      = [u \in Urls |-> IF u \in U THEN 0 ELSE row[u]]
  /\ waited'   = waited \ U
  /\ UNCHANGED <<lastId, queuedAt>>

Dequeue(U) ==
  /\ row'      = [u \in Urls |-> IF u \in U THEN 0 ELSE row[u]]
  /\ queuedAt' = [u \in Urls |-> IF u \in U THEN 0 ELSE queuedAt[u]]
  /\ waited'   = waited \ U
  /\ UNCHANGED lastId

Stale(u) == u \in Queued /\ queuedAt[u] + Window <= clock

(* 00:05: rows older than the maximum age are dropped.                     *)
Expire ==
  LET old == {u \in Urls : Stale(u)}
  IN  /\ Phase = 0 /\ "expired" \notin today
      /\ today' = today \cup {"expired"}
      /\ Dequeue(old)
      /\ excused' = excused \cup old
      /\ UNCHANGED <<clock, lastBatch, runner, reporter, logVars, owed>>

-----------------------------------------------------------------------------
Deferred(u) == takenAt[u] # 0 /\ takenAt[u] + Window > clock

(* 00:20: the runner asks for a batch: every row whose URL was not         *)
(* accepted within the window.                                             *)
ReadBatch ==
  LET send == {u \in Queued : ~Deferred(u)}
  IN  /\ runner = Away
      /\ lastBatch < MaxBatch
      /\ Punctual => Phase = 1 /\ "drained" \notin today
      /\ today'  = today \cup {"drained"}
      /\ waited' = waited \cup {u \in Queued : Deferred(u)}
      /\ \/ send = {} /\ UNCHANGED <<runner, lastBatch>>
         \/ /\ send # {}
            /\ lastBatch' = lastBatch + 1
            /\ runner' = [at |-> "ready", batch |-> lastBatch + 1,
                          ids |-> {row[u] : u \in send}, ok |-> FALSE, sent |-> 0]
      /\ UNCHANGED <<clock, queueVars, reporter, logVars, owed, excused>>

(* The URLs go out as they were read.  IndexNow takes them and says so, or *)
(* takes them and its answer is lost, or refuses them.                     *)
Post ==
  /\ runner.at = "ready"
  /\ Punctual => Phase = 2
  /\ \E ok \in BOOLEAN, took \in BOOLEAN :
       /\ ok => took
       /\ Punctual => ok
       /\ runner' = [runner EXCEPT !.at = "sent", !.ok = ok, !.sent = clock]
       /\ owed' = IF took THEN {u \in owed : row[u] \notin runner.ids} ELSE owed
  /\ UNCHANGED <<timeVars, queueVars, lastBatch, reporter, logVars, excused,
                 waited>>

-----------------------------------------------------------------------------
(* A post of the report: the replay check, and which of its rows are still *)
(* queued.                                                                 *)
ReadReport(p) ==
  /\ runner.at = "sent" /\ reporter[p] = Away
  /\ runner.batch \notin closed
  /\ reporter' = [reporter EXCEPT ![p] =
       [runner EXCEPT !.at = "commit", !.ids = {i \in @ : \E u \in Queued : row[u] = i}]]
  /\ UNCHANGED <<timeVars, queueVars, lastBatch, runner, logVars, owed, excused,
                 waited>>

(* A plausible bug: the log rows are built from what was read.             *)
RecordFromRead(p) ==
  LET r == reporter[p]
      U == {u \in Queued : row[u] \in r.ids}
  IN  /\ r.at = "commit" /\ r.ok
      /\ accepted' = accepted \cup {[batch |-> r.batch, id |-> i, by |-> p] : i \in r.ids}
      /\ takenAt'  = [u \in Urls |-> IF u \in U THEN r.sent ELSE takenAt[u]]
      /\ closed'   = closed \cup {r.batch}
      /\ Dequeue(U)
      /\ reporter' = [reporter EXCEPT ![p] = Away]
      /\ UNCHANGED <<timeVars, lastBatch, runner, owed, excused>>

(* Accepted: one batch copies the rows still queued into the log and       *)
(* deletes them by id.  The job_runs row after it is best effort.          *)
RecordAccepted(p) ==
  LET r == reporter[p]
      U == {u \in Queued : row[u] \in r.ids}
  IN  /\ r.at = "commit" /\ r.ok
      /\ accepted' = accepted \cup {[batch |-> r.batch, id |-> row[u], by |-> p] : u \in U}
      /\ takenAt'  = [u \in Urls |->
                        IF u \in U /\ takenAt[u] < r.sent THEN r.sent ELSE takenAt[u]]
      /\ \/ closed' = closed \cup {r.batch}
         \/ U = {} /\ UNCHANGED closed
      /\ Dequeue(U)
      /\ reporter' = [reporter EXCEPT ![p] = Away]
      /\ UNCHANGED <<timeVars, lastBatch, runner, owed, excused>>

(* A plausible bug: a refused batch is consumed too.                       *)
RecordRefusedConsumes(p) ==
  LET r == reporter[p]
  IN  /\ r.at = "commit" /\ ~r.ok
      /\ closed' = closed \cup {r.batch}
      /\ Dequeue({u \in Queued : row[u] \in r.ids})
      /\ reporter' = [reporter EXCEPT ![p] = Away]
      /\ UNCHANGED <<timeVars, lastBatch, runner, accepted, takenAt, owed, excused>>

(* Refused or failed: the rows stay.  The log rows and the job_runs row    *)
(* are best effort.                                                        *)
RecordRefused(p) ==
  LET r == reporter[p]
  IN  /\ r.at = "commit" /\ ~r.ok
      /\ closed' \in {closed, closed \cup {r.batch}}
      /\ reporter' = [reporter EXCEPT ![p] = Away]
      /\ UNCHANGED <<timeVars, queueVars, lastBatch, runner, accepted, takenAt,
                     owed, excused, waited>>

(* The handler dies, or its batch fails.                                   *)
ReportDies(p) ==
  /\ reporter[p].at = "commit"
  /\ ~Punctual
  /\ reporter' = [reporter EXCEPT ![p] = Away]
  /\ UNCHANGED <<timeVars, queueVars, lastBatch, runner, logVars, owed, excused,
                 waited>>

(* The runner has its answer, has asked often enough, or dies anywhere.    *)
RunnerEnds ==
  /\ runner # Away
  /\ Punctual => runner.batch \in closed
  /\ runner' = Away
  /\ UNCHANGED <<timeVars, queueVars, lastBatch, reporter, logVars, owed, excused,
                 waited>>

IndexNowNext ==
  \/ Tick
  \/ \E u \in Urls : Change(u)
  \/ Expire
  \/ ReadBatch
  \/ Post
  \/ RunnerEnds
  \/ \E p \in Reports :
       ReadReport(p) \/ RecordAccepted(p) \/ RecordRefused(p) \/ ReportDies(p)

IndexNowSpec == IndexNowInit /\ [][IndexNowNext]_indexVars

-----------------------------------------------------------------------------
BatchInHand == [at : {"away", "ready", "sent", "commit"}, batch : 0 .. MaxBatch,
                ids : SUBSET (0 .. MaxId), ok : BOOLEAN, sent : Nat]

IndexNowTypeOK ==
  /\ clock \in Nat
  /\ today \subseteq {"expired", "drained"}
  /\ row \in [Urls -> 0 .. MaxId]
  /\ queuedAt \in [Urls -> Nat]
  /\ \A u \in Urls : row[u] = 0 <=> queuedAt[u] = 0
  /\ lastId \in 0 .. MaxId
  /\ lastBatch \in 0 .. MaxBatch
  /\ runner \in BatchInHand
  /\ reporter \in [Reports -> BatchInHand]
  /\ accepted \subseteq [batch : 0 .. MaxBatch, id : 1 .. MaxId, by : Reports]
  /\ takenAt \in [Urls -> Nat]
  /\ closed \subseteq 0 .. MaxBatch
  /\ owed \subseteq Urls /\ excused \subseteq Urls /\ waited \subseteq Urls

(* No change is lost but in the ways the code allows: a page that changed  *)
(* since IndexNow took it has a row, unless it changed while its batch was *)
(* out, its hook was lost or its row expired.                              *)
OwedIsQueued == owed \subseteq Queued \cup excused

(* A queued row is accepted once, by one report of one batch, however the  *)
(* posts of a report and the batches of two days cross.                    *)
AcceptedOnce == \A e, f \in accepted : e.id = f.id => e = f

(* Where a comment says more (indexnow-queue.ts, INDEXNOW_RESEND_MIN_DAYS):*)
(* a deferred URL is sent by the first drain after the window closes, and  *)
(* the expiry cannot reach it first.                                       *)
DeferredIsSent == [][Expire => \A u \in waited : ~Stale(u)]_indexVars
=============================================================================
