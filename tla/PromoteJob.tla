----------------------------- MODULE PromoteJob -----------------------------
(***************************************************************************)
(* A promote: the curator's tool pushes a bundle under a job id, a         *)
(* workflow instance of that id commits it, and the ids it assigned are    *)
(* polled for.                                                             *)
(*                                                                         *)
(*   routes/promote-kickoff.ts       startJob, buildParams                 *)
(*   workflows/promote-workflow.ts   runPromoteWorkflow, commitPromote     *)
(*   routes/promote.ts               runPromoteIngest, replayPromoteJob    *)
(*   routes/promote-jobs.ts          the poll                              *)
(*                                                                         *)
(* The engine runs the commit step's callback at least once: it may lose a *)
(* run, or only the answer of one, and run it again beside it.  All jobs   *)
(* carry one bundle: a job follows another when that one was answered      *)
(* "errored".                                                              *)
(***************************************************************************)
EXTENDS Naturals

CONSTANTS
  Jobs,       \* job ids the curator stamps on pushes of the bundle
  Runs,       \* executions of the commit callback at one time
  NoJob,
  MaxPlans    \* bound: bundles planned, each minting fresh ids

ASSUME PromoteConstants == NoJob \notin Jobs /\ MaxPlans \in Nat

VARIABLES
  instance,   \* the workflow instance of a job, as the engine keeps it
  payload,    \* the bundle: in the params, or staged in KV
  run,        \* the executions: job, place, and the ids held
  minted,     \* plans made: the ids of the n-th are n
  recorded,   \* promote_jobs.result of a job, 0 without a row
  merged,     \* the catalog: the ids each job's batches created
  mirror,     \* the result in KV, 0 when missing
  output,     \* the instance's output
  served,     \* ghost: results polls answered
  refused     \* jobs the curator saw errored

promoteStore == <<recorded, merged>>
promoteVars  == <<instance, payload, run, minted, recorded, merged, mirror,
                  output, served, refused>>

Free == [job |-> NoJob, at |-> "free", ids |-> 0]

PromoteInit ==
  /\ instance = [j \in Jobs |-> "none"]
  /\ payload  = [j \in Jobs |-> "none"]
  /\ run      = [x \in Runs |-> Free]
  /\ minted   = 0
  /\ recorded = [j \in Jobs |-> 0]
  /\ merged   = [j \in Jobs |-> {}]
  /\ mirror   = [j \in Jobs |-> 0]
  /\ output   = [j \in Jobs |-> 0]
  /\ served   = {}
  /\ refused  = {}

-----------------------------------------------------------------------------
(* Kick-off, and the engine before the commit step.                        *)

(* A small bundle rides the params; a large one is staged in KV first.     *)
(* The same bundle goes under a new id only after an errored one.          *)
KickOff(j) ==
  /\ instance[j] \in {"none", "gone"}
  /\ \A i \in Jobs \ {j} : instance[i] = "none" \/ i \in refused
  /\ \/ /\ payload'  = [payload EXCEPT ![j] = "inline"]
        /\ instance' = [instance EXCEPT ![j] = "commit"]
     \/ /\ payload'  = [payload EXCEPT ![j] = "written"]
        /\ instance' = [instance EXCEPT ![j] = "load"]
  /\ UNCHANGED <<run, minted, promoteStore, mirror, output, served, refused>>

(* A repeated kick-off stages the bundle again and attaches to what is     *)
(* there.                                                                  *)
KickOffAgain(j) ==
  /\ instance[j] \notin {"none", "gone"}
  /\ payload[j] = "none"
  /\ payload' = [payload EXCEPT ![j] = "written"]
  /\ UNCHANGED <<instance, run, minted, promoteStore, mirror, output, served,
                 refused>>

(* KV is eventually readable, and drops a staged bundle after a day.       *)
Readable(j) ==
  /\ payload[j] = "written"
  /\ payload' = [payload EXCEPT ![j] = "readable"]
  /\ UNCHANGED <<instance, run, minted, promoteStore, mirror, output, served,
                 refused>>

PayloadExpires(j) ==
  /\ payload[j] \in {"written", "readable"} /\ instance[j] # "load"
  /\ payload' = [payload EXCEPT ![j] = "none"]
  /\ UNCHANGED <<instance, run, minted, promoteStore, mirror, output, served,
                 refused>>

(* load-staged-payload: found at one of its attempts, or missed by all.    *)
Load(j) ==
  /\ instance[j] = "load"
  /\ \/ payload[j] = "readable" /\ instance' = [instance EXCEPT ![j] = "commit"]
     \/ payload[j] # "readable" /\ instance' = [instance EXCEPT ![j] = "errored"]
  /\ UNCHANGED <<payload, run, minted, promoteStore, mirror, output, served,
                 refused>>

-----------------------------------------------------------------------------
(* The commit callback.                                                    *)

At(x, place) == [run EXCEPT ![x].at = place]

(* The pre-read of promote_jobs: a hit replays the recorded result, a miss *)
(* plans the bundle and mints its ids.                                     *)
Execute(x, j) ==
  /\ run[x] = Free
  /\ instance[j] = "commit"
  /\ \/ /\ recorded[j] # 0
        /\ run' = [run EXCEPT ![x] = [job |-> j, at |-> "recount", ids |-> recorded[j]]]
        /\ UNCHANGED minted
     \/ /\ recorded[j] = 0
        /\ minted < MaxPlans
        /\ minted' = minted + 1
        /\ run' = [run EXCEPT ![x] = [job |-> j, at |-> "planned", ids |-> minted + 1]]
  /\ UNCHANGED <<instance, payload, promoteStore, mirror, output, served, refused>>

(* The batch commits: the ledger row and the bundle together.              *)
Merge(x) ==
  /\ recorded' = [recorded EXCEPT ![run[x].job] = run[x].ids]
  /\ merged'   = [merged EXCEPT ![run[x].job] = @ \cup {run[x].ids}]

(* A plausible bug: a duplicate is taken for this run's own commit.        *)
BatchOwnIds(x) ==
  /\ run[x].at = "planned"
  /\ \/ recorded[run[x].job] = 0 /\ Merge(x)
     \/ recorded[run[x].job] # 0 /\ UNCHANGED promoteStore
  /\ run' = At(x, "recount")
  /\ UNCHANGED <<instance, payload, minted, mirror, output, served, refused>>

(* The ledger row goes first: a job already recorded trips its primary     *)
(* key, nothing is written, and the recorded result is returned.           *)
Batch(x) ==
  /\ run[x].at = "planned"
  /\ \/ /\ recorded[run[x].job] = 0
        /\ Merge(x)
        /\ run' = At(x, "recount")
     \/ /\ recorded[run[x].job] # 0
        /\ run' = [run EXCEPT ![x].at = "recount", ![x].ids = recorded[run[x].job]]
        /\ UNCHANGED promoteStore
  /\ UNCHANGED <<instance, payload, minted, mirror, output, served, refused>>

(* A conflict with another record, or a database error: nothing written,   *)
(* or written with only the answer lost.                                   *)
BatchThrows(x) ==
  /\ run[x].at = "planned"
  /\ \/ UNCHANGED promoteStore
     \/ recorded[run[x].job] = 0 /\ Merge(x)
  /\ run' = At(x, "failed")
  /\ UNCHANGED <<instance, payload, minted, mirror, output, served, refused>>

(* recomputeProductCounts, after the batch and outside any try.            *)
Recount(x) ==
  /\ run[x].at = "recount"
  /\ run' = At(x, "mirror") \/ run' = At(x, "failed")
  /\ UNCHANGED <<instance, payload, minted, promoteStore, mirror, output, served,
                 refused>>

(* The result's copy in KV, best effort.                                   *)
MirrorResult(x) ==
  /\ run[x].at = "mirror"
  /\ mirror' \in {[mirror EXCEPT ![run[x].job] = run[x].ids], mirror}
  /\ run' = At(x, "answer")
  /\ UNCHANGED <<instance, payload, minted, promoteStore, output, served, refused>>

(* The engine takes the step's result or its error, which is never         *)
(* retried, or no longer waits for either.                                 *)
StepAnswers(x) ==
  LET j == run[x].job
  IN  /\ run[x].at \in {"answer", "failed"}
      /\ run' = [run EXCEPT ![x] = Free]
      /\ \/ /\ instance[j] = "commit" /\ run[x].at = "answer"
            /\ instance' = [instance EXCEPT ![j] = "resolved"]
            /\ output'   = [output EXCEPT ![j] = run[x].ids]
         \/ /\ instance[j] = "commit" /\ run[x].at = "failed"
            /\ instance' = [instance EXCEPT ![j] = "errored"]
            /\ UNCHANGED output
         \/ instance[j] # "commit" /\ UNCHANGED <<instance, output>>
      /\ UNCHANGED <<payload, minted, promoteStore, mirror, served, refused>>

(* The engine's worker dies under a run, or its answer is lost.            *)
RunLost(x) ==
  /\ run[x] # Free
  /\ run' = [run EXCEPT ![x] = Free]
  /\ UNCHANGED <<instance, payload, minted, promoteStore, mirror, output, served,
                 refused>>

-----------------------------------------------------------------------------
(* The instance after, or apart from, the commit step.                     *)

(* The step's ten minutes are over: the instance errs, the run goes on.    *)
(* Or an operator terminates the instance.                                 *)
StopInstance(j) ==
  /\ instance[j] \in {"load", "commit", "resolved"}
  /\ instance' = [instance EXCEPT ![j] = "errored"]
  /\ output'   = [output EXCEPT ![j] = 0]
  /\ UNCHANGED <<payload, run, minted, promoteStore, mirror, served, refused>>

(* The hooks are dispatched, and the instance completes.                   *)
Complete(j) ==
  /\ instance[j] = "resolved"
  /\ instance' = [instance EXCEPT ![j] = "complete"]
  /\ UNCHANGED <<payload, run, minted, promoteStore, mirror, output, served,
                 refused>>

(* An operator's restart: the instance runs from its first step.           *)
Restart(j) ==
  /\ instance[j] \in {"commit", "resolved", "complete", "errored"}
  /\ instance' = [instance EXCEPT ![j] =
                    IF payload[j] = "inline" THEN "commit" ELSE "load"]
  /\ output'   = [output EXCEPT ![j] = 0]
  /\ UNCHANGED <<payload, run, minted, promoteStore, mirror, served, refused>>

(* An instance is kept for a month, the copy in KV for three.              *)
AgeOut(j) ==
  /\ instance[j] \in {"complete", "errored"}
  /\ instance' = [instance EXCEPT ![j] = "gone"]
  /\ output'   = [output EXCEPT ![j] = 0]
  /\ UNCHANGED <<payload, run, minted, promoteStore, mirror, served, refused>>

MirrorExpires(j) ==
  /\ instance[j] = "gone" /\ mirror[j] # 0
  /\ mirror' = [mirror EXCEPT ![j] = 0]
  /\ UNCHANGED <<instance, payload, run, minted, promoteStore, output, served,
                 refused>>

(* A plausible bug: an instance's output is answered whatever its state.   *)
PollAnyOutput(j) ==
  /\ instance[j] \notin {"none", "gone"}
  /\ served' = served \cup {<<j, output[j]>>}
  /\ UNCHANGED <<instance, payload, run, minted, promoteStore, mirror, output,
                 refused>>

(* GET /api/promote/jobs/:id: the output of a complete instance, the error *)
(* of an errored one, the copy in KV of one that is gone.                  *)
Poll(j) ==
  /\ \/ /\ instance[j] = "complete"
        /\ served' = served \cup {<<j, output[j]>>}
        /\ UNCHANGED refused
     \/ /\ instance[j] = "errored"
        /\ refused' = refused \cup {j}
        /\ UNCHANGED served
     \/ /\ instance[j] \in {"none", "gone"} /\ mirror[j] # 0
        /\ served' = served \cup {<<j, mirror[j]>>}
        /\ UNCHANGED refused
  /\ UNCHANGED <<instance, payload, run, minted, promoteStore, mirror, output>>

PromoteNext ==
  \/ \E j \in Jobs :
       \/ KickOff(j) \/ KickOffAgain(j) \/ Readable(j) \/ PayloadExpires(j)
       \/ Load(j) \/ StopInstance(j) \/ Complete(j) \/ Restart(j)
       \/ AgeOut(j) \/ MirrorExpires(j) \/ Poll(j)
       \/ \E x \in Runs : Execute(x, j)
  \/ \E x \in Runs :
       Batch(x) \/ BatchThrows(x) \/ Recount(x) \/ MirrorResult(x)
         \/ StepAnswers(x) \/ RunLost(x)

PromoteSpec == PromoteInit /\ [][PromoteNext]_promoteVars

-----------------------------------------------------------------------------
PromoteTypeOK ==
  /\ instance \in [Jobs -> {"none", "load", "commit", "resolved", "complete",
                            "errored", "gone"}]
  /\ payload \in [Jobs -> {"none", "inline", "written", "readable"}]
  /\ run \in [Runs ->
       [job : Jobs \cup {NoJob}, ids : 0 .. MaxPlans,
        at : {"free", "planned", "recount", "mirror", "answer", "failed"}]]
  /\ minted \in 0 .. MaxPlans
  /\ recorded \in [Jobs -> 0 .. MaxPlans]
  /\ merged \in [Jobs -> SUBSET (1 .. MaxPlans)]
  /\ mirror \in [Jobs -> 0 .. MaxPlans]
  /\ output \in [Jobs -> 0 .. MaxPlans]
  /\ served \subseteq Jobs \X (1 .. MaxPlans)
  /\ refused \subseteq Jobs

(* Whatever the engine runs again, restarts or forgets, a job's bundle is  *)
(* merged once, and every poll that answers a result answers the ids of    *)
(* that merge (promote-workflow.ts, header points 1 to 3).                 *)
Merges == INSTANCE Once WITH Things <- Jobs, Results <- 1 .. MaxPlans,
                             done <- merged, told <- served
MergedOnce == Merges!OnceSpec

(* Where the documents say more: a job that errored wrote nothing, so a    *)
(* push of its bundle under a new id is safe (RUNBOOKS.md, "Promote        *)
(* workflow job errored").                                                 *)
BundleMergedOnce ==
  \A i, j \in Jobs : \A m \in merged[i], n \in merged[j] : m = n
=============================================================================
