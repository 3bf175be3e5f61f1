--------------------------- MODULE PublishProofs ----------------------------
(***************************************************************************)
(* Proofs about what a promote sets off: PromoteJob, for any jobs, runs    *)
(* and bound, and IndexNow, for any URLs, handlers, days and bounds.       *)
(*                                                                         *)
(* A job's ledger row and its bundle commit in one batch, so what is       *)
(* recorded of a job is what was merged of it; whatever a run, the mirror  *)
(* or the instance holds after the batch is that record.                   *)
(*                                                                         *)
(* A row of the queue is known by its id: ids are never used again, so a   *)
(* batch read before a row was deleted cannot reach the row that replaced  *)
(* it, and a row that was accepted is gone.                                *)
(***************************************************************************)
EXTENDS PromoteJob, IndexNow, TLAPS

-----------------------------------------------------------------------------
(* PromoteJob: its types, and that it implements Once.                     *)
Execution == [job : Jobs \cup {NoJob}, ids : 0 .. MaxPlans,
              at : {"free", "planned", "recount", "mirror", "answer", "failed"}]

(* A run that is not free is of a job; the ids it holds after the batch    *)
(* are the recorded ones.                                                  *)
RunHolds(x) ==
  /\ run[x].at = "free" => run[x] = Free
  /\ run[x].at # "free" => run[x].job \in Jobs
  /\ run[x].at = "planned" => run[x].ids # 0
  /\ run[x].at \in {"recount", "mirror", "answer"}
       => run[x].ids # 0 /\ run[x].ids = recorded[run[x].job]

(* What the catalog, the mirror and the instance hold of a job is what its *)
(* ledger row records.                                                     *)
JobHolds(j) ==
  /\ merged[j] = IF recorded[j] = 0 THEN {} ELSE {recorded[j]}
  /\ mirror[j] # 0 => mirror[j] = recorded[j]
  /\ instance[j] \in {"resolved", "complete"}
       => output[j] # 0 /\ output[j] = recorded[j]

JobsInv ==
  /\ PromoteTypeOK
  /\ \A x \in Runs : RunHolds(x)
  /\ \A j \in Jobs : JobHolds(j)

-----------------------------------------------------------------------------
LEMMA JobsStart == PromoteInit => JobsInv
  BY PromoteConstants
  DEF PromoteInit, JobsInv, PromoteTypeOK, RunHolds, JobHolds, Free

(* A batch that merges: the job had no row, and now its row and its bundle *)
(* agree.                                                                  *)
LEMMA MergeHolds ==
  ASSUME JobsInv, NEW x \in Runs, run[x].at = "planned",
         recorded[run[x].job] = 0, Merge(x)
  PROVE  /\ run[x].job \in Jobs /\ run[x].ids \in 1 .. MaxPlans
         /\ recorded' \in [Jobs -> 0 .. MaxPlans]
         /\ merged' \in [Jobs -> SUBSET (1 .. MaxPlans)]
         /\ recorded'[run[x].job] = run[x].ids
         /\ merged[run[x].job] = {} /\ merged'[run[x].job] = {run[x].ids}
         /\ \A j \in Jobs \ {run[x].job} :
              recorded'[j] = recorded[j] /\ merged'[j] = merged[j]
<1> USE PromoteConstants
<1>1. run[x].job \in Jobs /\ run[x].ids \in 1 .. MaxPlans
  BY DEF JobsInv, PromoteTypeOK, RunHolds
<1>2. merged[run[x].job] = {}
  BY <1>1 DEF JobsInv, JobHolds
<1>3. recorded \in [Jobs -> 0 .. MaxPlans] /\ merged \in [Jobs -> SUBSET (1 .. MaxPlans)]
  BY DEF JobsInv, PromoteTypeOK
<1> QED  BY <1>1, <1>2, <1>3 DEF Merge

(* The ledger keeps what the other jobs, the runs and the mirror hold when *)
(* a batch merges.                                                         *)
LEMMA MergeKeeps ==
  ASSUME JobsInv, NEW x \in Runs, run[x].at = "planned",
         recorded[run[x].job] = 0, Merge(x),
         UNCHANGED <<instance, mirror, output>>
  PROVE  /\ \A j \in Jobs : JobHolds(j)'
         /\ \A y \in Runs : run'[y] = run[y] => RunHolds(y)'
<1> USE PromoteConstants
<1> DEFINE j0 == run[x].job
<1>1. /\ j0 \in Jobs /\ run[x].ids \in 1 .. MaxPlans
      /\ recorded'[j0] = run[x].ids /\ merged'[j0] = {run[x].ids}
      /\ \A j \in Jobs \ {j0} : recorded'[j] = recorded[j] /\ merged'[j] = merged[j]
  BY MergeHolds
<1>2. recorded[j0] = 0
  OBVIOUS
<1> HIDE DEF j0
<1>3. ASSUME NEW j \in Jobs PROVE JobHolds(j)'
  <2>1. CASE j = j0
    <3>1. JobHolds(j0)
      BY <1>1 DEF JobsInv
    <3>2. mirror[j0] = 0 /\ instance[j0] \notin {"resolved", "complete"}
      BY <1>2, <3>1 DEF JobHolds
    <3>3. run[x].ids # 0
      BY <1>1
    <3> QED  BY <1>1, <2>1, <3>2, <3>3 DEF JobHolds
  <2>2. CASE j # j0
    BY <1>1, <2>2 DEF JobsInv, JobHolds
  <2> QED  BY <2>1, <2>2
<1>4. ASSUME NEW y \in Runs, run'[y] = run[y] PROVE RunHolds(y)'
  <2>1. RunHolds(y)
    BY DEF JobsInv
  <2>2. ASSUME run[y].at \in {"recount", "mirror", "answer"}
        PROVE  run[y].ids # 0 /\ run[y].ids = recorded'[run[y].job]
    <3>1. run[y].job \in Jobs /\ recorded[run[y].job] # 0
      BY <2>1, <2>2 DEF RunHolds
    <3>2. run[y].job # j0
      BY <1>2, <3>1
    <3> QED  BY <1>1, <2>1, <2>2, <3>1, <3>2 DEF RunHolds
  <2> QED  BY <1>4, <2>1, <2>2 DEF RunHolds
<1> QED  BY <1>3, <1>4

(* Every step keeps the invariant.                                         *)
LEMMA JobsStep == JobsInv /\ [PromoteNext]_promoteVars => JobsInv'
<1> SUFFICES ASSUME JobsInv, [PromoteNext]_promoteVars PROVE JobsInv'
  OBVIOUS
<1> USE PromoteConstants
<1>0. PromoteTypeOK /\ run \in [Runs -> Execution]
  BY DEF JobsInv, PromoteTypeOK, Execution
<1>1. CASE UNCHANGED promoteVars
  BY <1>1 DEF JobsInv, promoteVars, promoteStore, PromoteTypeOK, RunHolds, JobHolds
<1>2. ASSUME NEW j \in Jobs, KickOff(j) PROVE JobsInv'
  BY <1>0, <1>2
  DEF KickOff, JobsInv, promoteStore, PromoteTypeOK, RunHolds, JobHolds
<1>3. ASSUME NEW j \in Jobs, KickOffAgain(j) PROVE JobsInv'
  BY <1>0, <1>3
  DEF KickOffAgain, JobsInv, promoteStore, PromoteTypeOK, RunHolds, JobHolds
<1>4. ASSUME NEW j \in Jobs, Readable(j) \/ PayloadExpires(j) PROVE JobsInv'
  BY <1>0, <1>4
  DEF Readable, PayloadExpires, JobsInv, promoteStore, PromoteTypeOK, RunHolds,
      JobHolds
<1>5. ASSUME NEW j \in Jobs, Load(j) PROVE JobsInv'
  BY <1>0, <1>5 DEF Load, JobsInv, promoteStore, PromoteTypeOK, RunHolds, JobHolds
<1>6. ASSUME NEW j \in Jobs, StopInstance(j) \/ AgeOut(j) PROVE JobsInv'
  <2>1. PICK k \in {"errored", "gone"} :
          /\ instance' = [instance EXCEPT ![j] = k]
          /\ output'   = [output EXCEPT ![j] = 0]
          /\ UNCHANGED <<payload, run, minted, promoteStore, mirror, served, refused>>
    BY <1>6 DEF StopInstance, AgeOut
  <2>2. PromoteTypeOK'
    BY <1>0, <2>1 DEF promoteStore, PromoteTypeOK
  <2>3. \A y \in Runs : RunHolds(y)'
    BY <2>1 DEF promoteStore, JobsInv, RunHolds
  <2>4. \A i \in Jobs : JobHolds(i)'
    BY <1>0, <2>1 DEF promoteStore, PromoteTypeOK, JobsInv, JobHolds
  <2> QED  BY <2>2, <2>3, <2>4 DEF JobsInv
<1>7. ASSUME NEW j \in Jobs, Complete(j) PROVE JobsInv'
  BY <1>0, <1>7 DEF Complete, JobsInv, promoteStore, PromoteTypeOK, RunHolds, JobHolds
<1>8. ASSUME NEW j \in Jobs, Restart(j) PROVE JobsInv'
  BY <1>0, <1>8 DEF Restart, JobsInv, promoteStore, PromoteTypeOK, RunHolds, JobHolds
<1>9. ASSUME NEW j \in Jobs, MirrorExpires(j) PROVE JobsInv'
  BY <1>0, <1>9
  DEF MirrorExpires, JobsInv, promoteStore, PromoteTypeOK, RunHolds, JobHolds
<1>10. ASSUME NEW j \in Jobs, Poll(j) PROVE JobsInv'
  BY <1>0, <1>10 DEF Poll, JobsInv, promoteStore, PromoteTypeOK, RunHolds, JobHolds
<1>11. ASSUME NEW j \in Jobs, NEW x \in Runs, Execute(x, j) PROVE JobsInv'
  <2>1. PICK e \in Execution :
          /\ run' = [run EXCEPT ![x] = e]
          /\ e.job = j /\ e.ids # 0
          /\ e.at = "planned" \/ (e.at = "recount" /\ e.ids = recorded[j])
          /\ minted' \in 0 .. MaxPlans
    <3>1. CASE /\ recorded[j] # 0
               /\ run' = [run EXCEPT ![x] = [job |-> j, at |-> "recount", ids |-> recorded[j]]]
               /\ UNCHANGED minted
      <4> DEFINE e == [job |-> j, at |-> "recount", ids |-> recorded[j]]
      <4>1. recorded[j] \in 0 .. MaxPlans /\ minted \in 0 .. MaxPlans
        BY <1>0 DEF PromoteTypeOK
      <4>2. e \in Execution
        BY <4>1 DEF Execution
      <4>3. e.job = j /\ e.ids = recorded[j] /\ e.at = "recount"
        OBVIOUS
      <4>4. run' = [run EXCEPT ![x] = e]
        BY <3>1
      <4> HIDE DEF e
      <4> QED  BY <3>1, <4>1, <4>2, <4>3, <4>4
    <3>2. CASE /\ minted < MaxPlans
               /\ minted' = minted + 1
               /\ run' = [run EXCEPT ![x] = [job |-> j, at |-> "planned", ids |-> minted + 1]]
      <4> DEFINE e == [job |-> j, at |-> "planned", ids |-> minted + 1]
      <4>1. minted + 1 \in 0 .. MaxPlans /\ minted + 1 # 0
        BY <1>0, <3>2 DEF PromoteTypeOK
      <4>2. e \in Execution
        BY <4>1 DEF Execution
      <4>3. e.job = j /\ e.ids = minted + 1 /\ e.at = "planned"
        OBVIOUS
      <4>4. run' = [run EXCEPT ![x] = e]
        BY <3>2
      <4>5. e.ids # 0 /\ minted' \in 0 .. MaxPlans
        BY <3>2, <4>1, <4>3
      <4> HIDE DEF e
      <4> QED  BY <4>2, <4>3, <4>4, <4>5
    <3> QED  BY <1>11, <3>1, <3>2 DEF Execute
  <2>2. run' \in [Runs -> Execution] /\ run'[x] = e
        /\ \A y \in Runs \ {x} : run'[y] = run[y]
    BY <1>0, <2>1
  <2>3. PromoteTypeOK'
    BY <1>0, <1>11, <2>1, <2>2 DEF Execute, promoteStore, PromoteTypeOK, Execution
  <2>4. \A y \in Runs : RunHolds(y)'
    BY <1>11, <2>1, <2>2 DEF Execute, promoteStore, JobsInv, RunHolds
  <2>5. \A i \in Jobs : JobHolds(i)'
    BY <1>11 DEF Execute, promoteStore, JobsInv, JobHolds
  <2> QED  BY <2>3, <2>4, <2>5 DEF JobsInv
<1>12. ASSUME NEW x \in Runs, Batch(x) PROVE JobsInv'
  <2>1. CASE recorded[run[x].job] = 0 /\ Merge(x) /\ run' = At(x, "recount")
    <3>1. /\ run' \in [Runs -> Execution]
          /\ \A y \in Runs \ {x} : run'[y] = run[y]
          /\ run'[x].job = run[x].job /\ run'[x].ids = run[x].ids
          /\ run'[x].at = "recount"
      BY <1>0, <2>1 DEF At, Execution
    <3>2. /\ run[x].job \in Jobs /\ run[x].ids \in 1 .. MaxPlans
          /\ recorded' \in [Jobs -> 0 .. MaxPlans]
          /\ merged' \in [Jobs -> SUBSET (1 .. MaxPlans)]
          /\ recorded'[run[x].job] = run[x].ids
      BY <1>12, <2>1, MergeHolds DEF Batch
    <3>3. (\A j \in Jobs : JobHolds(j)') /\ \A y \in Runs \ {x} : RunHolds(y)'
      BY <1>12, <2>1, <3>1, MergeKeeps DEF Batch
    <3>4. RunHolds(x)'
      BY <3>1, <3>2 DEF RunHolds
    <3>5. PromoteTypeOK'
      BY <1>0, <1>12, <3>1, <3>2 DEF Batch, PromoteTypeOK, Execution
    <3> QED  BY <3>3, <3>4, <3>5 DEF JobsInv
  <2>2. CASE /\ recorded[run[x].job] # 0
             /\ run' = [run EXCEPT ![x].at = "recount",
                                   ![x].ids = recorded[run[x].job]]
             /\ UNCHANGED promoteStore
    <3>1. run[x].job \in Jobs /\ recorded[run[x].job] \in 0 .. MaxPlans
      BY <1>0, <1>12 DEF Batch, JobsInv, PromoteTypeOK, RunHolds
    <3>2. /\ run' \in [Runs -> Execution]
          /\ \A y \in Runs \ {x} : run'[y] = run[y]
          /\ run'[x].job = run[x].job /\ run'[x].ids = recorded[run[x].job]
          /\ run'[x].at = "recount"
      BY <1>0, <2>2, <3>1 DEF Execution
    <3>3. PromoteTypeOK'
      BY <1>0, <1>12, <2>2, <3>2 DEF Batch, promoteStore, PromoteTypeOK, Execution
    <3>4. \A y \in Runs : RunHolds(y)'
      BY <2>2, <3>1, <3>2 DEF promoteStore, JobsInv, RunHolds
    <3>5. \A j \in Jobs : JobHolds(j)'
      BY <1>12, <2>2 DEF Batch, promoteStore, JobsInv, JobHolds
    <3> QED  BY <3>3, <3>4, <3>5 DEF JobsInv
  <2> QED  BY <1>12, <2>1, <2>2 DEF Batch
<1>13. ASSUME NEW x \in Runs, BatchThrows(x) PROVE JobsInv'
  <2>1. /\ run' \in [Runs -> Execution]
        /\ \A y \in Runs \ {x} : run'[y] = run[y]
        /\ run'[x].job = run[x].job /\ run'[x].at = "failed"
    BY <1>0, <1>13 DEF BatchThrows, At, Execution
  <2>2. run[x].job \in Jobs
    BY <1>13 DEF BatchThrows, JobsInv, RunHolds
  <2>3. RunHolds(x)'
    BY <2>1, <2>2 DEF RunHolds
  <2>4. CASE UNCHANGED promoteStore
    <3>1. PromoteTypeOK'
      BY <1>0, <1>13, <2>1, <2>4 DEF BatchThrows, promoteStore, PromoteTypeOK, Execution
    <3>2. (\A j \in Jobs : JobHolds(j)') /\ \A y \in Runs \ {x} : RunHolds(y)'
      <4>1. \A j \in Jobs : JobHolds(j)'
        BY <1>13, <2>4 DEF BatchThrows, promoteStore, JobsInv, JobHolds
      <4>2. \A y \in Runs \ {x} : RunHolds(y)'
        BY <2>1, <2>4 DEF promoteStore, JobsInv, RunHolds
      <4> QED  BY <4>1, <4>2
    <3> QED  BY <2>3, <3>1, <3>2 DEF JobsInv
  <2>5. CASE recorded[run[x].job] = 0 /\ Merge(x)
    <3>1. /\ recorded' \in [Jobs -> 0 .. MaxPlans]
          /\ merged' \in [Jobs -> SUBSET (1 .. MaxPlans)]
      BY <1>13, <2>5, MergeHolds DEF BatchThrows
    <3>2. (\A j \in Jobs : JobHolds(j)') /\ \A y \in Runs \ {x} : RunHolds(y)'
      BY <1>13, <2>1, <2>5, MergeKeeps DEF BatchThrows
    <3>3. PromoteTypeOK'
      BY <1>0, <1>13, <2>1, <3>1 DEF BatchThrows, PromoteTypeOK, Execution
    <3> QED  BY <2>3, <3>2, <3>3 DEF JobsInv
  <2> QED  BY <1>13, <2>4, <2>5 DEF BatchThrows
<1>14. ASSUME NEW x \in Runs, Recount(x) PROVE JobsInv'
  <2>1. /\ run' \in [Runs -> Execution]
        /\ \A y \in Runs \ {x} : run'[y] = run[y]
        /\ run'[x].job = run[x].job /\ run'[x].ids = run[x].ids
        /\ run'[x].at \in {"mirror", "failed"}
    BY <1>0, <1>14 DEF Recount, At, Execution
  <2>2. PromoteTypeOK'
    BY <1>0, <1>14, <2>1 DEF Recount, promoteStore, PromoteTypeOK, Execution
  <2>3. \A y \in Runs : RunHolds(y)'
    BY <1>14, <2>1 DEF Recount, promoteStore, JobsInv, RunHolds
  <2>4. \A j \in Jobs : JobHolds(j)'
    BY <1>14 DEF Recount, promoteStore, JobsInv, JobHolds
  <2> QED  BY <2>2, <2>3, <2>4 DEF JobsInv
<1>15. ASSUME NEW x \in Runs, MirrorResult(x) PROVE JobsInv'
  <2>1. /\ run' \in [Runs -> Execution]
        /\ \A y \in Runs \ {x} : run'[y] = run[y]
        /\ run'[x].job = run[x].job /\ run'[x].ids = run[x].ids
        /\ run'[x].at = "answer"
    BY <1>0, <1>15 DEF MirrorResult, At, Execution
  <2>2. /\ run[x].job \in Jobs /\ run[x].ids \in 0 .. MaxPlans
        /\ run[x].ids = recorded[run[x].job]
    BY <1>0, <1>15 DEF MirrorResult, JobsInv, RunHolds, Execution
  <2>3. mirror' \in [Jobs -> 0 .. MaxPlans]
        /\ \A j \in Jobs : mirror'[j] = mirror[j] \/ mirror'[j] = recorded[j]
    BY <1>0, <1>15, <2>2 DEF MirrorResult, PromoteTypeOK
  <2>4. PromoteTypeOK'
    BY <1>0, <1>15, <2>1, <2>3 DEF MirrorResult, promoteStore, PromoteTypeOK, Execution
  <2>5. \A y \in Runs : RunHolds(y)'
    BY <1>15, <2>1 DEF MirrorResult, promoteStore, JobsInv, RunHolds
  <2>6. \A j \in Jobs : JobHolds(j)'
    BY <1>15, <2>3 DEF MirrorResult, promoteStore, JobsInv, JobHolds
  <2> QED  BY <2>4, <2>5, <2>6 DEF JobsInv
<1>16. ASSUME NEW x \in Runs, StepAnswers(x) PROVE JobsInv'
  <2> DEFINE j0 == run[x].job
  <2>1. /\ run' \in [Runs -> Execution] /\ run'[x] = Free
        /\ \A y \in Runs \ {x} : run'[y] = run[y]
    BY <1>0, <1>16 DEF StepAnswers, Free, Execution
  <2>2. j0 \in Jobs /\ run[x].ids \in 0 .. MaxPlans
    BY <1>0, <1>16 DEF StepAnswers, JobsInv, RunHolds, Execution
  <2>3. run[x].at = "answer" => run[x].ids # 0 /\ run[x].ids = recorded[j0]
    BY DEF JobsInv, RunHolds
  <2>4. \A y \in Runs : RunHolds(y)'
    BY <1>16, <2>1 DEF StepAnswers, promoteStore, JobsInv, RunHolds, Free
  <2>5. \/ /\ run[x].at = "answer"
           /\ instance' = [instance EXCEPT ![j0] = "resolved"]
           /\ output'   = [output EXCEPT ![j0] = run[x].ids]
        \/ instance' = [instance EXCEPT ![j0] = "errored"] /\ output' = output
        \/ UNCHANGED <<instance, output>>
    BY <1>16 DEF StepAnswers
  <2>6. UNCHANGED <<payload, minted, recorded, merged, mirror, served, refused>>
    BY <1>16 DEF StepAnswers, promoteStore
  <2> HIDE DEF j0
  <2>7. PromoteTypeOK'
    BY <1>0, <2>1, <2>2, <2>5, <2>6 DEF PromoteTypeOK, Execution
  <2>8. \A j \in Jobs : JobHolds(j)'
    BY <1>0, <2>2, <2>3, <2>5, <2>6 DEF JobsInv, JobHolds, PromoteTypeOK
  <2> QED  BY <2>4, <2>7, <2>8 DEF JobsInv
<1>17. ASSUME NEW x \in Runs, RunLost(x) PROVE JobsInv'
  <2>1. /\ run' \in [Runs -> Execution] /\ run'[x] = Free
        /\ \A y \in Runs \ {x} : run'[y] = run[y]
    BY <1>0, <1>17 DEF RunLost, Free, Execution
  <2>2. PromoteTypeOK'
    BY <1>0, <1>17, <2>1 DEF RunLost, promoteStore, PromoteTypeOK, Execution
  <2>3. \A y \in Runs : RunHolds(y)'
    BY <1>17, <2>1 DEF RunLost, promoteStore, JobsInv, RunHolds, Free
  <2>4. \A j \in Jobs : JobHolds(j)'
    BY <1>17 DEF RunLost, promoteStore, JobsInv, JobHolds
  <2> QED  BY <2>2, <2>3, <2>4 DEF JobsInv
<1> QED
  BY <1>1, <1>2, <1>3, <1>4, <1>5, <1>6, <1>7, <1>8, <1>9, <1>10, <1>11, <1>12,
     <1>13, <1>14, <1>15, <1>16, <1>17
  DEF PromoteNext

LEMMA JobsAlways == PromoteSpec => []JobsInv
  BY JobsStart, JobsStep, PTL DEF PromoteSpec

-----------------------------------------------------------------------------
(* Jobs, runs and what is kept of them hold values the code and the engine *)
(* may give them; a poll answers only ids of a merge.                      *)
THEOREM PromoteTyped == PromoteSpec => []PromoteTypeOK
<1>1. JobsInv => PromoteTypeOK  BY DEF JobsInv
<1> QED  BY <1>1, JobsAlways, PTL

(* A step of the program is a step of the promise, or stutters.            *)
LEMMA MergesStep ==
  JobsInv /\ [PromoteNext]_promoteVars => [Merges!OnceNext]_(Merges!onceVars)
<1> SUFFICES ASSUME JobsInv, [PromoteNext]_promoteVars
             PROVE  [Merges!OnceNext]_(Merges!onceVars)
  OBVIOUS
<1> USE PromoteConstants
<1>1. CASE UNCHANGED <<merged, served>>
  BY <1>1 DEF Merges!onceVars
<1>2. ASSUME NEW x \in Runs, run[x].at = "planned", recorded[run[x].job] = 0,
             Merge(x), served' = served
      PROVE  Merges!OnceNext
  <2>1. /\ run[x].job \in Jobs /\ run[x].ids \in 1 .. MaxPlans
        /\ merged[run[x].job] = {}
    BY <1>2, MergeHolds
  <2>2. merged' = [merged EXCEPT ![run[x].job] = {run[x].ids}]
    BY <1>2, <2>1 DEF Merge
  <2>3. Merges!Do(run[x].job, run[x].ids)
    BY <1>2, <2>1, <2>2 DEF Merges!Do
  <2> QED  BY <2>1, <2>3 DEF Merges!OnceNext
<1>3. ASSUME NEW j \in Jobs, Poll(j)
      PROVE  [Merges!OnceNext]_(Merges!onceVars)
  <2>1. JobHolds(j) /\ output[j] \in 0 .. MaxPlans /\ mirror[j] \in 0 .. MaxPlans
    BY DEF JobsInv, PromoteTypeOK
  <2>2. CASE instance[j] = "complete" /\ served' = served \cup {<<j, output[j]>>}
    <3>1. output[j] \in merged[j] /\ output[j] \in 1 .. MaxPlans
      BY <2>1, <2>2 DEF JobHolds
    <3>2. Merges!Tell(j, output[j])
      BY <1>3, <2>2, <3>1 DEF Poll, promoteStore, Merges!Tell
    <3> QED  BY <3>1, <3>2 DEF Merges!OnceNext
  <2>3. CASE mirror[j] # 0 /\ served' = served \cup {<<j, mirror[j]>>}
    <3>1. mirror[j] \in merged[j] /\ mirror[j] \in 1 .. MaxPlans
      BY <2>1, <2>3 DEF JobHolds
    <3>2. Merges!Tell(j, mirror[j])
      BY <1>3, <2>3, <3>1 DEF Poll, promoteStore, Merges!Tell
    <3> QED  BY <3>1, <3>2 DEF Merges!OnceNext
  <2>4. CASE served' = served
    BY <1>1, <1>3, <2>4 DEF Poll, promoteStore
  <2> QED  BY <1>3, <2>2, <2>3, <2>4 DEF Poll
<1>4. ASSUME NEW x \in Runs, Batch(x) \/ BatchThrows(x)
      PROVE  [Merges!OnceNext]_(Merges!onceVars)
  <2>1. CASE UNCHANGED promoteStore
    BY <1>1, <1>4, <2>1 DEF Batch, BatchThrows, promoteStore
  <2>2. CASE recorded[run[x].job] = 0 /\ Merge(x)
    BY <1>2, <1>4, <2>2 DEF Batch, BatchThrows
  <2> QED  BY <1>4, <2>1, <2>2 DEF Batch, BatchThrows
<1>5. ASSUME NEW j \in Jobs,
             \/ KickOff(j) \/ KickOffAgain(j) \/ Readable(j) \/ PayloadExpires(j)
             \/ Load(j) \/ StopInstance(j) \/ Complete(j) \/ Restart(j)
             \/ AgeOut(j) \/ MirrorExpires(j)
             \/ \E x \in Runs : Execute(x, j)
      PROVE  UNCHANGED <<merged, served>>
  BY <1>5
  DEF KickOff, KickOffAgain, Readable, PayloadExpires, Load, StopInstance,
      Complete, Restart, AgeOut, MirrorExpires, Execute, promoteStore
<1>6. ASSUME NEW x \in Runs,
             Recount(x) \/ MirrorResult(x) \/ StepAnswers(x) \/ RunLost(x)
      PROVE  UNCHANGED <<merged, served>>
  BY <1>6 DEF Recount, MirrorResult, StepAnswers, RunLost, promoteStore
<1>7. CASE UNCHANGED promoteVars
  BY <1>1, <1>7 DEF promoteVars, promoteStore
<1> QED
  BY <1>1, <1>3, <1>4, <1>5, <1>6, <1>7 DEF PromoteNext

(* PromoteJob implements Once: a job's bundle is merged at most once,      *)
(* whatever the engine repeats, and a poll answers the ids of that merge.  *)
THEOREM ImplementsOnce == PromoteSpec => MergedOnce
<1>1. PromoteInit => Merges!OnceInit
  BY DEF PromoteInit, Merges!OnceInit
<1> QED
  BY <1>1, MergesStep, JobsAlways, PTL DEF PromoteSpec, MergedOnce, Merges!OnceSpec

-----------------------------------------------------------------------------
(* IndexNow.                                                               *)
(* Ids of rows, batches and log entries were all handed out, no two rows   *)
(* share one, and no queued row is in the log.                             *)
IdsHold ==
  /\ \A u \in Urls : row[u] <= lastId
  /\ \A u, v \in Urls : row[u] = row[v] /\ row[u] # 0 => u = v
  /\ runner.ids \subseteq 0 .. lastId
  /\ \A p \in Reports : reporter[p].ids \subseteq 0 .. lastId
  /\ \A e \in accepted : e.id \in 1 .. lastId /\ \A u \in Urls : row[u] # e.id

(* A row IndexNow took, and that only waits to be deleted, is owed nothing *)
(* that is not excused.                                                    *)
OutHolds == \A u \in Queued : Out(u) => u \notin owed \/ u \in excused

QueueInv ==
  /\ IndexNowTypeOK
  /\ clock # 0
  /\ IdsHold
  /\ OutHolds
  /\ OwedIsQueued
  /\ AcceptedOnce

-----------------------------------------------------------------------------
LEMMA QueueStart == IndexNowInit => QueueInv
<1> SUFFICES ASSUME IndexNowInit PROVE QueueInv
  OBVIOUS
<1> USE IndexNowConstants DEF IndexNowInit
<1>1. IndexNowTypeOK
  BY DEF IndexNowTypeOK, BatchInHand, Away
<1>2. IdsHold
  BY DEF IdsHold, Away
<1>3. OutHolds /\ OwedIsQueued /\ AcceptedOnce
  BY DEF OutHolds, Queued, OwedIsQueued, AcceptedOnce
<1> QED  BY <1>1, <1>2, <1>3 DEF QueueInv

(* Deleting rows keeps what the ids promise, if the log, the batches and   *)
(* the ghosts do not change, and leaves fewer rows out.                    *)
LEMMA DequeueHolds ==
  ASSUME QueueInv, NEW U, Dequeue(U)
  PROVE  /\ row' \in [Urls -> 0 .. MaxId] /\ queuedAt' \in [Urls -> Nat]
         /\ \A u \in Urls : row'[u] = 0 <=> queuedAt'[u] = 0
         /\ \A u \in Urls : row'[u] = IF u \in U THEN 0 ELSE row[u]
         /\ Queued' = Queued \ U
         /\ lastId' = lastId /\ waited' \subseteq Urls
         /\ \A u \in Urls : row'[u] <= lastId'
         /\ \A u, v \in Urls : row'[u] = row'[v] /\ row'[u] # 0 => u = v
<1> USE IndexNowConstants
<1>1. /\ row \in [Urls -> 0 .. MaxId] /\ queuedAt \in [Urls -> Nat]
      /\ \A u \in Urls : row[u] = 0 <=> queuedAt[u] = 0
      /\ lastId \in 0 .. MaxId /\ waited \subseteq Urls
  BY DEF QueueInv, IndexNowTypeOK
<1>2. \A u \in Urls : /\ row'[u] = IF u \in U THEN 0 ELSE row[u]
                      /\ queuedAt'[u] = IF u \in U THEN 0 ELSE queuedAt[u]
  BY DEF Dequeue
<1>3. row' \in [Urls -> 0 .. MaxId] /\ queuedAt' \in [Urls -> Nat]
  BY <1>1 DEF Dequeue
<1>4. lastId' = lastId /\ waited' \subseteq Urls
  BY <1>1 DEF Dequeue
<1>5. Queued' = Queued \ U
  BY <1>2 DEF Queued
<1>6. /\ \A u \in Urls : row'[u] <= lastId'
      /\ \A u, v \in Urls : row'[u] = row'[v] /\ row'[u] # 0 => u = v
  BY <1>1, <1>2, <1>4 DEF QueueInv, IdsHold
<1> QED  BY <1>1, <1>2, <1>3, <1>4, <1>5, <1>6

(* A page changes: a row that is new has an id no batch and no log row     *)
(* has.                                                                    *)
LEMMA ChangeHolds == ASSUME QueueInv, NEW u \in Urls, Change(u) PROVE QueueInv'
<1> USE IndexNowConstants
<1>0. /\ IndexNowTypeOK /\ IdsHold /\ OutHolds /\ OwedIsQueued /\ AcceptedOnce
      /\ clock # 0 /\ clock' = clock /\ runner' = runner /\ reporter' = reporter
      /\ accepted' = accepted /\ takenAt' = takenAt /\ closed' = closed
      /\ today' = today /\ lastBatch' = lastBatch /\ waited' = waited
      /\ owed' = owed \cup {u}
  BY DEF QueueInv, Change, timeVars, logVars
<1>1. CASE /\ u \in Queued
           /\ excused' = IF Out(u) THEN excused \cup {u} ELSE excused
           /\ UNCHANGED queueVars
  <2>1. Queued' = Queued /\ \A v : Out(v)' <=> Out(v)
    BY <1>0, <1>1 DEF Queued, Out, queueVars
  <2>2. IndexNowTypeOK' /\ IdsHold' /\ AcceptedOnce'
    BY <1>0, <1>1 DEF IndexNowTypeOK, IdsHold, AcceptedOnce, queueVars
  <2>3. OutHolds' /\ OwedIsQueued'
    BY <1>0, <1>1, <2>1 DEF OutHolds, OwedIsQueued
  <2> QED  BY <1>0, <2>2, <2>3 DEF QueueInv
<1>2. CASE /\ u \notin Queued /\ lastId < MaxId
           /\ lastId'   = lastId + 1
           /\ row'      = [row EXCEPT ![u] = lastId + 1]
           /\ queuedAt' = [queuedAt EXCEPT ![u] = clock]
           /\ excused'  = excused \ {u}
  <2>1. /\ row \in [Urls -> 0 .. MaxId] /\ lastId \in 0 .. MaxId
        /\ row'[u] = lastId + 1 /\ \A v \in Urls \ {u} : row'[v] = row[v]
    BY <1>0, <1>2 DEF IndexNowTypeOK
  <2>2. IndexNowTypeOK'
    BY <1>0, <1>2, <2>1 DEF IndexNowTypeOK
  <2>3. IdsHold'
    <3>1. \A v \in Urls : row'[v] <= lastId'
      BY <1>0, <1>2, <2>1 DEF IdsHold
    <3>2. \A v, w \in Urls : row'[v] = row'[w] /\ row'[v] # 0 => v = w
      BY <1>0, <1>2, <2>1 DEF IdsHold
    <3>3. \A e \in accepted' : e.id \in 1 .. lastId' /\ \A v \in Urls : row'[v] # e.id
      BY <1>0, <1>2, <2>1 DEF IdsHold
    <3>4. 0 .. lastId \subseteq 0 .. lastId'
      BY <1>2, <2>1
    <3>5. runner'.ids \subseteq 0 .. lastId'
          /\ \A p \in Reports : reporter'[p].ids \subseteq 0 .. lastId'
      BY <1>0, <3>4 DEF IdsHold
    <3> QED  BY <3>1, <3>2, <3>3, <3>5 DEF IdsHold
  <2>4. Queued' = Queued \cup {u}
    BY <2>1 DEF Queued
  <2>5. ~Out(u)'
    <3>1. row'[u] \notin 0 .. lastId
      BY <2>1
    <3> QED  BY <1>0, <3>1 DEF Out, IdsHold
  <2>6. \A v \in Urls \ {u} : Out(v)' <=> Out(v)
    BY <1>0, <2>1 DEF Out
  <2>7. OutHolds' /\ OwedIsQueued'
    BY <1>0, <1>2, <2>4, <2>5, <2>6 DEF OutHolds, OwedIsQueued, Queued
  <2> QED  BY <1>0, <2>2, <2>3, <2>7 DEF QueueInv, AcceptedOnce
<1>3. CASE u \notin Queued /\ excused' = excused \cup {u} /\ UNCHANGED queueVars
  <2>1. Queued' = Queued /\ \A v : Out(v)' <=> Out(v)
    BY <1>0, <1>3 DEF Queued, Out, queueVars
  <2>2. IndexNowTypeOK' /\ IdsHold' /\ AcceptedOnce'
    BY <1>0, <1>3 DEF IndexNowTypeOK, IdsHold, AcceptedOnce, queueVars
  <2>3. OutHolds' /\ OwedIsQueued'
    BY <1>0, <1>3, <2>1 DEF OutHolds, OwedIsQueued
  <2> QED  BY <1>0, <2>2, <2>3 DEF QueueInv
<1> QED  BY <1>1, <1>2, <1>3 DEF Change

(* Expiry excuses what it deletes.                                         *)
LEMMA ExpireHolds == ASSUME QueueInv, Expire PROVE QueueInv'
<1> USE IndexNowConstants
<1> DEFINE old == {u \in Urls : Stale(u)}
<1>1. /\ Dequeue(old) /\ excused' = excused \cup old
      /\ today' = today \cup {"expired"}
      /\ clock' = clock /\ lastBatch' = lastBatch /\ runner' = runner
      /\ reporter' = reporter /\ accepted' = accepted /\ takenAt' = takenAt
      /\ closed' = closed /\ owed' = owed
  BY DEF Expire, logVars
<1>2. old \subseteq Urls
  OBVIOUS
<1> HIDE DEF old
<1>3. IndexNowTypeOK'
  BY <1>1, <1>2, DequeueHolds DEF QueueInv, IndexNowTypeOK
<1>4. IdsHold'
  <2>1. \A e \in accepted' : e.id \in 1 .. lastId' /\ \A u \in Urls : row'[u] # e.id
    BY <1>1, DequeueHolds DEF QueueInv, IdsHold
  <2> QED  BY <1>1, <2>1, DequeueHolds DEF QueueInv, IdsHold
<1>5. Queued' = Queued \ old /\ \A u \in Queued' : row'[u] = row[u]
  BY <1>1, DequeueHolds DEF Queued
<1>6. \A u \in Queued' : Out(u)' <=> Out(u)
  BY <1>1, <1>5 DEF Out
<1>7. OutHolds' /\ OwedIsQueued'
  BY <1>1, <1>5, <1>6 DEF QueueInv, OutHolds, OwedIsQueued
<1> QED  BY <1>1, <1>3, <1>4, <1>7 DEF QueueInv, AcceptedOnce

(* The runner reads a batch: ids of rows.                                  *)
LEMMA ReadBatchHolds == ASSUME QueueInv, ReadBatch PROVE QueueInv'
<1> USE IndexNowConstants
<1> DEFINE send == {u \in Queued : ~Deferred(u)}
<1>0. /\ clock' = clock /\ UNCHANGED queueVars /\ reporter' = reporter
      /\ accepted' = accepted /\ takenAt' = takenAt /\ closed' = closed
      /\ owed' = owed /\ excused' = excused
      /\ today' = today \cup {"drained"}
      /\ waited' \subseteq Urls
  BY DEF ReadBatch, logVars, QueueInv, IndexNowTypeOK, Queued
<1>1. \/ UNCHANGED <<runner, lastBatch>>
      \/ /\ lastBatch' = lastBatch + 1 /\ lastBatch < MaxBatch
         /\ runner' = [at |-> "ready", batch |-> lastBatch + 1,
                       ids |-> {row[u] : u \in send}, ok |-> FALSE, sent |-> 0]
  BY DEF ReadBatch
<1>2. {row[u] : u \in send} \subseteq 0 .. lastId /\ lastId \in 0 .. MaxId
  BY DEF QueueInv, IndexNowTypeOK, IdsHold, Queued
<1> HIDE DEF send
<1>3. /\ runner' \in BatchInHand /\ lastBatch' \in 0 .. MaxBatch
      /\ runner'.ids \subseteq 0 .. lastId
      /\ runner' = runner \/ runner'.at = "ready"
  <2>1. 0 .. lastId \subseteq 0 .. MaxId
    BY <1>2
  <2>2. CASE UNCHANGED <<runner, lastBatch>>
    BY <2>2 DEF QueueInv, IndexNowTypeOK, IdsHold
  <2>3. CASE ~UNCHANGED <<runner, lastBatch>>
    <3>1. {row[u] : u \in send} \in SUBSET (0 .. MaxId)
      BY <1>2, <2>1
    <3>2. lastBatch + 1 \in 0 .. MaxBatch
      BY <1>1, <2>3 DEF QueueInv, IndexNowTypeOK
    <3>3. /\ lastBatch' = lastBatch + 1
          /\ runner' = [at |-> "ready", batch |-> lastBatch + 1,
                        ids |-> {row[u] : u \in send}, ok |-> FALSE, sent |-> 0]
      BY <1>1, <2>3
    <3>4. runner' \in BatchInHand
      BY <3>1, <3>2, <3>3 DEF BatchInHand
    <3>5. runner'.ids = {row[u] : u \in send} /\ runner'.at = "ready"
      BY <3>3
    <3> QED  BY <1>2, <3>2, <3>3, <3>4, <3>5
  <2> QED  BY <2>2, <2>3
<1>4. IndexNowTypeOK'
  BY <1>0, <1>3 DEF QueueInv, IndexNowTypeOK, queueVars
<1>5. IdsHold'
  BY <1>0, <1>3 DEF QueueInv, IdsHold, queueVars
<1>6. Queued' = Queued /\ \A u : Out(u)' => Out(u)
  BY <1>0, <1>3 DEF Queued, Out, queueVars
<1>7. OutHolds' /\ OwedIsQueued'
  BY <1>0, <1>6 DEF QueueInv, OutHolds, OwedIsQueued
<1> QED  BY <1>0, <1>4, <1>5, <1>7 DEF QueueInv, AcceptedOnce

(* IndexNow answers: what it says it took is owed no more.                 *)
LEMMA PostHolds == ASSUME QueueInv, Post PROVE QueueInv'
<1> USE IndexNowConstants
<1>1. PICK ok \in BOOLEAN, took \in BOOLEAN :
        /\ ok => took
        /\ runner' = [runner EXCEPT !.at = "sent", !.ok = ok, !.sent = clock]
        /\ owed' = IF took THEN {u \in owed : row[u] \notin runner.ids} ELSE owed
  BY DEF Post
<1>2. /\ UNCHANGED <<timeVars, queueVars, logVars>>
      /\ lastBatch' = lastBatch /\ reporter' = reporter
      /\ excused' = excused /\ waited' = waited
  BY DEF Post
<1>3. /\ runner' \in BatchInHand /\ runner'.ids = runner.ids /\ runner'.ok = ok
      /\ owed' \subseteq owed
  BY <1>1 DEF QueueInv, IndexNowTypeOK, BatchInHand
<1>4. IndexNowTypeOK'
  BY <1>2, <1>3 DEF QueueInv, IndexNowTypeOK, timeVars, queueVars, logVars
<1>5. IdsHold'
  BY <1>2, <1>3 DEF QueueInv, IdsHold, queueVars, logVars
<1>6. Queued' = Queued
  BY <1>2 DEF Queued, queueVars
<1>7. ASSUME NEW u \in Queued, Out(u)' PROVE u \notin owed' \/ u \in excused'
  <2>1. CASE runner'.ok /\ row'[u] \in runner'.ids
    BY <1>1, <1>2, <1>3, <2>1 DEF queueVars
  <2>2. CASE Out(u)
    BY <1>2, <1>3, <2>2 DEF QueueInv, OutHolds
  <2> QED  BY <1>2, <1>7, <2>1, <2>2 DEF Out, queueVars
<1>8. OutHolds' /\ OwedIsQueued'
  BY <1>2, <1>3, <1>6, <1>7 DEF QueueInv, OutHolds, OwedIsQueued
<1> QED  BY <1>2, <1>4, <1>5, <1>8 DEF QueueInv, AcceptedOnce, timeVars, logVars

(* A handler of the report reads: its rows are the runner's.               *)
LEMMA ReadReportHolds == ASSUME QueueInv, NEW p \in Reports, ReadReport(p) PROVE QueueInv'
<1> USE IndexNowConstants
<1> DEFINE still == {i \in runner.ids : \E u \in Queued : row[u] = i}
<1>1. /\ runner.at = "sent"
      /\ reporter' = [reporter EXCEPT ![p] =
                        [runner EXCEPT !.at = "commit", !.ids = still]]
      /\ UNCHANGED <<timeVars, queueVars, lastBatch, runner, logVars, owed,
                     excused, waited>>
  BY DEF ReadReport
<1>2. still \subseteq runner.ids
  OBVIOUS
<1> HIDE DEF still
<1>3. /\ runner \in BatchInHand /\ reporter \in [Reports -> BatchInHand]
      /\ runner.ids \subseteq 0 .. MaxId
  BY DEF QueueInv, IndexNowTypeOK, BatchInHand
<1>4. [runner EXCEPT !.at = "commit", !.ids = still] \in BatchInHand
  BY <1>2, <1>3 DEF BatchInHand
<1>5. /\ reporter' \in [Reports -> BatchInHand]
      /\ reporter'[p].ids = still /\ reporter'[p].ok = runner.ok
      /\ \A q \in Reports \ {p} : reporter'[q] = reporter[q]
  BY <1>1, <1>3, <1>4 DEF BatchInHand
<1>6. IndexNowTypeOK'
  BY <1>1, <1>5 DEF QueueInv, IndexNowTypeOK, timeVars, queueVars, logVars
<1>7. IdsHold'
  BY <1>1, <1>2, <1>5 DEF QueueInv, IdsHold, queueVars, logVars
<1>8. Queued' = Queued
  BY <1>1 DEF Queued, queueVars
<1>9. ASSUME NEW u, Out(u)' PROVE Out(u)
  BY <1>1, <1>2, <1>5, <1>9 DEF Out, queueVars
<1>10. OutHolds' /\ OwedIsQueued'
  BY <1>1, <1>8, <1>9 DEF QueueInv, OutHolds, OwedIsQueued
<1> QED  BY <1>1, <1>6, <1>7, <1>10 DEF QueueInv, AcceptedOnce, timeVars, logVars

(* An accepted report: the rows it logs were queued, so none was logged.   *)
LEMMA RecordAcceptedHolds ==
  ASSUME QueueInv, NEW p \in Reports, RecordAccepted(p) PROVE QueueInv'
<1> USE IndexNowConstants
<1> DEFINE r == reporter[p]
           U == {u \in Queued : row[u] \in r.ids}
           new == {[batch |-> r.batch, id |-> row[u], by |-> p] : u \in U}
<1>1. /\ r.at = "commit" /\ r.ok
      /\ accepted' = accepted \cup new
      /\ takenAt' = [u \in Urls |->
                       IF u \in U /\ takenAt[u] < r.sent THEN r.sent ELSE takenAt[u]]
      /\ closed' = closed \cup {r.batch} \/ closed' = closed
      /\ Dequeue(U)
      /\ reporter' = [reporter EXCEPT ![p] = Away]
      /\ UNCHANGED <<timeVars, lastBatch, runner, owed, excused>>
  BY DEF RecordAccepted
<1>2. /\ r \in BatchInHand /\ Away \in BatchInHand
      /\ reporter \in [Reports -> BatchInHand]
      /\ takenAt \in [Urls -> Nat] /\ row \in [Urls -> 0 .. MaxId]
      /\ lastId \in 0 .. MaxId
  BY DEF QueueInv, IndexNowTypeOK, BatchInHand, Away
<1>3. /\ U \subseteq Queued /\ Queued \subseteq Urls
      /\ \A u \in U : row[u] \in 1 .. lastId /\ row[u] \in 1 .. MaxId
      /\ \A u \in U : Out(u)
  <2>1. \A u \in U : row[u] \in 1 .. lastId /\ row[u] \in 1 .. MaxId
    <3> SUFFICES ASSUME NEW u \in Queued
                 PROVE  row[u] \in 1 .. lastId /\ row[u] \in 1 .. MaxId
      OBVIOUS
    <3>1. u \in Urls /\ row[u] # 0 /\ row[u] <= lastId
      BY DEF Queued, QueueInv, IdsHold
    <3> QED  BY <1>2, <3>1
  <2> QED  BY <1>1, <2>1 DEF Out, Queued
<1>4. \A e \in new : \E u \in U : e = [batch |-> r.batch, id |-> row[u], by |-> p]
  OBVIOUS
<1>5. new \subseteq [batch : 0 .. MaxBatch, id : 1 .. MaxId, by : Reports]
  BY <1>2, <1>3 DEF BatchInHand
<1> HIDE DEF U, new
<1>6. /\ takenAt' \in [Urls -> Nat] /\ closed' \subseteq 0 .. MaxBatch
      /\ reporter' \in [Reports -> BatchInHand]
  <2>1. r.sent \in Nat /\ r.batch \in 0 .. MaxBatch
    BY <1>2 DEF BatchInHand
  <2> HIDE DEF r
  <2> QED  BY <1>1, <1>2, <2>1 DEF QueueInv, IndexNowTypeOK
<1>7. IndexNowTypeOK'
  BY <1>1, <1>5, <1>6, DequeueHolds DEF QueueInv, IndexNowTypeOK, timeVars
<1>8. /\ reporter'[p] = Away
      /\ \A q \in Reports \ {p} : reporter'[q] = reporter[q]
  BY <1>1, <1>2
<1>9. /\ Queued' = Queued \ U /\ lastId' = lastId
      /\ \A u \in Urls : row'[u] = IF u \in U THEN 0 ELSE row[u]
  BY <1>1, DequeueHolds
<1>10. IdsHold'
  <2>1. \A e \in accepted : e.id \in 1 .. lastId' /\ \A u \in Urls : row'[u] # e.id
    BY <1>9 DEF QueueInv, IdsHold
  <2>2. ASSUME NEW e \in new
        PROVE  e.id \in 1 .. lastId' /\ \A u \in Urls : row'[u] # e.id
    <3>1. PICK v \in U : e = [batch |-> r.batch, id |-> row[v], by |-> p]
      BY <1>4
    <3>2. e.id = row[v] /\ row[v] \in 1 .. lastId /\ v \in Urls
      BY <1>3, <3>1
    <3> QED  BY <1>9, <3>2 DEF QueueInv, IdsHold
  <2>3. Away.ids \subseteq 0 .. lastId'
    BY DEF Away
  <2>4. \A q \in Reports : reporter'[q].ids \subseteq 0 .. lastId'
    BY <1>8, <1>9, <2>3 DEF QueueInv, IdsHold
  <2>5. runner'.ids \subseteq 0 .. lastId'
    BY <1>1, <1>9 DEF QueueInv, IdsHold
  <2> QED  BY <1>1, <2>1, <2>2, <2>4, <2>5, DequeueHolds DEF IdsHold
<1>11. ASSUME NEW u \in Queued', Out(u)' PROVE Out(u)
  <2>1. row'[u] = row[u] /\ Away.ok = FALSE
    BY <1>3, <1>9 DEF Away
  <2> QED  BY <1>1, <1>8, <1>11, <2>1 DEF Out
<1>12. OutHolds'
  BY <1>1, <1>9, <1>11 DEF QueueInv, OutHolds
<1>13. OwedIsQueued'
  BY <1>1, <1>3, <1>9 DEF QueueInv, OutHolds, OwedIsQueued
<1>14. AcceptedOnce'
  <2>1. \A e \in new, f \in accepted : e.id # f.id
    <3> SUFFICES ASSUME NEW e \in new, NEW f \in accepted PROVE e.id # f.id
      OBVIOUS
    <3>1. PICK v \in U : e = [batch |-> r.batch, id |-> row[v], by |-> p]
      BY <1>4
    <3> QED  BY <1>3, <3>1 DEF QueueInv, IdsHold
  <2>2. \A e, f \in new : e.id = f.id => e = f
    <3> SUFFICES ASSUME NEW e \in new, NEW f \in new, e.id = f.id PROVE e = f
      OBVIOUS
    <3>1. PICK v \in U : e = [batch |-> r.batch, id |-> row[v], by |-> p]
      BY <1>4
    <3>2. PICK w \in U : f = [batch |-> r.batch, id |-> row[w], by |-> p]
      BY <1>4
    <3> QED  BY <3>1, <3>2
  <2>3. \A e, f \in accepted : e.id = f.id => e = f
    BY DEF QueueInv, AcceptedOnce
  <2> QED  BY <1>1, <2>1, <2>2, <2>3 DEF AcceptedOnce
<1> QED  BY <1>1, <1>7, <1>10, <1>12, <1>13, <1>14 DEF QueueInv, timeVars

(* Every step keeps the invariant.                                         *)
LEMMA QueueStep == QueueInv /\ [IndexNowNext]_indexVars => QueueInv'
<1> SUFFICES ASSUME QueueInv, [IndexNowNext]_indexVars PROVE QueueInv'
  OBVIOUS
<1> USE IndexNowConstants
<1>1. CASE UNCHANGED indexVars
  BY <1>1
  DEF indexVars, timeVars, queueVars, logVars, QueueInv, IndexNowTypeOK, IdsHold,
      OutHolds, OwedIsQueued, AcceptedOnce, Queued, Out
<1>2. CASE Tick
  <2>1. /\ clock' = clock + 1
        /\ today' = {} \/ today' = today
        /\ UNCHANGED <<queueVars, lastBatch, runner, reporter, logVars, owed,
                       excused, waited>>
    BY <1>2 DEF Tick
  <2>2. IndexNowTypeOK' /\ clock' # 0
    <3>1. clock' \in Nat /\ clock' # 0
      BY <2>1 DEF QueueInv, IndexNowTypeOK
    <3>2. today' \subseteq {"expired", "drained"}
      BY <2>1 DEF QueueInv, IndexNowTypeOK
    <3> QED  BY <2>1, <3>1, <3>2 DEF QueueInv, IndexNowTypeOK, queueVars, logVars
  <2>3. IdsHold' /\ OutHolds' /\ OwedIsQueued' /\ AcceptedOnce'
    BY <2>1
    DEF QueueInv, IdsHold, OutHolds, OwedIsQueued, AcceptedOnce, Queued, Out,
        queueVars, logVars
  <2> QED  BY <2>2, <2>3 DEF QueueInv
<1>3. ASSUME NEW p \in Reports, RecordRefused(p) \/ ReportDies(p) PROVE QueueInv'
  <2>1. /\ reporter[p] \in BatchInHand /\ Away \in BatchInHand
        /\ reporter \in [Reports -> BatchInHand]
    BY DEF QueueInv, IndexNowTypeOK, BatchInHand, Away
  <2>2. closed' = closed \/ closed' = closed \cup {reporter[p].batch}
    BY <1>3 DEF RecordRefused, ReportDies, logVars
  <2>3. /\ reporter' = [reporter EXCEPT ![p] = Away]
        /\ UNCHANGED <<timeVars, queueVars, lastBatch, runner, accepted, takenAt,
                       owed, excused, waited>>
    BY <1>3 DEF RecordRefused, ReportDies, logVars
  <2>4. /\ reporter' \in [Reports -> BatchInHand]
        /\ reporter'[p] = Away
        /\ \A q \in Reports \ {p} : reporter'[q] = reporter[q]
    BY <2>1, <2>3
  <2>5. IndexNowTypeOK' /\ clock' # 0
    <3>1. closed' \subseteq 0 .. MaxBatch
      BY <2>1, <2>2 DEF QueueInv, IndexNowTypeOK, BatchInHand
    <3> QED  BY <2>3, <2>4, <3>1 DEF QueueInv, IndexNowTypeOK, timeVars, queueVars
  <2>6. IdsHold'
    BY <2>3, <2>4 DEF QueueInv, IdsHold, queueVars, Away
  <2>7. Queued' = Queued /\ \A u : Out(u)' => Out(u)
    BY <2>3, <2>4 DEF Queued, Out, Away, queueVars
  <2>8. OutHolds' /\ OwedIsQueued' /\ AcceptedOnce'
    BY <2>3, <2>7 DEF QueueInv, OutHolds, OwedIsQueued, AcceptedOnce
  <2> QED  BY <2>5, <2>6, <2>8 DEF QueueInv
<1>4. CASE RunnerEnds
  <2>1. /\ runner' = Away
        /\ UNCHANGED <<timeVars, queueVars, lastBatch, reporter, logVars, owed,
                       excused, waited>>
    BY <1>4 DEF RunnerEnds
  <2>2. IndexNowTypeOK' /\ clock' # 0
    BY <2>1
    DEF QueueInv, IndexNowTypeOK, timeVars, queueVars, logVars, BatchInHand, Away
  <2>3. IdsHold'
    BY <2>1 DEF QueueInv, IdsHold, queueVars, logVars, Away
  <2>4. Queued' = Queued /\ \A u : Out(u)' => Out(u)
    BY <2>1 DEF Queued, Out, Away, queueVars
  <2>5. OutHolds' /\ OwedIsQueued' /\ AcceptedOnce'
    BY <2>1, <2>4 DEF QueueInv, OutHolds, OwedIsQueued, AcceptedOnce, logVars
  <2> QED  BY <2>2, <2>3, <2>5 DEF QueueInv
<1> QED
  BY <1>1, <1>2, <1>3, <1>4, ChangeHolds, ExpireHolds, ReadBatchHolds,
     PostHolds, ReadReportHolds, RecordAcceptedHolds
  DEF IndexNowNext

LEMMA QueueAlways == IndexNowSpec => []QueueInv
  BY QueueStart, QueueStep, PTL DEF IndexNowSpec

-----------------------------------------------------------------------------
(* The queue, the batches and the log hold values the code may give them,  *)
(* and a row has an age exactly while it is queued.                        *)
THEOREM IndexNowTyped == IndexNowSpec => []IndexNowTypeOK
<1>1. QueueInv => IndexNowTypeOK  BY DEF QueueInv
<1> QED  BY <1>1, QueueAlways, PTL

(* A page that is owed has a row, whatever posts are repeated, lost or     *)
(* refused, unless one of the three ways the code allows took it.          *)
THEOREM NoChangeIsLost == IndexNowSpec => []OwedIsQueued
<1>1. QueueInv => OwedIsQueued  BY DEF QueueInv
<1> QED  BY <1>1, QueueAlways, PTL

(* A queued row is accepted once, by one report of one batch.              *)
THEOREM RowsAcceptedOnce == IndexNowSpec => []AcceptedOnce
<1>1. QueueInv => AcceptedOnce  BY DEF QueueInv
<1> QED  BY <1>1, QueueAlways, PTL
=============================================================================
