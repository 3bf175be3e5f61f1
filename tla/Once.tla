-------------------------------- MODULE Once --------------------------------
(***************************************************************************)
(* What a best-effort caller is promised of work that cannot be undone:    *)
(* each thing is done at most once, with one result that never changes,    *)
(* and a caller is only told a result that is so.  PromoteJob implements   *)
(* it for job ids.                                                         *)
(***************************************************************************)
CONSTANTS
  Things,     \* what is asked for: job ids
  Results     \* what doing one yields: the ids of a merge

VARIABLES
  done,       \* the results each thing was done with: none or one
  told        \* the pairs of a thing and a result some caller was told

onceVars == <<done, told>>

OnceInit ==
  /\ done = [t \in Things |-> {}]
  /\ told = {}

(* The thing is done, and the caller may hear of it in the same step.      *)
Do(t, r) ==
  /\ done[t] = {}
  /\ done' = [done EXCEPT ![t] = {r}]
  /\ told' \in {told, told \cup {<<t, r>>}}

Tell(t, r) ==
  /\ r \in done[t]
  /\ told' = told \cup {<<t, r>>}
  /\ UNCHANGED done

OnceNext ==
  \E t \in Things, r \in Results : Do(t, r) \/ Tell(t, r)

OnceSpec == OnceInit /\ [][OnceNext]_onceVars
=============================================================================
