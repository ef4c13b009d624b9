---------------------------- MODULE UpdateScript ----------------------------
(***************************************************************************)
(* GptUpdate with a client that drives an update to its end: it calls the  *)
(* three stages in turn, rewrites a chain of images whenever it is granted *)
(* one, goes on to the next stage when a stage is refused, starts over     *)
(* from MAIN when it is itself restarted, and stops when FINALIZE succeeds *)
(* with both chains rewritten.  At most MaxFaults failures happen.         *)
(***************************************************************************)
EXTENDS GptUpdate

CONSTANT MaxFaults
ASSUME MaxFaultsAssumption == MaxFaults \in Nat

VARIABLES
  todo,    \* the stage the client is at, Done after the last
  called,  \* the client has called the stage todo
  faults   \* number of failures so far

Done == FINALIZE + 1
script == <<todo, called>>
svars == <<vars, script, faults>>

Undamaged == \A l \in Luns : ~Damaged(l)

ScriptInit == /\ Init /\ Undamaged
              /\ todo = MAIN /\ called = FALSE /\ faults = 0

NextTodo == IF todo = FINALIZE THEN MAIN ELSE todo + 1

ScriptCall ==
  /\ todo \in Stages /\ called = FALSE
  /\ Call(todo)
  /\ called' = TRUE /\ UNCHANGED <<todo, faults>>

\* A stage that must not be called because a chain is torn.
Skip ==
  /\ todo \in Stages /\ called = FALSE /\ pc = "idle" /\ ~ClientMayCall(todo)
  /\ todo' = NextTodo /\ UNCHANGED <<vars, called, faults>>

Refused ==
  /\ called = TRUE /\ pc = "idle" /\ granted = 0
  /\ called' = FALSE /\ todo' = NextTodo /\ UNCHANGED <<vars, faults>>

Rewrite ==
  /\ called = TRUE
  /\ \E c \in Chains :
       /\ granted = ImageStage(c)
       /\ \/ BeginImages(c) /\ img[c] # "torn" /\ UNCHANGED script
          \/ EndImages(c) /\ called' = FALSE /\ todo' = NextTodo
  /\ UNCHANGED faults

Finalized ==
  /\ called = TRUE /\ pc = "idle" /\ granted = FINALIZE
  /\ called' = FALSE
  /\ todo' = IF \A c \in Chains : img[c] = "new" THEN Done ELSE MAIN
  /\ UNCHANGED <<vars, faults>>

Restart == Kill \/ PowerLoss

ScriptFailure ==
  /\ todo # Done /\ faults < MaxFaults /\ faults' = faults + 1
  /\ \/ (OpenFails \/ StepFails) /\ UNCHANGED script
     \/ Restart /\ called' = FALSE /\ todo' = MAIN

Script == ScriptCall \/ Skip \/ Refused \/ Rewrite \/ Finalized
ProgramStep == Program /\ UNCHANGED <<script, faults>>

ScriptNext == ProgramStep \/ Script \/ ScriptFailure

\* The updater's process is scheduled; nothing is assumed of the failures,
\* except that there are at most MaxFaults of them.
Fairness == WF_svars(ProgramStep) /\ WF_svars(Script)

ScriptSpec == ScriptInit /\ [][ScriptNext]_svars /\ Fairness

\* However the failures fell, and whatever mixture of stages they left the
\* LUNs in, calling the stages in turn ends with the update complete.
UpdateCompletes == <>(todo = Done)

\* When the client stops, every table of every LUN is valid, selects the
\* primary images again, and both chains are rewritten.
CompleteMeansNew ==
  todo = Done => /\ \A c \in Chains : img[c] = "new"
                 /\ \A l \in Luns : Boots(l, "primary")
                 /\ \A l \in Luns, t \in Tables :
                      /\ Valid(mhdr[l][t], marr[l][t])
                      /\ marr[l][t] = Uniform("primary")
=============================================================================
