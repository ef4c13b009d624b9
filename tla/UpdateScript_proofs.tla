------------------------- MODULE UpdateScript_proofs -------------------------
(***************************************************************************)
(* The client's script only takes steps of GptUpdate, so that what is      *)
(* proved of GptUpdate holds of an update driven to its end: when the      *)
(* client stops, FINALIZE has just been granted, and nothing moves after.  *)
(***************************************************************************)
EXTENDS UpdateScript, GptUpdate_proofs

USE MaxFaultsAssumption

\* The script is at a stage, or it has stopped: every chain is rewritten,
\* every table final, and no program is running.
StoppedInv ==
  \/ todo \in Stages
  \/ /\ todo = Done /\ pc = "idle" /\ called = FALSE
     /\ \A c \in Chains : img[c] = "new"
     /\ \A l \in Luns, t \in Tables : /\ mhdr[l][t].state = "OK"
                                      /\ mhdr[l][t].acrc = marr[l][t]
                                      /\ marr[l][t] = Uniform("primary")

\* A step of the script is a step of GptUpdate, or leaves it alone.
LEMMA ScriptSteps == [ScriptNext]_svars => [Next]_vars
<1> SUFFICES ASSUME [ScriptNext]_svars PROVE [Next]_vars OBVIOUS
<1>1. CASE ProgramStep
  BY <1>1 DEF ProgramStep, Next
<1>2. CASE ScriptCall
  BY <1>2 DEF ScriptCall, Next, Client
<1>3. CASE Rewrite
  BY <1>3 DEF Rewrite, Next, Client
<1>4. CASE Skip \/ Refused \/ Finalized \/ UNCHANGED svars
  BY <1>4 DEF Skip, Refused, Finalized, svars
<1>5. CASE ScriptFailure
  BY <1>5 DEF ScriptFailure, Restart, Next, Failure
<1> QED BY <1>1, <1>2, <1>3, <1>4, <1>5 DEF ScriptNext, Script

\* The update driven by the script is an update.
THEOREM ScriptImplementsUpdate == ScriptSpec => Spec
<1>1. ScriptInit => Init
  BY DEF ScriptInit
<1> QED BY <1>1, ScriptSteps, PTL DEF ScriptSpec, Spec

\* Only the grant of FINALIZE, with both chains rewritten, stops the script.
LEMMA StoppedStep ==
  GrantMeansFinal /\ StoppedInv /\ [ScriptNext]_svars => StoppedInv'
<1> SUFFICES ASSUME GrantMeansFinal, StoppedInv, [ScriptNext]_svars
             PROVE  StoppedInv'
  OBVIOUS
<1>0. /\ Stages = 1..3 /\ FINALIZE = 3 /\ MAIN = 1 /\ Done = 4
      /\ Uniform("primary")' = Uniform("primary")
  BY DEF Stages, MAIN, BACKUP, FINALIZE, Done, Uniform
<1>1. CASE todo \in Stages
  <2>1. CASE Finalized /\ todo' = Done
    <3>1. /\ UNCHANGED vars /\ pc = "idle" /\ granted = FINALIZE
          /\ called' = FALSE /\ \A c \in Chains : img[c] = "new"
      BY <1>0, <2>1 DEF Finalized
    <3>2. \A l \in Luns, t \in Tables : /\ mhdr[l][t].state = "OK"
                                        /\ mhdr[l][t].acrc = marr[l][t]
                                        /\ marr[l][t] = Uniform("primary")
      BY <1>0, <3>1 DEF GrantMeansFinal, FINALIZE
    <3>3. pc' = pc /\ img' = img /\ mhdr' = mhdr /\ marr' = marr
      BY <3>1 DEF vars, disk, run, client
    <3> QED BY <1>0, <2>1, <3>1, <3>2, <3>3 DEF StoppedInv
  <2>2. CASE todo' \in Stages
    BY <2>2 DEF StoppedInv
  <2>3. NextTodo \in Stages
    BY <1>0, <1>1 DEF NextTodo
  <2>4. CASE Finalized
    <3>1. todo' = MAIN \/ todo' = Done
      BY <2>4 DEF Finalized
    <3> QED BY <1>0, <2>1, <2>2, <2>4, <3>1
  <2>5. CASE \/ Skip \/ Refused \/ ScriptCall \/ Rewrite \/ ScriptFailure
             \/ ProgramStep \/ UNCHANGED svars
    <3>1. todo' = todo \/ todo' = NextTodo \/ todo' = MAIN
      BY <2>5 DEF Skip, Refused, ScriptCall, Rewrite, ScriptFailure,
                  ProgramStep, script, svars
    <3> QED BY <1>0, <1>1, <2>2, <2>3, <3>1
  <2> QED BY <2>4, <2>5 DEF ScriptNext, Script
<1>2. CASE todo \notin Stages
  <2>1. /\ todo = Done /\ pc = "idle" /\ called = FALSE
        /\ \A c \in Chains : img[c] = "new"
        /\ \A l \in Luns, t \in Tables : /\ mhdr[l][t].state = "OK"
                                         /\ mhdr[l][t].acrc = marr[l][t]
                                         /\ marr[l][t] = Uniform("primary")
    BY <1>2 DEF StoppedInv
  <2>2. ~(Skip \/ Refused \/ ScriptCall \/ Rewrite \/ Finalized \/ ScriptFailure)
    BY <1>2, <2>1 DEF Skip, Refused, ScriptCall, Rewrite, Finalized, ScriptFailure
  <2>3. ~Program
    BY <2>1 DEF Program, Open, SetXbl, SecHeader, SecArray, PrimBad, PrimOk,
                SecBad, SecOk, SetState, Exit, Return
  <2>4. UNCHANGED svars
    BY <2>2, <2>3 DEF ScriptNext, Script, ProgramStep
  <2>5. /\ pc' = pc /\ img' = img /\ mhdr' = mhdr /\ marr' = marr
        /\ todo' = todo /\ called' = called
    BY <2>4 DEF svars, vars, disk, run, client, script
  <2> QED BY <1>0, <2>1, <2>5 DEF StoppedInv
<1> QED BY <1>1, <1>2

\* When the client stops, every table of every LUN is valid, selects the
\* primary images again, and both chains are rewritten.
THEOREM CompleteTheorem ==
  ASSUME Ordered PROVE ScriptSpec => []CompleteMeansNew
<1>1. ScriptInit => StoppedInv
  BY DEF ScriptInit, StoppedInv, Stages
<1>2. ScriptSpec => []GrantMeansFinal
  BY ScriptImplementsUpdate, FinalTheorem, PTL
<1>3. StoppedInv => CompleteMeansNew
  BY DEF StoppedInv, CompleteMeansNew, Boots, Valid, Tables, Done, Stages,
         MAIN, BACKUP, FINALIZE
<1> QED BY <1>1, <1>2, <1>3, StoppedStep, PTL DEF ScriptSpec
=============================================================================
