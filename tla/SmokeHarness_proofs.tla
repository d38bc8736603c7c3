------------------------ MODULE SmokeHarness_proofs ------------------------
(***************************************************************************)
(* Theorems about SmokeHarness, for every set of simulators.               *)
(***************************************************************************)
EXTENDS SmokeHarness, TLAPS

USE ServicesAssumption

(* The harness knows nothing yet, and asserts nothing.                     *)
LEMMA InitIInv == Init => IInv
BY DEF Init, IInv, TypeOK, SimulatorsStopped, WritersBarred, LastWords, Unattended, StaysQuiet,
       PassIsClean, Quiet, Steps, Kinds, Cleaning, NoRows

-----------------------------------------------------------------------------
(* A backend that goes away keeps only the requests whose COMMIT is sent.  *)
LEMMA LostKept ==
    ASSUME TypeOK
    PROVE  /\ Lost \in [Services -> Kinds \cup {"none", "contact"}]
           /\ committing \subseteq {s \in Services : Lost[s] # "none"}
           /\ \A s \in Services : Lost[s] # "none" => s \in committing /\ request[s] # "none"
BY DEF TypeOK, Lost, Kinds

-----------------------------------------------------------------------------
(* What a simulator asks needs a backend that runs, and one runs only      *)
(* before the cleanup or after an error that the harness has recorded, or  *)
(* with the simulators stopped.                                            *)
LEMMA PostKept ==
    ASSUME IInv, NEW s \in Services, Post(s)
    PROVE  IInv'
<1> USE DEF Post, harness, database
<1>1. TypeOK'
  BY DEF IInv, TypeOK, Events, Kinds, Steps
<1>2. SimulatorsStopped' /\ WritersBarred' /\ LastWords' /\ Unattended'
  BY DEF IInv, SimulatorsStopped, WritersBarred, LastWords, Unattended
<1>3. StaysQuiet' /\ PassIsClean'
  BY DEF IInv, StaysQuiet, PassIsClean
<1> QED BY <1>1, <1>2, <1>3 DEF IInv

(* A COMMIT is sent by a backend that runs, so not during the cleanup, and *)
(* only for a request, of which a run that passes leaves none.             *)
LEMMA SendCommitKept ==
    ASSUME IInv, NEW s \in Services, SendCommit(s)
    PROVE  IInv'
<1> USE DEF SendCommit, harness, database
<1>1. TypeOK'
  BY DEF IInv, TypeOK, Kinds, Steps
<1>2. SimulatorsStopped' /\ WritersBarred' /\ LastWords'
  BY DEF IInv, SimulatorsStopped, WritersBarred, LastWords
<1>3. Unattended'
  BY DEF IInv, WritersBarred, Unattended
<1>4. StaysQuiet' /\ PassIsClean'
  BY DEF IInv, StaysQuiet, PassIsClean, Quiet
<1> QED BY <1>1, <1>2, <1>3, <1>4 DEF IInv

(* A handler that ends, with its row or without, leaves fewer of them; one *)
(* that is there to end contradicts a run that passes.                     *)
LEMMA EndKept ==
    ASSUME IInv, NEW s \in Services, RunCommit(s) \/ Abort(s)
    PROVE  IInv'
<1> USE DEF RunCommit, Abort, EndRequest, harness
<1>1. TypeOK'
  BY DEF IInv, TypeOK, Kinds, Steps
<1>2. SimulatorsStopped' /\ WritersBarred' /\ Unattended'
  BY DEF IInv, SimulatorsStopped, WritersBarred, Unattended
<1>3. LastWords'
  BY DEF IInv, TypeOK, LastWords
<1>4. StaysQuiet' /\ PassIsClean'
  BY DEF IInv, StaysQuiet, PassIsClean, Quiet
<1> QED BY <1>1, <1>2, <1>3, <1>4 DEF IInv

(* A backend that dies takes along what it has not sent.                   *)
LEMMA BackendDiesKept == ASSUME IInv, BackendDies PROVE IInv'
<1> USE DEF BackendDies, harness, database
<1>1. TypeOK'
  BY LostKept DEF IInv, TypeOK
<1>2. SimulatorsStopped' /\ WritersBarred' /\ LastWords' /\ Unattended'
  BY DEF IInv, SimulatorsStopped, WritersBarred, LastWords, Unattended
<1>3. StaysQuiet' /\ PassIsClean'
  BY LostKept DEF IInv, StaysQuiet, PassIsClean, Quiet, Clean
<1> QED BY <1>1, <1>2, <1>3 DEF IInv

-----------------------------------------------------------------------------
(* docker compose stop and kill.  What they confirm has happened: nothing  *)
(* that they were to stop runs.                                            *)
LEMMA StopServicesKept ==
    ASSUME TypeOK, LastWords, NEW services, NEW from \in Steps \ Cleaning,
           NEW stopped \in Steps, NEW otherwise \in Steps \ {stopped}, stopped # "giveUp",
           StopServices(services, from, stopped, otherwise)
    PROVE  /\ TypeOK' /\ LastWords'
           /\ pc = from /\ pc' \in {stopped, otherwise, "giveUp"}
           /\ running' \subseteq running
           /\ pc' = stopped => running' \cap services = {}
<1>1. PICK left \in SUBSET (running \cap services), ok \in BOOLEAN,
           listed \in SUBSET (running \cap services) :
          /\ ok => listed = left
          /\ running' = running \ (services \ left)
          /\ request' = IF Backend \in running' THEN request ELSE Lost
          /\ pc = from
          /\ pc' \in {IF Confirmed(left, ok, listed) THEN stopped ELSE otherwise, "giveUp"}
          /\ UNCHANGED <<failed, restartFailed, tagged, committing, database>>
  BY DEF StopServices, Goto
<1>2. pc' \in {stopped, otherwise, "giveUp"} /\ running' \subseteq running
  BY <1>1
<1>3. TypeOK'
  <2>1. request' \in [Services -> Kinds \cup {"none", "contact"}]
    BY <1>1, LostKept DEF TypeOK
  <2>2. committing' \subseteq {s \in Services : request'[s] # "none"}
    BY <1>1, LostKept DEF TypeOK
  <2> QED BY <1>1, <1>2, <2>1, <2>2 DEF TypeOK, Steps, database
<1>4. LastWords'
  BY <1>1, LostKept DEF LastWords
<1>5. pc' = stopped => running' \cap services = {}
  BY <1>1 DEF Confirmed
<1> QED BY <1>1, <1>2, <1>3, <1>4, <1>5

(* The simulators first, then the backend: after both nothing runs.        *)
LEMMA StopKept ==
    ASSUME IInv, StopSimulators \/ KillSimulators \/ StopBackend \/ KillBackend
    PROVE  IInv'
<1> TypeOK /\ LastWords
  BY DEF IInv
<1>1. ASSUME StopSimulators \/ KillSimulators
      PROVE  /\ TypeOK' /\ LastWords'
             /\ pc' \in {"stopBackend", "killSimulators", "giveUp"}
             /\ pc' = "stopBackend" => running' \cap Services = {}
  <2> "stopSimulators" \in Steps \ Cleaning /\ "killSimulators" \in Steps \ Cleaning
      /\ "stopBackend" \in Steps /\ "killSimulators" \in Steps \ {"stopBackend"}
      /\ "giveUp" \in Steps \ {"stopBackend"} /\ "stopBackend" # "giveUp"
    BY DEF Steps, Cleaning
  <2>1. CASE StopSimulators
    <3>1. StopServices(Services, "stopSimulators", "stopBackend", "killSimulators")
      BY <2>1 DEF StopSimulators
    <3> QED BY <3>1, StopServicesKept
  <2>2. CASE KillSimulators
    <3>1. StopServices(Services, "killSimulators", "stopBackend", "giveUp")
      BY <2>2 DEF KillSimulators
    <3> QED BY <3>1, StopServicesKept
  <2> QED BY <1>1, <2>1, <2>2
<1>2. ASSUME StopBackend \/ KillBackend
      PROVE  /\ TypeOK' /\ LastWords'
             /\ pc' \in {"deleteRefunds", "killBackend", "giveUp"}
             /\ running' \cap Services = {}
             /\ pc' = "deleteRefunds" => running' \cap {Backend} = {}
  <2> "stopBackend" \in Steps \ Cleaning /\ "killBackend" \in Steps \ Cleaning
      /\ "deleteRefunds" \in Steps /\ "killBackend" \in Steps \ {"deleteRefunds"}
      /\ "giveUp" \in Steps \ {"deleteRefunds"} /\ "deleteRefunds" # "giveUp"
    BY DEF Steps, Cleaning
  <2> DEFINE Stopped ==
        /\ TypeOK' /\ LastWords'
        /\ pc \in {"stopBackend", "killBackend"}
        /\ pc' \in {"deleteRefunds", "killBackend", "giveUp"}
        /\ running' \subseteq running
        /\ pc' = "deleteRefunds" => running' \cap {Backend} = {}
  <2>1. CASE StopBackend
    <3>1. StopServices({Backend}, "stopBackend", "deleteRefunds", "killBackend")
      BY <2>1 DEF StopBackend
    <3>2. Stopped
      BY <3>1, StopServicesKept
    <3> QED BY <3>2 DEF IInv, SimulatorsStopped
  <2>2. CASE KillBackend
    <3>1. StopServices({Backend}, "killBackend", "deleteRefunds", "giveUp")
      BY <2>2 DEF KillBackend
    <3>2. Stopped
      BY <3>1, StopServicesKept
    <3> QED BY <3>2 DEF IInv, SimulatorsStopped
  <2> QED BY <1>2, <2>1, <2>2
<1>3. SimulatorsStopped' /\ WritersBarred' /\ TypeOK' /\ LastWords'
  BY <1>1, <1>2 DEF SimulatorsStopped, WritersBarred, Cleaning, TypeOK
<1>4. Unattended' /\ StaysQuiet' /\ PassIsClean'
  BY <1>1, <1>2 DEF Unattended, StaysQuiet, PassIsClean
<1> QED BY <1>3, <1>4 DEF IInv

-----------------------------------------------------------------------------
(* The cleanup transaction.  It ends only when no handler holds a store,   *)
(* and nothing that could start another one runs.                          *)
LEMMA CleanupKept ==
    ASSUME IInv, DeleteRefunds \/ DeleteSales \/ SaleReferenced \/ CleanupFails \/ Restore
    PROVE  IInv'
<1>1. pc \in Cleaning /\ UNCHANGED <<running, tagged, traffic>>
  BY DEF DeleteRefunds, DeleteSales, SaleReferenced, CleanupFails, Restore, RollbackCleanup, Fail, Goto,
         Cleaning
<1>2. \/ pc' \in Cleaning
      \/ pc' = "verify" /\ committing' = {}
      \/ pc' = "startBackend" /\ failed'
  BY DEF DeleteRefunds, DeleteSales, SaleReferenced, CleanupFails, Restore, RollbackCleanup, Fail, Goto,
         Cleaning, traffic
<1>3. TypeOK'
  <2> USE DEF TypeOK, Fail, Goto, Cleaning, Steps, traffic
  <2>1. CASE DeleteRefunds
    BY <2>1 DEF IInv, DeleteRefunds
  <2>2. CASE DeleteSales
    BY <2>2 DEF IInv, DeleteSales
  <2>3. CASE SaleReferenced \/ CleanupFails
    BY <2>3 DEF IInv, SaleReferenced, CleanupFails, RollbackCleanup, NoRows
  <2>4. CASE Restore
    BY <2>4 DEF IInv, Restore, NoRows
  <2> QED BY <2>1, <2>2, <2>3, <2>4
<1>4. LastWords' /\ SimulatorsStopped' /\ WritersBarred'
  BY <1>1, <1>2 DEF IInv, LastWords, SimulatorsStopped, WritersBarred, Cleaning, traffic
<1>5. Unattended' /\ StaysQuiet' /\ PassIsClean'
  BY <1>2 DEF Unattended, StaysQuiet, PassIsClean, Cleaning
<1> QED BY <1>3, <1>4, <1>5 DEF IInv

(* The check of the cleanup.  Nothing runs, no handler is left and so no   *)
(* request, and the check finds the tables clean.                          *)
LEMMA VerifyKept ==
    ASSUME IInv, Verify \/ VerifyFails
    PROVE  IInv'
<1>1. pc = "verify" /\ pc' = "startBackend" /\ failed' \in BOOLEAN /\ (~ failed' => ~ failed)
      /\ UNCHANGED <<restartFailed, running, tagged, traffic, database>>
  BY DEF IInv, TypeOK, Verify, VerifyFails, Fail, Goto
<1>2. TypeOK'
  BY <1>1 DEF IInv, TypeOK, Steps, Cleaning, traffic, database
<1>3. running = {} /\ committing = {}
  BY <1>1 DEF IInv, WritersBarred, Unattended
<1>4. Quiet'
  BY <1>1, <1>3 DEF IInv, LastWords, Quiet, traffic
<1>5. LastWords' /\ SimulatorsStopped' /\ WritersBarred' /\ Unattended'
  BY <1>1, <1>3 DEF IInv, LastWords, SimulatorsStopped, WritersBarred, Unattended, Cleaning, traffic
<1>6. StaysQuiet' /\ PassIsClean'
  BY <1>1, <1>3, <1>4 DEF StaysQuiet, PassIsClean
<1> QED BY <1>2, <1>5, <1>6 DEF IInv

(* The restart of the backend and the last check.  Without an error the    *)
(* backend runs alone, and has nothing to serve.                           *)
LEMMA RestartKept ==
    ASSUME IInv, StartBackend \/ StartFails \/ Recheck \/ RecheckFails
    PROVE  IInv'
<1> USE DEF StartBackend, StartFails, Recheck, RecheckFails, Fail, Goto
<1>1. TypeOK'
  BY DEF IInv, TypeOK, Steps, Cleaning, traffic, database
<1>2. LastWords'
  BY DEF IInv, LastWords, traffic
<1>3. SimulatorsStopped' /\ WritersBarred' /\ Unattended'
  BY DEF SimulatorsStopped, WritersBarred, Unattended, Cleaning
<1>4. StaysQuiet'
  BY DEF IInv, TypeOK, StaysQuiet, Quiet, traffic
<1>5. PassIsClean'
  BY DEF IInv, TypeOK, StaysQuiet, PassIsClean, Quiet, Clean, traffic, database
<1> QED BY <1>1, <1>2, <1>3, <1>4, <1>5 DEF IInv

(* The steps before the cleanup, and the end without one.                  *)
LEMMA BeforeKept ==
    ASSUME IInv, Up \/ UpFails \/ Observe \/ ObserveFails \/ GiveUp
    PROVE  IInv'
<1> USE DEF Up, UpFails, Observe, ObserveFails, GiveUp, Fail, Goto
<1>1. pc' \in {"observe", "stopSimulators"} \/ (pc' = "done" /\ failed')
  OBVIOUS
<1>2. TypeOK'
  BY DEF IInv, TypeOK, Steps, Cleaning, traffic, database
<1>3. LastWords'
  BY DEF IInv, LastWords, traffic
<1>4. SimulatorsStopped' /\ WritersBarred' /\ Unattended'
  BY <1>1 DEF SimulatorsStopped, WritersBarred, Unattended, Cleaning
<1>5. StaysQuiet' /\ PassIsClean'
  BY <1>1 DEF StaysQuiet, PassIsClean
<1> QED BY <1>2, <1>3, <1>4, <1>5 DEF IInv

-----------------------------------------------------------------------------
(* What the harness knows is so in every state: of the containers, of the  *)
(* requests, and of the COMMITs that a stopped backend has sent.           *)
THEOREM HarnessInvariant == Spec => []IInv
<1>1. Init => IInv
  BY InitIInv
<1>2. IInv /\ [Next]_vars => IInv'
  <2> SUFFICES ASSUME IInv, [Next]_vars PROVE IInv'
    OBVIOUS
  <2>1. CASE Progress
    BY <2>1, StopKept, CleanupKept, VerifyKept, RestartKept, BeforeKept DEF Progress
  <2>2. CASE UpFails \/ CleanupFails
    BY <2>2, BeforeKept, CleanupKept
  <2>3. ASSUME NEW s \in Services, Post(s) \/ SendCommit(s) \/ RunCommit(s) \/ Abort(s)
        PROVE  IInv'
    BY <2>3, PostKept, SendCommitKept, EndKept
  <2>4. CASE BackendDies
    BY <2>4, BackendDiesKept
  <2>5. CASE UNCHANGED vars
    BY <2>5 DEF vars, harness, traffic, database, IInv, TypeOK, SimulatorsStopped, WritersBarred,
                LastWords, Unattended, StaysQuiet, PassIsClean, Quiet, Clean
  <2> QED BY <2>1, <2>2, <2>3, <2>4, <2>5 DEF Next
<1> QED BY <1>1, <1>2, PTL DEF Spec

(* Every variable has its type, and rows are doomed only by a transaction  *)
(* that is open.                                                           *)
THEOREM HarnessTypes == Spec => []TypeOK
<1>1. IInv => TypeOK
  BY DEF IInv
<1> QED BY <1>1, HarnessInvariant, PTL

(* The cleanup never races a writer, whatever compose stop, kill and ps    *)
(* answer: stop_simulators and stop_backend are confirmed, or the harness  *)
(* gives up.                                                               *)
THEOREM CleanupIsUndisturbed == Spec => []WritersBarred
<1>1. IInv => WritersBarred
  BY DEF IInv
<1> QED BY <1>1, HarnessInvariant, PTL

(* A run that passes has removed all it made, and nothing that could still *)
(* write is left, not even a COMMIT sent before the backend was stopped.   *)
THEOREM PassingRunsAreClean == Spec => []PassIsClean
<1>1. IInv => PassIsClean
  BY DEF IInv
<1> QED BY <1>1, HarnessInvariant, PTL
=============================================================================
