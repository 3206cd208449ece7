---------------------------- MODULE ExecutorSteps ----------------------------
(***************************************************************************)
(* The three calls of executor.py by which a step of a manifest takes      *)
(* effect, each with its own environment: an ARM deployment (Deployment),  *)
(* kubectl behind Arc proxies, for several Sites at once (KubectlApply),   *)
(* and a wait (WaitCondition).  A behaviour is of one kind; they share     *)
(* nothing but the request to stop.                                        *)
(***************************************************************************)
EXTENDS KubectlApply

CONSTANTS
  SubmitAttempts, NotFoundGrace, ObservationGrace, Deadline,
  Timeout, MaxErrors

VARIABLES
  kind,    \* the kind of step, fixed
  deployPc, parameters, file, submission, put, strays, arm, armHistory, answer,
  deployClock, lastClean, visible, deployed,
  waitPc, tag, tagHistory, waitClock, errors, blind, waited

D == INSTANCE Deployment WITH
  MaxAttempts <- SubmitAttempts, pc <- deployPc, attempt <- submission,
  history <- armHistory, clock <- deployClock, result <- deployed

W == INSTANCE WaitCondition WITH
  pc <- waitPc, history <- tagHistory, clock <- waitClock, result <- waited

ASSUME StepsAssumption == D!DeploymentAssumption /\ W!WaitAssumption

deployVars == <<deployPc, parameters, file, submission, put, strays, arm, armHistory,
                answer, deployClock, lastClean, visible, deployed>>
kubectlVars == <<allocated, taken, perSite>>
waitVars == <<waitPc, tag, tagHistory, waitClock, errors, blind, waited>>
stepVars == <<kind, stop, deployVars, kubectlVars, waitVars>>

(* The calls that are not made are all alike.                              *)
StepInit ==
  /\ kind \in {"deployment", "kubectl", "wait"}
  /\ D!Init /\ Init /\ W!Init
  /\ kind = "deployment" \/ ~parameters
  /\ kind = "kubectl" \/ taken = {}
  /\ kind = "wait" \/ tag = "other"

Deploying(action) ==
  kind = "deployment" /\ action /\ UNCHANGED <<kind, kubectlVars, waitVars>>

Applying(action) ==
  kind = "kubectl" /\ action /\ UNCHANGED <<kind, deployVars, waitVars>>

Waiting(action) ==
  kind = "wait" /\ action /\ UNCHANGED <<kind, deployVars, kubectlVars>>

StepNext == Deploying(D!Next) \/ Applying(Next) \/ Waiting(W!Next)

StepSpec == StepInit /\ [][StepNext]_stepVars

(* Each call goes on by itself, every tool it starts being bounded by its  *)
(* timeout.  Nothing is assumed of Azure, a cluster or an operator.        *)
FairStepSpec ==
  /\ StepSpec
  /\ WF_stepVars(Deploying(D!Engine))
  /\ \A w \in Sites : WF_stepVars(Applying(Site(w)))
  /\ WF_stepVars(Waiting(W!Engine))

-----------------------------------------------------------------------------
(* A success is reported only of a deployment that reached it at ARM, and  *)
(* one reported as cancelled before it started can never appear there.     *)
ReportsAreTrue == D!ReportedSuccessHappened /\ D!CancelledNeverArrives

(* A wait ends as its resource was last seen to be, or when exactly so     *)
(* many polls in a row told nothing.                                       *)
VerdictWasSeen == W!VerdictWasSeen /\ W!BreakerCountsBlindPolls

(* What FleetRun assumes of a step's call is what each of the three does.  *)
CallSpec == D!CallSpec /\ CallSteps /\ W!CallSpec

(* Every call returns: within its own deadline, whatever Azure does; also  *)
(* when the slots run out; whatever happens to the tag.                    *)
StepsReturn ==
  /\ kind = "deployment" => D!DeploymentReturns
  /\ kind = "kubectl" => AllReturn
  /\ kind = "wait" => W!WaitReturns
=============================================================================
