---------------------------- MODULE ReleasePolicy ----------------------------
(***************************************************************************)
(* Which investor action may run at which release stage                    *)
(*   apps/web/src/lib/sec203a/release-policy.ts                            *)
(*   apps/web/src/lib/sec203a/actions.ts                                   *)
(* An action is allowed at a stage because a list names it, never because  *)
(* nothing forbids it.                                                     *)
(***************************************************************************)

Stages == {"signal", "automated_alpha", "managed_paper"}

InvestorActions ==
  {"activateExecutionPolicy", "updateExecutionPolicy",
   "saveExecutionPolicyDraft", "pauseManaged", "resumeManaged",
   "updateAccountPrefs", "refreshProfile", "acknowledgeDisclosure",
   "connectBroker", "disconnectBroker", "resolveException", "dismissSignal",
   "saveSignal", "selectMode", "submitSupportRequest", "saveProfileDraft",
   "startKycVerification", "submitKycEvaluation", "completeKycStepUp",
   "reconcileKycEvaluation", "advanceMockKycVerification",
   "submitComplianceAttestation", "syncBrokerConnection",
   "rotateBrokerCredentials", "previewAllocation", "joinTemplate",
   "updateAllocation", "leaveTemplate"}

SignalAllowed ==
  {"updateAccountPrefs", "refreshProfile", "acknowledgeDisclosure",
   "connectBroker", "disconnectBroker", "resolveException", "dismissSignal",
   "saveSignal", "submitSupportRequest", "saveProfileDraft",
   "startKycVerification", "submitKycEvaluation", "completeKycStepUp",
   "reconcileKycEvaluation", "advanceMockKycVerification"}

AlphaOnly ==
  {"submitComplianceAttestation", "syncBrokerConnection",
   "rotateBrokerCredentials", "previewAllocation", "joinTemplate",
   "updateAllocation", "leaveTemplate"}

(* Written out in the code, so that nothing joins it by being added to     *)
(* another list.                                                           *)
AlphaAllowed ==
  {"updateAccountPrefs", "refreshProfile", "acknowledgeDisclosure",
   "connectBroker", "disconnectBroker", "resolveException", "dismissSignal",
   "saveSignal", "submitSupportRequest", "saveProfileDraft",
   "startKycVerification", "submitKycEvaluation", "completeKycStepUp",
   "reconcileKycEvaluation", "submitComplianceAttestation",
   "syncBrokerConnection", "rotateBrokerCredentials", "previewAllocation",
   "joinTemplate", "updateAllocation", "leaveTemplate"}

ManagedGated ==
  {"activateExecutionPolicy", "updateExecutionPolicy",
   "saveExecutionPolicyDraft", "pauseManaged", "resumeManaged", "selectMode"}

(* isInvestorActionPermitted *)
Permitted(action, stage) ==
  CASE stage = "signal" -> action \in SignalAllowed
    [] stage = "automated_alpha" -> action \in AlphaAllowed
    [] OTHER -> TRUE

(* The compile-time proofs beside the lists: every action is in exactly    *)
(* one of three lists, and the alpha stage runs nothing that is gated and  *)
(* everything that is its own.                                             *)
ASSUME Classified ==
  /\ InvestorActions = SignalAllowed \union AlphaOnly \union ManagedGated
  /\ SignalAllowed \intersect AlphaOnly = {}
  /\ SignalAllowed \intersect ManagedGated = {}
  /\ AlphaOnly \intersect ManagedGated = {}
  /\ AlphaAllowed \intersect ManagedGated = {}
  /\ AlphaOnly \subseteq AlphaAllowed
=============================================================================
