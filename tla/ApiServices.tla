----------------------------- MODULE ApiServices -----------------------------
(***************************************************************************)
(* The services of the API beside the recovery workflow and the payment    *)
(* webhooks: the detection of risks, customers' responses, the model       *)
(* registry, merchant profiles, and portfolio and budget runs.  Their      *)
(* transactions meet on no row, so that requests to different services     *)
(* cannot interfere: all the requests of a behaviour go to one service,    *)
(* which service names.  (What detection creates and responses change, the *)
(* case, is the subject of RecoveryWorkflow.)                              *)
(***************************************************************************)
EXTENDS Detection, CustomerResponses, ModelRegistry, MerchantProfiles, PortfolioBudget

VARIABLE service

servicesVars == <<service, detectionVars, responseVars, registryVars, profileVars, budgetVars>>

ServicesInit ==
    /\ service \in {"detection", "responses", "models", "profiles", "portfolio"}
    /\ DetectionInit /\ ResponsesInit /\ RegistryInit /\ ProfilesInit /\ BudgetInit

Detect ==
    /\ service = "detection" /\ DetectionNext
    /\ UNCHANGED <<service, responseVars, registryVars, profileVars, budgetVars>>

Respond ==
    /\ service = "responses" /\ ResponsesNext
    /\ UNCHANGED <<service, detectionVars, registryVars, profileVars, budgetVars>>

GovernModels ==
    /\ service = "models" /\ RegistryNext
    /\ UNCHANGED <<service, detectionVars, responseVars, profileVars, budgetVars>>

ConfigureMerchants ==
    /\ service = "profiles" /\ ProfilesNext
    /\ UNCHANGED <<service, detectionVars, responseVars, registryVars, budgetVars>>

PlanPortfolio ==
    /\ service = "portfolio" /\ BudgetNext
    /\ UNCHANGED <<service, detectionVars, responseVars, registryVars, profileVars>>

ServicesNext == Detect \/ Respond \/ GovernModels \/ ConfigureMerchants \/ PlanPortfolio

ServicesSpec == ServicesInit /\ [][ServicesNext]_servicesVars
=============================================================================
