----------------------------- MODULE MCPlatform -----------------------------
(***************************************************************************)
(* Accounts, workspaces, privacy, compliance, operations, analytics and    *)
(* publishing connections share no state that their properties are about,  *)
(* so each behaviour is about one of them.                                 *)
(***************************************************************************)
EXTENDS Identity, Workspaces, Privacy, Compliance, Operations, Analytics, Connections
VARIABLE focus
identityVars == <<iVars, mVars>>
complianceVars == <<pvVars, cmVars, opVars>>
channelVars == <<anVars, cnVars, nvVars>>
vars == <<focus, identityVars, complianceVars, channelVars>>

Accounts == {"account", "session", "mfa", "reset"}
Init ==
  /\ focus \in {"account", "session", "mfa", "reset", "workspace", "privacy", "retention",
                "copyright", "consent", "incident", "backup", "recovery", "ga",
                "sync", "report", "evidence", "connection", "naver"}
  /\ IInit /\ MInit /\ PvInit /\ CmInit /\ AnInit /\ CnInit
  /\ OpInit(IF focus = "recovery" THEN OpEnd("backup", "late") ELSE NoOperation)
  /\ (focus \notin Accounts => iUser = NewUser /\ iRequired)
  /\ (focus \in Accounts \ {"account"} => iUser = SignedUp)
  /\ (focus # "privacy" => pvKind = "CORRECT")
  /\ (focus # "incident" => inKind = "security")
  /\ (focus # "evidence" => evKind = "batch")

StepAccount(A) == A /\ UNCHANGED <<focus, iRequired, mVars, complianceVars, channelVars>>
StepPrivacy(A) == A /\ UNCHANGED <<focus, identityVars, cmVars, opVars, channelVars>>
StepCompliance(A) == A /\ UNCHANGED <<focus, identityVars, pvVars, opVars, channelVars>>
StepOperations(A) == A /\ UNCHANGED <<focus, identityVars, pvVars, cmVars, channelVars>>
StepAnalytics(A) == A /\ UNCHANGED <<focus, identityVars, complianceVars, cnVars, nvVars>>
StepConnections(A) == A /\ UNCHANGED <<focus, identityVars, complianceVars, anVars>>

Next ==
  \/ focus = "account" /\ StepAccount(EmailRequest \/ LoginRequest \/ LockRequest
                                       \/ RequestAccountDeletion)
  \/ focus = "session" /\ StepAccount(LoginRequest \/ SessionRequest \/ RequestAccountDeletion)
  \/ focus = "mfa" /\ StepAccount(LoginRequest \/ ChallengeRequest \/ EnrollRequest \/ FactorRequest)
  \/ focus = "reset" /\ StepAccount(LoginRequest \/ PasswordRequest \/ ChallengeRequest \/ EnrollRequest)
  \/ focus = "workspace" /\ MNext /\ UNCHANGED <<focus, iVars, complianceVars, channelVars>>
  \/ focus \in {"privacy", "retention"} /\ StepPrivacy(LegalHoldRequest \/ PvDelivery)
  \/ focus = "privacy" /\ StepPrivacy(DataRightsRequest \/ RunPrivacy)
  \/ focus = "retention" /\ StepPrivacy(RetentionRequest \/ RunRetention)
  \/ focus = "copyright" /\ StepCompliance(CopyrightNext)
  \/ focus = "consent" /\ StepCompliance(ConsentNext)
  \/ focus = "incident" /\ StepCompliance(IncidentNext)
  \/ focus \in {"backup", "recovery", "ga"} /\ StepOperations(OpRequest \/ OpRetryRequest)
  \/ focus = "backup" /\ StepOperations(BackupNext)
  \/ focus = "recovery" /\ StepOperations(RecoveryNext)
  \/ focus = "ga" /\ StepOperations(GaNext)
  \/ focus = "sync" /\ StepAnalytics(SyncNext)
  \/ focus = "report" /\ StepAnalytics(ReportNext)
  \/ focus = "evidence" /\ StepAnalytics(EvidenceNext)
  \/ focus = "connection" /\ StepConnections(ConnectionNext)
  \/ focus = "naver" /\ StepConnections(NaverNext)

Spec == Init /\ [][Next]_vars
=============================================================================
