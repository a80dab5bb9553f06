------------------------------ MODULE Identity ------------------------------
(***************************************************************************)
(* One account: its password, one-time tokens, login sessions, refresh     *)
(* tokens and second factors (domain/identity, IdentityService).  A        *)
(* request is one transaction; where a handler reads a row it does not     *)
(* lock and writes later, the read and the write are two actions.  A       *)
(* refusal rolls back, except where the handler commits it first.          *)
(***************************************************************************)
EXTENDS Integers, FiniteSets

CONSTANTS
  IMaxSessions,         \* bound: LoginSession rows
  IMaxGeneration,       \* bound: generation of a refresh token
  IMaxFailures,         \* max_login_failures of the policy
  IMaxVerifications,    \* EMAIL_SECURITY_REQUEST_LIMIT_PER_HOUR, verification mails
  IMaxResets,           \* EMAIL_SECURITY_REQUEST_LIMIT_PER_HOUR, reset mails
  IMaxFactors,          \* bound: MFAFactor rows
  IMaxStep              \* bound: time steps of the authenticator

\* A policy allows at least one failure (max_login_failures).
ASSUME INumbers == /\ IMaxGeneration \in Nat /\ IMaxStep \in Nat
                   /\ IMaxFailures \in Nat \ {0}

VARIABLES
  iUser,                \* User: status, email_verified_at, mfa_enabled
  iRequired,            \* whether the policy asks the user's role for MFA
  iCredential,          \* UserCredential: failed_attempts, locked_until, passwords set so far
  iTokens,              \* OneTimeToken by purpose and number
  iSessions,            \* LoginSession rows
  iRefresh,             \* SessionRefreshToken by session and generation
  iLogin,               \* the login that holds the credential row
  iChallenge,           \* AuthenticationChallenge: password it was issued for, or state
  iFactors,             \* MFAFactor with its recovery code
  iWrong,               \* history: wrong passwords checked since the last unlock
  iReplayed,            \* history: sessions whose consumed refresh token was seen again
  iCutoff,              \* history: password of the last reset that revoked sessions
  iAccepted             \* history: times a second factor code was accepted

sessionVars == <<iSessions, iRefresh, iReplayed>>
mfaVars == <<iFactors, iAccepted>>
loginVars == <<iCredential, iLogin, iWrong>>
iVars == <<iRequired, iUser, iTokens, loginVars, sessionVars, iChallenge, mfaVars, iCutoff>>

ISessionIds == 1..IMaxSessions
IGenerations == 0..IMaxGeneration
ITokenIds == ({"ev"} \X (1..IMaxVerifications)) \cup ({"pr"} \X (1..IMaxResets))
IFactorIds == 1..IMaxFactors
\* A code is a time step of the authenticator or the recovery code.
RecoveryCode == 0
ICodes == {RecoveryCode} \cup 1..IMaxStep

NoLogin == [kind |-> "none", pw |-> 0]
NoSession == [status |-> "NONE", mfa |-> FALSE, pw |-> 0, late |-> FALSE]
NoFactor == [status |-> "NONE", step |-> 0, recovery |-> TRUE, drops |-> {}]

NewUser == [status |-> "NONE", verified |-> FALSE, mfa |-> FALSE]
SignedUp == [NewUser EXCEPT !.status = "ACTIVE", !.verified = TRUE]

IInit ==
  /\ iUser \in {NewUser, SignedUp}
  /\ iRequired \in BOOLEAN
  /\ iCredential = [failed |-> 0, locked |-> FALSE, pw |-> 0]
  /\ iTokens = [t \in ITokenIds |-> "NONE"]
  /\ iSessions = [s \in ISessionIds |-> NoSession]
  /\ iRefresh = [s \in ISessionIds |-> [g \in IGenerations |-> "NONE"]]
  /\ iLogin = NoLogin
  /\ iChallenge = [state |-> "NONE", pw |-> 0]
  /\ iFactors = [f \in IFactorIds |-> NoFactor]
  /\ iWrong = 0
  /\ iReplayed = {}
  /\ iCutoff = 0
  /\ iAccepted = [f \in IFactorIds |-> [c \in ICodes |-> 0]]

\* resolve_principal: the session and the account behind an access token.
IsPrincipal(s) ==
  iSessions[s].status = "ACTIVE" /\ ~iSessions[s].late /\ iUser.status = "ACTIVE"
ActingSession == {s \in ISessionIds : IsPrincipal(s)}
\* An authenticated request under a policy that asks the role for a second factor.
ActingSecurely == {s \in ActingSession : iRequired => iSessions[s].mfa}

-----------------------------------------------------------------------------
(* One-time tokens.  A token row is seen by others once its transaction    *)
(* committed ("LIVE"); the rows it supersedes are locked until then.       *)

Supersede(tokens, purpose) ==
  [t \in ITokenIds |-> IF t[1] = purpose /\ tokens[t] = "LIVE" THEN "SUPERSEDED" ELSE tokens[t]]
Issued(purpose) ==
  {t \in ITokenIds : t[1] = purpose /\ iTokens[t] \notin {"NONE", "INSERTING"}}
Free(t) == iTokens[t] = "NONE" /\ \A n \in 1..(t[2] - 1) : iTokens[<<t[1], n>>] # "NONE"

Signup ==
  /\ iUser.status = "NONE"
  /\ iUser' = [iUser EXCEPT !.status = "PENDING_EMAIL"]
  /\ iTokens' = [iTokens EXCEPT ![<<"ev", 1>>] = "LIVE"]
  /\ UNCHANGED <<loginVars, sessionVars, iChallenge, mfaVars, iCutoff>>

ResendEmailVerification(t) ==
  /\ t[1] = "ev" /\ Free(t)
  /\ iUser.status # "NONE" /\ ~iUser.verified
  /\ Cardinality(Issued("ev")) < IMaxVerifications
  /\ iTokens' = [Supersede(iTokens, "ev") EXCEPT ![t] = "INSERTING"]
  /\ UNCHANGED <<iUser, loginVars, sessionVars, iChallenge, mfaVars, iCutoff>>

RequestPasswordReset(t) ==
  /\ t[1] = "pr" /\ Free(t)
  /\ iUser.status = "ACTIVE"
  /\ Cardinality(Issued("pr")) < IMaxResets
  /\ iTokens' = [Supersede(iTokens, "pr") EXCEPT ![t] = "INSERTING"]
  /\ UNCHANGED <<iUser, loginVars, sessionVars, iChallenge, mfaVars, iCutoff>>

TokenCommitted(t) ==
  /\ iTokens[t] = "INSERTING"
  /\ iTokens' = [iTokens EXCEPT ![t] = "LIVE"]
  /\ UNCHANGED <<iUser, loginVars, sessionVars, iChallenge, mfaVars, iCutoff>>

UserVerified(user) ==
  IF user.verified THEN user ELSE [user EXCEPT !.verified = TRUE, !.status = "ACTIVE"]

VerifyEmail(t) ==
  /\ t[1] = "ev" /\ iTokens[t] = "LIVE"
  /\ iTokens' = [iTokens EXCEPT ![t] = "CONSUMED"]
  /\ iUser' = UserVerified(iUser)
  /\ UNCHANGED <<loginVars, sessionVars, iChallenge, mfaVars, iCutoff>>

RevokeAllSessions(except) ==
  [s \in ISessionIds |->
     IF iSessions[s].status = "ACTIVE" /\ s \notin except
       THEN [iSessions[s] EXCEPT !.status = "REVOKED"] ELSE iSessions[s]]

\* The credential row is locked, so no login is in progress.
ResetPassword(t, revokeAll) ==
  /\ t[1] = "pr" /\ iTokens[t] = "LIVE" /\ iLogin = NoLogin
  /\ iTokens' = [iTokens EXCEPT ![t] = "CONSUMED"]
  /\ iCredential' = [failed |-> 0, locked |-> FALSE, pw |-> iCredential.pw + 1]
  /\ iWrong' = 0
  /\ iSessions' = IF revokeAll THEN RevokeAllSessions({}) ELSE iSessions
  /\ iCutoff' = IF revokeAll THEN iCredential.pw + 1 ELSE iCutoff
  /\ UNCHANGED <<iUser, iLogin, iRefresh, iReplayed, iChallenge, mfaVars>>

-----------------------------------------------------------------------------
(* Login: the credential row is locked from the first read to the commit.  *)

FailureRecorded(credential) ==
  LET failed == IF credential.failed < IMaxFailures THEN credential.failed + 1 ELSE IMaxFailures
  IN  [credential EXCEPT !.failed = failed, !.locked = failed >= IMaxFailures]

LoginWrongPassword ==
  /\ iUser.status # "NONE" /\ iLogin = NoLogin /\ ~iCredential.locked
  /\ iWrong <= IMaxFailures
  /\ iWrong' = iWrong + 1
  /\ iCredential' = FailureRecorded(iCredential)
  /\ UNCHANGED <<iUser, iTokens, iLogin, sessionVars, iChallenge, mfaVars, iCutoff>>

\* The password is right; the account and its factors are read without a lock.
LoginStart ==
  /\ iUser.status = "ACTIVE" /\ iLogin = NoLogin /\ ~iCredential.locked
  /\ iUser.mfa => \E f \in IFactorIds : iFactors[f].status = "ACTIVE"
  /\ iLogin' = [kind |-> IF iUser.mfa THEN "challenge" ELSE "session", pw |-> iCredential.pw]
  /\ UNCHANGED <<iUser, iTokens, iCredential, iWrong, sessionVars, iChallenge, mfaVars, iCutoff>>

Create_session(s, mfa, pw) ==
  /\ iSessions[s] = NoSession /\ \A r \in 1..(s - 1) : iSessions[r] # NoSession
  /\ iSessions' = [iSessions EXCEPT ![s] = [status |-> "ACTIVE", mfa |-> mfa, pw |-> pw,
                                            late |-> FALSE]]
  /\ iRefresh' = [iRefresh EXCEPT ![s][0] = "LIVE"]
  /\ UNCHANGED iReplayed

LoginCommit ==
  /\ iLogin # NoLogin
  /\ iLogin' = NoLogin
  /\ iCredential' = [iCredential EXCEPT !.failed = 0, !.locked = FALSE]
  /\ iWrong' = 0
  /\ \/ /\ iLogin.kind = "session"
        /\ \E s \in ISessionIds : Create_session(s, FALSE, iLogin.pw)
        /\ UNCHANGED iChallenge
     \/ /\ iLogin.kind = "challenge"
        /\ iChallenge' = [state |-> "LIVE", pw |-> iLogin.pw]
        /\ UNCHANGED sessionVars
  /\ UNCHANGED <<iUser, iTokens, mfaVars, iCutoff>>

\* locked_until passes; failed_attempts stays where it was.
LockExpires ==
  /\ iCredential.locked /\ iLogin = NoLogin
  /\ iCredential' = [iCredential EXCEPT !.locked = FALSE]
  /\ iWrong' = 0
  /\ UNCHANGED <<iUser, iTokens, iLogin, sessionVars, iChallenge, mfaVars, iCutoff>>

-----------------------------------------------------------------------------
(* Refresh tokens: the token row and the session row are locked.           *)

\* Deviation: the refusal rolls the end of the session back.
ReplayRolledBack(s) == iSessions

ReplayEnds(s) == [iSessions EXCEPT ![s].status = "COMPROMISED"]

\* The workspace is selected first: a request without one ends there and changes
\* nothing, so a replay is only seen with a workspace (WORKSPACE_ACCESS_DENIED).
RefreshReplayed(s, g) ==
  /\ iRefresh[s][g] = "CONSUMED"
  /\ iSessions' = ReplayEnds(s)
  /\ iReplayed' = iReplayed \cup {s}
  /\ UNCHANGED <<iUser, iTokens, loginVars, iRefresh, iChallenge, mfaVars, iCutoff>>

RefreshExpired(s, g) ==
  /\ iRefresh[s][g] = "LIVE" /\ iSessions[s].status = "ACTIVE" /\ iSessions[s].late
  /\ iSessions' = [iSessions EXCEPT ![s].status = "EXPIRED"]
  /\ UNCHANGED <<iUser, iTokens, loginVars, iRefresh, iReplayed, iChallenge, mfaVars, iCutoff>>

Rotated(s, g) == [iRefresh EXCEPT ![s][g] = "CONSUMED", ![s][g + 1] = "LIVE"]

Refresh(s, g) ==
  /\ g < IMaxGeneration
  /\ iRefresh[s][g] = "LIVE" /\ IsPrincipal(s)
  /\ iRefresh' = Rotated(s, g)
  /\ UNCHANGED <<iUser, iTokens, loginVars, iSessions, iReplayed, iChallenge, mfaVars, iCutoff>>

SessionExpires(s) ==
  /\ iSessions[s].status = "ACTIVE" /\ ~iSessions[s].late
  /\ iSessions' = [iSessions EXCEPT ![s].late = TRUE]
  /\ UNCHANGED <<iUser, iTokens, loginVars, iRefresh, iReplayed, iChallenge, mfaVars, iCutoff>>

\* Revoking a session writes REVOKED over whatever it was; log out revokes one's own.
RevokeSession(s) ==
  /\ ActingSecurely # {} /\ iSessions[s] # NoSession
  /\ iSessions' = [iSessions EXCEPT ![s].status = "REVOKED"]
  /\ UNCHANGED <<iUser, iTokens, loginVars, iRefresh, iReplayed, iChallenge, mfaVars, iCutoff>>

RevokeAll(keepCurrent) ==
  /\ \E me \in ActingSecurely :
       iSessions' = RevokeAllSessions(IF keepCurrent THEN {me} ELSE {})
  /\ UNCHANGED <<iUser, iTokens, loginVars, iRefresh, iReplayed, iChallenge, mfaVars, iCutoff>>

\* The owner check of the handler is in Workspaces.
RequestAccountDeletion ==
  /\ ActingSecurely # {}
  /\ iUser' = [iUser EXCEPT !.status = "DELETION_PENDING"]
  /\ iSessions' = RevokeAllSessions({})
  /\ UNCHANGED <<iTokens, loginVars, iRefresh, iReplayed, iChallenge, mfaVars, iCutoff>>

-----------------------------------------------------------------------------
(* Second factors.  The rows an enrollment writes are seen by others once  *)
(* it committed, so two of them can overlap.                               *)

\* A factor another confirmation is about to disable is locked by it.
Unlocked(f) == \A g \in IFactorIds : f \notin iFactors[g].drops

BeginMfaEnrollment(f) ==
  /\ ActingSession # {}
  /\ iFactors[f] = NoFactor /\ \A g \in 1..(f - 1) : iFactors[g] # NoFactor
  /\ iFactors' = [g \in IFactorIds |->
       IF g = f THEN [NoFactor EXCEPT !.status = "INSERTING"]
       ELSE IF iFactors[g].status = "PENDING" THEN [iFactors[g] EXCEPT !.status = "DISABLED"]
       ELSE iFactors[g]]
  /\ UNCHANGED <<iUser, iTokens, loginVars, sessionVars, iChallenge, iCutoff, iAccepted>>

EnrollmentCommitted(f) ==
  /\ iFactors[f].status = "INSERTING"
  /\ iFactors' = [iFactors EXCEPT ![f].status = "PENDING"]
  /\ UNCHANGED <<iUser, iTokens, loginVars, sessionVars, iChallenge, iCutoff, iAccepted>>

ConfirmMfaEnrollment(f, step) ==
  /\ ActingSession # {} /\ iFactors[f].status = "PENDING"
  /\ \A g \in IFactorIds : iFactors[g].status = "ACTIVE" => Unlocked(g)
  /\ iFactors' = [iFactors EXCEPT ![f].status = "CONFIRMING", ![f].step = step,
                    ![f].drops = {g \in IFactorIds : iFactors[g].status = "ACTIVE"}]
  /\ UNCHANGED <<iUser, iTokens, loginVars, sessionVars, iChallenge, iCutoff, iAccepted>>

ConfirmationCommitted(f) ==
  /\ iFactors[f].status = "CONFIRMING"
  /\ iFactors' = [g \in IFactorIds |->
       IF g = f THEN [iFactors[f] EXCEPT !.status = "ACTIVE", !.drops = {}]
       ELSE IF g \in iFactors[f].drops THEN [iFactors[g] EXCEPT !.status = "DISABLED"]
       ELSE iFactors[g]]
  /\ iUser' = [iUser EXCEPT !.mfa = TRUE]
  /\ iAccepted' = [iAccepted EXCEPT ![f][iFactors[f].step] = @ + 1]
  /\ UNCHANGED <<iTokens, loginVars, sessionVars, iChallenge, iCutoff>>

FactorAfter(f, code) ==
  IF code = RecoveryCode THEN [iFactors[f] EXCEPT !.recovery = FALSE]
  ELSE [iFactors[f] EXCEPT !.step = code]

\* The ACTIVE factor row is locked while its code is checked.
SecondFactorVerifies(f, code) ==
  /\ iFactors[f].status = "ACTIVE" /\ Unlocked(f)
  /\ IF code = RecoveryCode THEN iFactors[f].recovery ELSE code > iFactors[f].step
  /\ iAccepted' = [iAccepted EXCEPT ![f][code] = IF @ = 2 THEN 2 ELSE @ + 1]

VerifyMfaLogin(f, code) ==
  /\ iChallenge.state = "LIVE" /\ iUser.status = "ACTIVE"
  /\ SecondFactorVerifies(f, code)
  /\ iFactors' = [iFactors EXCEPT ![f] = FactorAfter(f, code)]
  /\ iChallenge' = [iChallenge EXCEPT !.state = "CONSUMED"]
  /\ \E s \in ISessionIds : Create_session(s, TRUE, iChallenge.pw)
  /\ UNCHANGED <<iUser, iTokens, loginVars, iCutoff>>

ChallengeExpires ==
  /\ iChallenge.state = "LIVE"
  /\ iChallenge' = [iChallenge EXCEPT !.state = "EXPIRED"]
  /\ UNCHANGED <<iUser, iTokens, loginVars, sessionVars, mfaVars, iCutoff>>

ReauthenticateMfa(s, f, code) ==
  /\ IsPrincipal(s) /\ SecondFactorVerifies(f, code)
  /\ iFactors' = [iFactors EXCEPT ![f] = FactorAfter(f, code)]
  /\ iSessions' = [iSessions EXCEPT ![s].mfa = TRUE]
  /\ UNCHANGED <<iUser, iTokens, loginVars, iRefresh, iReplayed, iChallenge, iCutoff>>

MfaOff(user) == [user EXCEPT !.mfa = FALSE]

DisableMfa(f, code) ==
  /\ ActingSecurely # {} /\ ~iRequired
  /\ SecondFactorVerifies(f, code)
  /\ iFactors' = [iFactors EXCEPT ![f] = [FactorAfter(f, code) EXCEPT !.status = "DISABLED"]]
  /\ iUser' = MfaOff(iUser)
  /\ UNCHANGED <<iTokens, loginVars, sessionVars, iChallenge, iCutoff>>

-----------------------------------------------------------------------------
(* The requests of the identity router.                                    *)

EmailRequest ==
  \/ Signup
  \/ \E t \in ITokenIds : ResendEmailVerification(t) \/ TokenCommitted(t) \/ VerifyEmail(t)

PasswordRequest ==
  \E t \in ITokenIds :
    \/ RequestPasswordReset(t) \/ TokenCommitted(t)
    \/ \E all \in BOOLEAN : ResetPassword(t, all)

LoginRequest == LoginStart \/ LoginCommit
LockRequest == LoginWrongPassword \/ LockExpires

SessionRequest ==
  \/ \E s \in ISessionIds :
       \/ \E g \in IGenerations : RefreshReplayed(s, g) \/ RefreshExpired(s, g) \/ Refresh(s, g)
       \/ RevokeSession(s) \/ SessionExpires(s)
  \/ \E keep \in BOOLEAN : RevokeAll(keep)

ChallengeRequest ==
  \/ \E f \in IFactorIds : \E code \in ICodes : VerifyMfaLogin(f, code)
  \/ ChallengeExpires

EnrollRequest ==
  \E f \in IFactorIds :
    \/ BeginMfaEnrollment(f) \/ EnrollmentCommitted(f) \/ ConfirmationCommitted(f)
    \/ \E step \in 1..IMaxStep : ConfirmMfaEnrollment(f, step)

FactorRequest ==
  \E f \in IFactorIds : \E code \in ICodes :
    DisableMfa(f, code) \/ \E s \in ISessionIds : ReauthenticateMfa(s, f, code)

\* The policy stays what it is while the account is looked at.
INext ==
  /\ \/ EmailRequest \/ PasswordRequest \/ LoginRequest \/ LockRequest
     \/ SessionRequest \/ RequestAccountDeletion
     \/ ChallengeRequest \/ EnrollRequest \/ FactorRequest
  /\ UNCHANGED iRequired

ISpec == IInit /\ [][INext]_iVars

-----------------------------------------------------------------------------
(* Properties.                                                             *)

\* refresh: a session has one valid refresh token at a time, and a session
\* whose consumed token was presented again is over although that request
\* was refused.
RefreshFamily ==
  \A s \in ISessionIds :
    /\ Cardinality({g \in IGenerations : iRefresh[s][g] = "LIVE"}) <= 1
    /\ s \in iReplayed => iSessions[s].status # "ACTIVE"

\* login: between two unlocks of the credential no more passwords are tried
\* than the policy allows, although every wrong one ends in a refusal.
GuessesBounded == iWrong <= IMaxFailures

\* reset_password with revoke_all_sessions: a session that was opened with an
\* older password and still works passed the second factor (the challenge of a
\* login from before the reset is not withdrawn).
ResetCutsOffOldPassword ==
  \A s \in ISessionIds :
    iSessions[s].status = "ACTIVE" /\ iSessions[s].pw < iCutoff => iSessions[s].mfa

\* _verify_second_factor: a code of an authenticator or a recovery code is
\* accepted once, over all the requests that ask for one.
SecondFactorUsedOnce ==
  \A f \in IFactorIds : \A c \in ICodes : iAccepted[f][c] <= 1

\* login, ACCOUNT_SECURITY_STATE_INVALID: an account that claims a second
\* factor has one, whatever enrollments and removals overlapped.
MfaHasFactor ==
  iUser.mfa => \E f \in IFactorIds : iFactors[f].status = "ACTIVE"

\* verify_email: an account on its way to deletion is not made active again,
\* not even by a verification link that is still valid.
DeletionIsFinal ==
  iUser.status = "DELETION_PENDING" => iUser'.status = "DELETION_PENDING"

\* What an account promises: stolen tokens, guessed passwords, old passwords and used
\* codes open nothing, and a deletion is not undone (domain/identity).
AccountPromise ==
  [][ /\ ( /\ RefreshFamily
           /\ GuessesBounded
           /\ ResetCutsOffOldPassword
           /\ SecondFactorUsedOnce
           /\ MfaHasFactor )'
      /\ DeletionIsFinal ]_iVars

=============================================================================
