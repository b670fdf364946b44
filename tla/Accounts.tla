------------------------------- MODULE Accounts -------------------------------
(***************************************************************************)
(* One account and the requests that act on it at the same time:           *)
(* activation, the two halves of a password reset, a change of password,   *)
(* the counting of failed logins and the edits of the profile.             *)
(*                                                                         *)
(* Every transaction reads the account's row and, later, writes it.  The   *)
(* row has no version and Hibernate writes all of its columns as soon as   *)
(* one has changed, so what a commit stores is what the transaction read   *)
(* with its own change made, whatever was committed in between.  A check   *)
(* that fails rolls the transaction back and leaves no trace; it is a      *)
(* guard here.  Accounts share no row: one stands for all.                 *)
(***************************************************************************)
EXTENDS Integers

CONSTANTS
    Requests,         \* request threads
    Passwords,        \* what clients may choose
    ActivationToken,  \* the token of the welcome mail
    ResetTokens,      \* the tokens of the reset mails, a fresh one for each
    NoToken,          \* no reset token in the metadata
    NoRow,            \* what a request outside a transaction will store
    InitialStatuses,  \* what registration leaves the account in
    Limit,            \* failed logins after which the next one suspends: 5
    MaxFailures,      \* bound: calls of updateLoginAttempts
    Published,        \* whether the framework publishes bad-credentials events
    Backups           \* session.backups.enabled

ASSUME TokensAssumption == NoToken \notin ResetTokens /\ ActivationToken \notin ResetTokens
ASSUME RowAssumption == NoRow \notin [status : {"PENDING_ACTIVATION", "ACTIVE", "RESET_PASSWORD"},
                                      password : Passwords, failed : -1 .. Limit]
ASSUME StatusesAssumption == InitialStatuses \subseteq {"PENDING_ACTIVATION", "ACTIVE"}
ASSUME LimitAssumption == Limit \in Nat /\ MaxFailures \in Nat
ASSUME PublishedAssumption == Published \in BOOLEAN
ASSUME BackupsAssumption == Backups \in BOOLEAN

Statuses == {"PENDING_ACTIVATION", "ACTIVE", "RESET_PASSWORD"}
Null == -1   \* failed_logins of a user who never logged in
Rows == [status : Statuses, password : Passwords, failed : -1 .. Limit]
Tokens == ResetTokens \cup {ActivationToken}
MaybeToken == ResetTokens \cup {NoToken}

VARIABLES
    row,         \* the account's row
    resetToken,  \* the reset token among its metadata
    mailed,      \* reset tokens generated
    expired,     \* tokens older than their limit of 24 hours or 30 minutes
    req,         \* what each request is doing
    proved,      \* history: a fresh mailed token was presented once
    chosen,      \* history: passwords set by a fresh token or the old password
    failures     \* history: calls of updateLoginAttempts

account == <<row, resetToken, mailed, expired>>
history == <<proved, chosen, failures>>
vars == <<row, resetToken, mailed, expired, req, proved, chosen, failures>>

Pcs == {"idle", "authenticate", "count", "save", "welcome", "profile", "commit"}
Ops == {"none", "activate", "reset", "complete", "change", "count", "suspend", "welcome", "edit", "merge"}

RequestStates ==
    [pc : Pcs, op : Ops,
     new : Rows \cup {NoRow},  \* the row its transaction will store,
     dirty : BOOLEAN,          \* if it differs from the one it read,
     token : MaybeToken,       \* and the reset token, if it writes that
     calls : 0 .. 2]           \* calls of updateLoginAttempts still to come

\* a request outside a transaction
Outside(pc, calls) == [pc |-> pc, op |-> "none", new |-> NoRow, dirty |-> FALSE,
                       token |-> NoToken, calls |-> calls]
IdleRequest == Outside("idle", 0)

Init ==
    /\ row \in [status : InitialStatuses, password : Passwords, failed : {Null}]
    /\ resetToken = NoToken
    /\ mailed = {}
    /\ expired = {}
    /\ req = [r \in Requests |-> IdleRequest]
    /\ proved = (row.status = "ACTIVE")
    /\ chosen = {row.password}
    /\ failures = 0

------------------------------------------------------------------------------
Count(row0) == IF row0.failed = Null THEN 0 ELSE row0.failed

At(r, pc) == req[r].pc = pc

Go(r, pc) == req' = [req EXCEPT ![r] = Outside(pc, 0)]

(* The transaction of r has read the row and will store new in its place;  *)
(* edits and merges set updated_on and so always store it.                 *)
Transaction(r, op, new, token, calls) ==
    req' = [req EXCEPT ![r] = [pc |-> "commit", op |-> op, new |-> new,
                               dirty |-> op \in {"edit", "merge"} \/ new # row,
                               token |-> token, calls |-> calls]]

(* Back to the counting of a failed login, or to the end of the request.   *)
Continue(r, calls) ==
    req' = [req EXCEPT ![r] = IF calls = 0 THEN IdleRequest ELSE Outside("count", calls)]

(* Whether a token is younger than its limit; the mistake is not to ask.   *)
BugFresh(t) == TRUE
Fresh(t) == t \notin expired

(* activateUser.                                                           *)
Activate(r) ==
    /\ At(r, "idle")
    /\ Fresh(ActivationToken)
    /\ row.status = "PENDING_ACTIVATION"
    /\ Transaction(r, "activate", [row EXCEPT !.status = "ACTIVE"], NoToken, 0)
    /\ proved' = (proved \/ ActivationToken \notin expired)
    /\ UNCHANGED <<account, chosen, failures>>

(* resetPassword: from any status, with a new token in the place of the    *)
(* old one.                                                                *)
ResetPassword(r, t) ==
    /\ At(r, "idle")
    /\ t \notin mailed
    /\ mailed' = mailed \cup {t}
    /\ Transaction(r, "reset", [row EXCEPT !.status = "RESET_PASSWORD"], t, 0)
    /\ UNCHANGED <<row, resetToken, expired, history>>

(* completePasswordReset: the token stays in the metadata.                 *)
CompletePasswordReset(r, p) ==
    /\ At(r, "idle")
    /\ resetToken # NoToken
    /\ Fresh(resetToken)
    /\ row.status = "RESET_PASSWORD"
    /\ Transaction(r, "complete", [status |-> "ACTIVE", password |-> p, failed |-> 0], NoToken, 0)
    /\ proved' = (proved \/ resetToken \notin expired)
    /\ chosen' = IF resetToken \notin expired THEN chosen \cup {p} ELSE chosen
    /\ UNCHANGED <<account, failures>>

(* UserStatusRequired on the endpoints of the logged-in user, and the same *)
(* check of the login filters; the mistake lets the PENDING in.            *)
BugIsActive == row.status # "RESET_PASSWORD"
IsActive == row.status = "ACTIVE"

ChangePassword(r, current, p) ==
    /\ At(r, "idle")
    /\ IsActive
    /\ current = row.password
    /\ Transaction(r, "change", [status |-> row.status, password |-> p, failed |-> 0], NoToken, 0)
    /\ chosen' = chosen \cup {p}
    /\ UNCHANGED <<account, proved, failures>>

------------------------------------------------------------------------------
(* Logging in.  The JSON and query-parameter filters check the status in a *)
(* transaction of their own before the password; a failure is reported to  *)
(* updateLoginAttempts by the JSON filter and, where the framework         *)
(* publishes the event, by the application listener, one after the other.  *)

Reports == IF Published THEN 1 ELSE 0

CheckLogin(r) ==
    /\ At(r, "idle")
    /\ IsActive
    /\ Go(r, "authenticate")
    /\ UNCHANGED <<account, history>>

WrongPassword(r) ==
    /\ At(r, "authenticate")
    /\ \E calls \in {Reports, Reports + 1} : Continue(r, calls)
    /\ UNCHANGED <<account, history>>

(* Basic authentication checks no status, and neither does the external    *)
(* provider's filter before it reports an invalid token; an account with   *)
(* an external identity was created or has been ACTIVE.                    *)
UncheckedFailure(r) ==
    /\ At(r, "idle")
    /\ \/ Continue(r, Reports)
       \/ row.status # "PENDING_ACTIVATION" /\ Continue(r, 1)
    /\ UNCHANGED <<account, history>>

RightPassword(r) ==
    /\ At(r, "authenticate")
    /\ Go(r, IF Backups THEN "save" ELSE "welcome")
    /\ UNCHANGED <<account, history>>

(* saveSessionDataInBackground: a thread of the executor, s, saves the     *)
(* session and merges the user that r had loaded, whatever r does next; it *)
(* writes nothing when the row is still the same.                          *)
SaveSession(r) ==
    /\ At(r, "save")
    /\ \/ Go(r, "welcome")
       \/ \E s \in Requests :
             /\ At(s, "idle")
             /\ req' = [req EXCEPT ![r] = Outside("welcome", 0),
                                   ![s] = [pc |-> "commit", op |-> "merge", new |-> row, dirty |-> TRUE,
                                           token |-> resetToken, calls |-> 0]]
    /\ UNCHANGED <<account, history>>

(* resetLoginAttempts, called by the success handler.                      *)
ResetLoginAttempts(r) ==
    /\ At(r, "welcome")
    /\ Transaction(r, "welcome", [row EXCEPT !.failed = 0], NoToken, 0)
    /\ UNCHANGED <<account, history>>

(* updateLoginAttempts: at the limit the account is suspended and the      *)
(* exception spares the second call; below it the counter goes up.  The    *)
(* mistakes are to suspend one too early and to count twice.               *)
BugAtLimit == Count(row) >= Limit - 1
AtLimit == Count(row) >= Limit

BugCounted == [row EXCEPT !.failed = Count(row) + 2]
Counted == [row EXCEPT !.failed = Count(row) + 1]

UpdateLoginAttempts(r) ==
    /\ At(r, "count")
    /\ failures < MaxFailures
    /\ failures' = failures + 1
    /\ IF AtLimit
       THEN Transaction(r, "suspend", [row EXCEPT !.status = "RESET_PASSWORD"], NoToken, 0)
       ELSE Transaction(r, "count", Counted, NoToken, req[r].calls - 1)
    /\ UNCHANGED <<account, proved, chosen>>

------------------------------------------------------------------------------
(* The other writers of the row.  editUser and the upload of an avatar or  *)
(* cover read it in the transaction that writes it; the upload was let in  *)
(* before the file was transferred.                                        *)

BeginProfile(r) ==
    /\ At(r, "idle")
    /\ IsActive
    /\ Go(r, "profile")
    /\ UNCHANGED <<account, history>>

EditProfile(r) ==
    /\ At(r, "profile")
    /\ Transaction(r, "edit", row, NoToken, 0)
    /\ UNCHANGED <<account, history>>

(* deleteAvatar and deleteCover merge the user the status check loaded,    *)
(* the map of the metadata with it.                                        *)
LoadForMerge(r) ==
    /\ At(r, "idle")
    /\ IsActive
    /\ Transaction(r, "merge", row, resetToken, 0)
    /\ UNCHANGED <<account, history>>

------------------------------------------------------------------------------
(* A reset also replaces the token, a merge puts back the one it loaded.   *)
Commit(r) ==
    /\ At(r, "commit")
    /\ row' = IF req[r].dirty THEN req[r].new ELSE row
    /\ resetToken' = IF req[r].op \in {"reset", "merge"} THEN req[r].token ELSE resetToken
    /\ Continue(r, req[r].calls)
    /\ UNCHANGED <<mailed, expired, proved, chosen, failures>>

(* The request ends without its effect: the commit fails, or the upload    *)
(* that was let in is abandoned.                                           *)
Abandon(r) ==
    /\ req[r].pc \in {"profile", "commit"}
    /\ req' = [req EXCEPT ![r] = IdleRequest]
    /\ UNCHANGED <<account, history>>

Expire(t) ==
    /\ t \in (mailed \cup {ActivationToken}) \ expired
    /\ expired' = expired \cup {t}
    /\ UNCHANGED <<row, resetToken, mailed, req, history>>

------------------------------------------------------------------------------
Request(r) ==
    \/ Activate(r)
    \/ \E t \in ResetTokens : ResetPassword(r, t)
    \/ \E p \in Passwords : CompletePasswordReset(r, p)
    \/ \E current, p \in Passwords : ChangePassword(r, current, p)
    \/ CheckLogin(r) \/ WrongPassword(r) \/ UncheckedFailure(r) \/ RightPassword(r)
    \/ SaveSession(r) \/ ResetLoginAttempts(r) \/ UpdateLoginAttempts(r)
    \/ BeginProfile(r) \/ EditProfile(r) \/ LoadForMerge(r)
    \/ Commit(r) \/ Abandon(r)

Next ==
    \/ \E r \in Requests : Request(r)
    \/ \E t \in ResetTokens \cup {ActivationToken} : Expire(t)

Spec == Init /\ [][Next]_vars

------------------------------------------------------------------------------
(* Every variable has its type: in particular no interleaving of failed    *)
(* logins drives the counter past the limit.  A request will store a row   *)
(* exactly while it is in a transaction.                                   *)
TypeOK ==
    /\ row \in Rows
    /\ resetToken \in MaybeToken
    /\ mailed \in SUBSET ResetTokens
    /\ expired \in SUBSET Tokens
    /\ req \in [Requests -> RequestStates]
    /\ proved \in BOOLEAN
    /\ chosen \in SUBSET Passwords
    /\ failures \in 0 .. MaxFailures
    /\ \A r \in Requests : At(r, "commit") <=> req[r].new # NoRow

(* Whatever the transactions overwrite, an account is ACTIVE only if       *)
(* somebody has presented a mailed token in time, or registration left it  *)
(* so, and its password was set by such a token or by who knew the old one.*)
OwnerVouched == (row.status = "ACTIVE" => proved) /\ row.password \in chosen

(* Lost updates make the counter lag, never lead: an account is suspended  *)
(* for failed logins only when more of them than the limit were reported.  *)
SuspendedAfterLimit == \A r \in Requests : req[r].op = "suspend" => failures > Limit

(* Activation is final: no stale write makes an account PENDING again.     *)
(* Were bad-credentials events published, failed Basic logins would also   *)
(* write the rows of PENDING accounts, and could.                          *)
ActivationIsFinal ==
    [][~Published /\ row.status # "PENDING_ACTIVATION" => row'.status # "PENDING_ACTIVATION"]_vars

Commits(r) == At(r, "commit") /\ req'[r].pc # "commit"

(* "Successfully changed password", says changePassword, and the page of a *)
(* completed reset: "Your password was reset successfully and you can now  *)
(* login".  Nothing but another reset or change replaces the password.     *)
PasswordStays ==
    [][\A r \in Requests :
          Commits(r) /\ req[r].op \notin {"complete", "change"} => row'.password = row.password]_vars
==============================================================================
