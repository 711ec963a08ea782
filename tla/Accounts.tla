------------------------------ MODULE Accounts ------------------------------
(***************************************************************************)
(* Accounts: who may sign in with OAuth, and as whom.                      *)
(*                                                                         *)
(* Sources: backend/app/services/oauth_access_service.py,                  *)
(* access_request_service.py, supabase_provisioning_service.py,            *)
(* user_service.py (link_external_identity) and api/routes/users.py.       *)
(* A person gets an account because he asked and an administrator agreed,  *)
(* because an administrator created it and had the provider invite him, or *)
(* because he is the configured first administrator.  The first sign-in    *)
(* binds the account to the provider's subject.                            *)
(*                                                                         *)
(* A request reads, decides and commits; nothing is locked and users and   *)
(* access requests compare no versions.  As in OrgAdmin a request is one   *)
(* step, or it is the slow one whose steps others' commits come between.   *)
(* The identity provider (Supabase) is external.                           *)
(***************************************************************************)
EXTENDS Naturals, FiniteSets

CONSTANTS
    Accounts,       \* ids of users
    Emails,
    SuperAdminEmail,
    Subjects,       \* the provider's user ids
    Null,
    MaxTokens       \* bound: tokens the provider issues

ASSUME AccountsAssumption ==
    /\ SuperAdminEmail \in Emails
    /\ Null \notin Accounts \cup Emails \cup Subjects
    /\ MaxTokens \in Nat

VARIABLES
    account,        \* users
    request,        \* user_access_requests, by their unique address
    identity,       \* external: the provider's users
    tokens,         \* external: issued access tokens, a subject and an address
    slow,           \* the request that takes its time
    signedIn,       \* history: the subjects that were let in as an account
    overlaps,       \* history: what was written while a slow request relied on it
    unmatched       \* history: invitations left without their account

accountVars == <<account, request, identity, tokens, slow, signedIn, overlaps, unmatched>>

-----------------------------------------------------------------------------
Account == [status : {"absent", "active", "inactive"},
            email : Emails \cup {Null}, subject : Subjects \cup {Null}]

NoAccount == [status |-> "absent", email |-> Null, subject |-> Null]

Request == [status : {"absent", "pending", "approved", "rejected"},
            account : Accounts \cup {Null}]

Identity == [status : {"unknown", "invited", "confirmed", "deleted"},
             email : Emails \cup {Null}]

Facts ==
    ({"subject"} \X Accounts) \cup ({"decision", "account"} \X Emails) \cup ({"address"} \X Subjects)

Idle == [kind |-> "idle"]

Slow == {Idle}
     \cup [kind : {"link", "rename"}, account : Accounts, subject : Subjects, email : Emails]
     \cup [kind : {"bootstrap"}, subject : Subjects, email : Emails]
     \cup [kind : {"approve", "reject", "create"}, email : Emails]
     \cup [kind : {"invited"}, email : Emails, subject : Subjects]

\* What the slow request has read and goes on to rely on.
Relied ==
    CASE slow.kind = "link" -> {<<"subject", slow.account>>}
      [] slow.kind \in {"approve", "reject"} -> {<<"decision", slow.email>>}
      [] slow.kind = "create" -> {<<"account", slow.email>>}
      [] slow.kind = "invited" -> {<<"account", slow.email>>, <<"address", slow.subject>>}
      [] OTHER -> {}

Meet(facts) == overlaps' = overlaps \cup (facts \cap Relied)

Active(a) == account[a].status = "active"

\* _active_users_for_email, _email_exists; users are never deleted.
WithEmail(e) == { a \in Accounts : account[a].email = e }

WithSubject(s) == { a \in Accounts : account[a].subject = s }

\* Somebody may decide requests and create users.
Administered == \E a \in Accounts : Active(a)

Known(s) == identity[s].status \in {"invited", "confirmed"}

Held(e) == { s \in Subjects : Known(s) /\ identity[s].email = e }

-----------------------------------------------------------------------------
(***************************************************************************)
(* The provider.                                                           *)
(***************************************************************************)

\* A person signs up or accepts an invitation, and gets a token.
Verify(s, e) ==
    /\ \/ Held(e) = {s}
       \/ Held(e) = {} /\ identity[s].status = "unknown"
    /\ identity' = [identity EXCEPT ![s] = [status |-> "confirmed", email |-> e]]
    /\ Cardinality(tokens) < MaxTokens
    /\ tokens' = tokens \cup {<<s, e>>}
    /\ UNCHANGED <<account, request, slow, signedIn, overlaps, unmatched>>

\* He changes his address; earlier tokens still carry the former one.
ChangeEmail(s, e) ==
    /\ identity[s].status = "confirmed"
    /\ Held(e) = {}
    /\ identity' = [identity EXCEPT ![s].email = e]
    /\ Meet({<<"address", s>>})
    /\ UNCHANGED <<account, request, tokens, slow, signedIn, unmatched>>

Expire(s, e) ==
    /\ <<s, e>> \in tokens
    /\ tokens' = tokens \ {<<s, e>>}
    /\ UNCHANGED <<account, request, identity, slow, signedIn, overlaps, unmatched>>

\* What an invitation leads to: a new identity, or the invited one again.
Invitable(s, e) ==
    \/ Held(e) = {} /\ identity[s].status = "unknown"
    \/ Held(e) = {s} /\ identity[s].status = "invited"

Invited(e) == [status |-> "invited", email |-> e]

Deleted == [status |-> "deleted", email |-> Null]

-----------------------------------------------------------------------------
(***************************************************************************)
(* Signing in, resolve_oauth_user.                                         *)
(***************************************************************************)

\* Fault: a bound account is bound anew.
RebindAllowed(a, s) == WithSubject(s) \subseteq {a}

\* link_external_identity
LinkAllowed(a, s) ==
    \/ account[a].subject = s
    \/ account[a].subject = Null /\ WithSubject(s) = {}

\* The account of the address.
Linkable(a, s, e) == Active(a) /\ a \in WithEmail(e) /\ LinkAllowed(a, s)

NobodyActive(e) == \A a \in WithEmail(e) : ~ Active(a)

\* _reconcile_verified_subject_email: the account of the subject, under its
\* new address.
Renamable(a, s, e) ==
    /\ NobodyActive(e)
    /\ Active(a)
    /\ a \in WithSubject(s)
    /\ WithEmail(e) = {}

\* Who has been invited to the address that account a has so far.
Awaiting(a) == { s \in Held(account[a].email) : identity[s].status = "invited" }

Rename(a, s, e) ==
    /\ account' = [account EXCEPT ![a].email = e]
    /\ signedIn' = [signedIn EXCEPT ![a] = @ \cup {s}]
    /\ unmatched' = unmatched \cup Awaiting(a)

\* The first administrator, whom nobody had to admit.
Bootstrappable(s, e) ==
    /\ e = SuperAdminEmail
    /\ WithEmail(e) = {}
    /\ \A a \in WithSubject(s) : ~ Active(a)

Link(a, s) ==
    /\ account' = [account EXCEPT ![a].subject = s]
    /\ signedIn' = [signedIn EXCEPT ![a] = @ \cup {s}]

\* The unique address and subject of users.
Insert(a, e, s) ==
    /\ account[a] = NoAccount
    /\ WithEmail(e) = {}
    /\ s # Null => WithSubject(s) = {}
    /\ account' = [account EXCEPT ![a] = [status |-> "active", email |-> e, subject |-> s]]

SignIn(a, s, e) ==
    /\ Linkable(a, s, e)
    /\ Link(a, s)
    /\ Meet(IF account[a].subject = s THEN {} ELSE {<<"subject", a>>})
    /\ UNCHANGED <<request, identity, tokens, slow, unmatched>>

SignInRenamed(a, s, e) ==
    /\ Renamable(a, s, e)
    /\ Rename(a, s, e)
    /\ Meet({<<"account", e>>})
    /\ UNCHANGED <<request, identity, tokens, slow>>

\* _bootstrap_super_administrator
SignInFirst(a, s, e) ==
    /\ Bootstrappable(s, e)
    /\ Insert(a, e, s)
    /\ signedIn' = [signedIn EXCEPT ![a] = @ \cup {s}]
    /\ Meet({<<"account", e>>})
    /\ UNCHANGED <<request, identity, tokens, slow, unmatched>>

ReadSignIn(s, e) ==
    /\ slow = Idle
    /\ \/ \E a \in Accounts :
            \/ /\ Linkable(a, s, e)
               /\ account[a].subject = Null
               /\ slow' = [kind |-> "link", account |-> a, subject |-> s, email |-> e]
            \/ /\ Renamable(a, s, e)
               /\ slow' = [kind |-> "rename", account |-> a, subject |-> s, email |-> e]
       \/ /\ Bootstrappable(s, e)
          /\ slow' = [kind |-> "bootstrap", subject |-> s, email |-> e]
    /\ UNCHANGED <<account, request, identity, tokens, signedIn, overlaps, unmatched>>

\* Only the unique subject is compared.
CommitLink ==
    /\ slow.kind = "link"
    /\ WithSubject(slow.subject) \subseteq {slow.account}
    /\ Link(slow.account, slow.subject)
    /\ slow' = Idle
    /\ UNCHANGED <<request, identity, tokens, overlaps, unmatched>>

CommitRename ==
    /\ slow.kind = "rename"
    /\ WithEmail(slow.email) \subseteq {slow.account}
    /\ Rename(slow.account, slow.subject, slow.email)
    /\ slow' = Idle
    /\ UNCHANGED <<request, identity, tokens, overlaps>>

\* When somebody else was first, his account is the one to link.
CommitBootstrap ==
    /\ slow.kind = "bootstrap"
    /\ \E a \in Accounts :
         \/ /\ Insert(a, slow.email, slow.subject)
            /\ signedIn' = [signedIn EXCEPT ![a] = @ \cup {slow.subject}]
         \/ /\ Linkable(a, slow.subject, slow.email)
            /\ Link(a, slow.subject)
    /\ slow' = Idle
    /\ UNCHANGED <<request, identity, tokens, overlaps, unmatched>>

-----------------------------------------------------------------------------
(***************************************************************************)
(* Asking for access.                                                      *)
(***************************************************************************)
CreateAccessRequest(e) ==
    /\ Administered
    /\ request[e].status = "absent"
    /\ WithEmail(e) = {}
    /\ request' = [request EXCEPT ![e].status = "pending"]
    /\ UNCHANGED <<account, identity, tokens, slow, signedIn, overlaps, unmatched>>

\* Fault: an access request is decided whatever its status.
AnyDecidable(e) == Administered /\ request[e].status # "absent"

Decidable(e) == Administered /\ request[e].status = "pending"

Approved(a) == [status |-> "approved", account |-> a]

ApproveRequest(e, a) ==
    /\ Decidable(e)
    /\ Insert(a, e, Null)
    /\ request' = [request EXCEPT ![e] = Approved(a)]
    /\ Meet({<<"decision", e>>, <<"account", e>>})
    /\ UNCHANGED <<identity, tokens, slow, signedIn, unmatched>>

RejectRequest(e) ==
    /\ Decidable(e)
    /\ request' = [request EXCEPT ![e].status = "rejected"]
    /\ Meet({<<"decision", e>>})
    /\ UNCHANGED <<account, identity, tokens, slow, signedIn, unmatched>>

ReadRequest(e) ==
    /\ slow = Idle
    /\ Decidable(e)
    /\ \E kind \in {"approve", "reject"} : slow' = [kind |-> kind, email |-> e]
    /\ UNCHANGED <<account, request, identity, tokens, signedIn, overlaps, unmatched>>

CommitApproval(a) ==
    /\ slow.kind = "approve"
    /\ Insert(a, slow.email, Null)
    /\ request' = [request EXCEPT ![slow.email] = Approved(a)]
    /\ slow' = Idle
    /\ UNCHANGED <<identity, tokens, signedIn, overlaps, unmatched>>

CommitRejection ==
    /\ slow.kind = "reject"
    /\ request' = [request EXCEPT ![slow.email].status = "rejected"]
    /\ slow' = Idle
    /\ UNCHANGED <<account, identity, tokens, signedIn, overlaps, unmatched>>

-----------------------------------------------------------------------------
(***************************************************************************)
(* Creating an account: validated, invited, created; and every row of a    *)
(* CSV file likewise.                                                      *)
(***************************************************************************)

\* validate_user_creation, as far as it is about addresses.
Creatable(e) == Administered /\ WithEmail(e) = {}

CreateUser(e, s, a) ==
    /\ Creatable(e)
    /\ Invitable(s, e)
    /\ identity' = [identity EXCEPT ![s] = Invited(e)]
    /\ Insert(a, e, Null)
    /\ Meet({<<"account", e>>})
    /\ UNCHANGED <<request, tokens, slow, signedIn, unmatched>>

ValidateUser(e) ==
    /\ slow = Idle
    /\ Creatable(e)
    /\ slow' = [kind |-> "create", email |-> e]
    /\ UNCHANGED <<account, request, identity, tokens, signedIn, overlaps, unmatched>>

InviteUser(s) ==
    /\ slow.kind = "create"
    /\ Invitable(s, slow.email)
    /\ identity' = [identity EXCEPT ![s] = Invited(slow.email)]
    /\ slow' = [kind |-> "invited", email |-> slow.email, subject |-> s]
    /\ UNCHANGED <<account, request, tokens, signedIn, overlaps, unmatched>>

FinishUser(a) ==
    /\ slow.kind = "invited"
    /\ Insert(a, slow.email, Null)
    /\ slow' = Idle
    /\ UNCHANGED <<request, identity, tokens, signedIn, overlaps, unmatched>>

\* Fault: the invitation is left as it is.
InvitationKept(s) == UNCHANGED <<identity, unmatched>>

\* revoke_invitation does its best.
InvitationRevoked(s) ==
    \/ identity' = [identity EXCEPT ![s] = Deleted] /\ UNCHANGED unmatched
    \/ unmatched' = unmatched \cup {s} /\ UNCHANGED identity

\* The account was refused: the address is taken by now, the department
\* closed, the manager gone.
RefuseUser ==
    /\ slow.kind = "invited"
    /\ InvitationRevoked(slow.subject)
    /\ slow' = Idle
    /\ UNCHANGED <<account, request, tokens, signedIn, overlaps>>

-----------------------------------------------------------------------------
DeactivateUser(a) ==
    /\ Active(a)
    /\ \E b \in Accounts \ {a} : Active(b)
    /\ account' = [account EXCEPT ![a].status = "inactive"]
    /\ UNCHANGED <<request, identity, tokens, slow, signedIn, overlaps, unmatched>>

\* The database, the provider or the process gives the slow request up.  After
\* InviteUser it is also the invitation that invite_user took for refused,
\* because the answer was late, when the provider had sent it: there is no
\* identifier then to revoke it by.
Abandon ==
    /\ slow # Idle
    /\ slow' = Idle
    /\ unmatched' = IF slow.kind = "invited" THEN unmatched \cup {slow.subject} ELSE unmatched
    /\ UNCHANGED <<account, request, identity, tokens, signedIn, overlaps>>

AccountInit ==
    /\ account = [a \in Accounts |-> NoAccount]
    /\ request = [e \in Emails |-> [status |-> "absent", account |-> Null]]
    /\ identity = [s \in Subjects |-> [status |-> "unknown", email |-> Null]]
    /\ tokens = {}
    /\ slow = Idle
    /\ signedIn = [a \in Accounts |-> {}]
    /\ overlaps = {}
    /\ unmatched = {}

ProviderNext(s, e) ==
    \/ Verify(s, e)
    \/ ChangeEmail(s, e)
    \/ Expire(s, e)

\* get_current_user, at every call that carries a token.
SignInNext(s, e) ==
    /\ <<s, e>> \in tokens
    /\ \/ \E a \in Accounts : SignIn(a, s, e) \/ SignInRenamed(a, s, e) \/ SignInFirst(a, s, e)
       \/ ReadSignIn(s, e)

RequestNext(e) ==
    \/ CreateAccessRequest(e)
    \/ RejectRequest(e)
    \/ ReadRequest(e)
    \/ ValidateUser(e)
    \/ \E a \in Accounts : ApproveRequest(e, a)
    \/ \E s \in Subjects, a \in Accounts : CreateUser(e, s, a)

SlowNext ==
    \/ CommitLink
    \/ CommitRename
    \/ CommitBootstrap
    \/ CommitRejection
    \/ RefuseUser
    \/ Abandon
    \/ \E s \in Subjects : InviteUser(s)
    \/ \E a \in Accounts : CommitApproval(a) \/ FinishUser(a)

AccountNext ==
    \/ \E s \in Subjects, e \in Emails : ProviderNext(s, e) \/ SignInNext(s, e)
    \/ \E e \in Emails : RequestNext(e)
    \/ SlowNext
    \/ \E a \in Accounts : DeactivateUser(a)

AccountSpec == AccountInit /\ [][AccountNext]_accountVars

-----------------------------------------------------------------------------
\* The rows, the identities of the provider and the histories keep their types.
AccountTypeOK ==
    /\ account \in [Accounts -> Account]
    /\ request \in [Emails -> Request]
    /\ identity \in [Subjects -> Identity]
    /\ tokens \subseteq Subjects \X Emails
    /\ slow \in Slow
    /\ signedIn \in [Accounts -> SUBSET Subjects]
    /\ overlaps \subseteq Facts
    /\ unmatched \subseteq Subjects

\* link_external_identity: whoever holds a reused address later, an account is
\* used by one subject only, unless two of its first sign-ins overlap.
OneSubjectPerAccount ==
    \A a \in Accounts :
        Cardinality(signedIn[a]) <= 1 \/ <<"subject", a>> \in overlaps

\* approve_request, reject_request: a decision stands, and no rejected
\* request has brought an account, unless two decisions overlap.
DecisionsStand ==
    [][\A e \in Emails :
         \/ /\ request[e].status \in {"approved", "rejected"} => request'[e] = request[e]
            /\ request'[e].status = "rejected" => request'[e].account = Null
         \/ <<"decision", e>> \in overlaps']_accountVars

Answered(s) ==
    \/ identity[s].status # "invited"
    \/ s \in unmatched
    \/ slow = [kind |-> "invited", email |-> identity[s].email, subject |-> s]
    \/ WithEmail(identity[s].email) # {}

\* _create_user_with_invitation: invitations and accounts agree.  Who was
\* invited has an account waiting, except after a crash, a late answer of the
\* provider to the invitation (Abandon stands for both) or a failed
\* revocation, and when somebody had the address before, signed in with an
\* earlier token and has taken the account to his present address; and no
\* identity is revoked that somebody signs in with, unless his account came
\* from elsewhere, or he changed his address, while an administrator was
\* creating it.
InvitationsMatchAccounts ==
    [][\A s \in Subjects :
         /\ Answered(s)'
         /\ Known(s) /\ ~ Known(s)' /\ WithSubject(s) # {}
                => {<<"account", slow.email>>, <<"address", s>>} \cap overlaps # {}]_accountVars

=============================================================================
