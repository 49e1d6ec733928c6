------------------------------- MODULE Invites -------------------------------
(***************************************************************************)
(* Registration by invite.  An admin mints an invite for one address; the   *)
(* redemption page reserves it, signs the invitee up in Better Auth, and    *)
(* claims the invite for the new account or releases it.  The three cannot  *)
(* share a transaction: other redemptions, revocations, sign-ups outside    *)
(* the page and a death of the process come between them.                   *)
(*                                                                          *)
(* A user is named by its address (users.email is unique).                  *)
(***************************************************************************)
EXTENDS Naturals, FiniteSets

CONSTANTS
  Ids,        \* ids of invites rows
  Emails,     \* addresses
  Allowlist,  \* BOOTSTRAP_ADMIN_EMAILS
  SignUps,   \* slots for sign-ups in flight
  Faults,     \* "db" when a statement may fail, "crash" when the process may die,
              \* "signup" when a sign-up may be refused or fail half-way
  NoInvite, NoEmail

ASSUME InviteSentinelAssumption == NoInvite \notin Ids /\ NoEmail \notin Emails
ASSUME AllowlistAssumption == Allowlist \subseteq Emails

VARIABLES
  email,       \* invites.email, or NoEmail while there is no row
  redeemed,    \* invites.redeemed_at: "no", "recent" (inside the window), or "old"
  redeemedBy,  \* invites.redeemed_by
  revoked,     \* invites.revoked_at is set
  expired,     \* invites.expires_at has passed
  users,       \* the addresses with an account
  attempt          \* the sign-ups in flight

registrationVars == <<email, redeemed, redeemedBy, revoked, expired, users, attempt>>
inviteVars == <<email, redeemed, redeemedBy, revoked, expired>>

NoSignUp == [pc |-> "idle", invite |-> NoInvite, email |-> NoEmail]

InviteInit ==
  /\ email = [i \in Ids |-> NoEmail]
  /\ redeemed = [i \in Ids |-> "no"]
  /\ redeemedBy = [i \in Ids |-> NoEmail]
  /\ revoked = [i \in Ids |-> FALSE]
  /\ expired = [i \in Ids |-> FALSE]
  /\ users = {}
  /\ attempt = [r \in SignUps |-> NoSignUp]

SignUpAt(r, pc) == attempt[r].pc = pc
SignUpDone(r) == attempt' = [attempt EXCEPT ![r] = NoSignUp]
SignUpGoto(r, pc) == attempt' = [attempt EXCEPT ![r].pc = pc]

\* The rows of invites_open_email_uniq; expiry does not take a row out of it.
Open(i) == email[i] # NoEmail /\ redeemed[i] = "no" /\ ~revoked[i]

-----------------------------------------------------------------------------
(* The admin *)

\* createInvite: one open invite for an address.
Create(i, e) ==
  /\ email[i] = NoEmail
  /\ ~\E j \in Ids : Open(j) /\ email[j] = e
  /\ email' = [email EXCEPT ![i] = e]
  /\ UNCHANGED <<redeemed, redeemedBy, revoked, expired, users, attempt>>

RevokeAnyUnclaimed(i) ==
  /\ email[i] # NoEmail /\ redeemedBy[i] = NoEmail /\ ~revoked[i]
  /\ revoked' = [revoked EXCEPT ![i] = TRUE]
  /\ UNCHANGED <<email, redeemed, redeemedBy, expired, users, attempt>>

\* revokeInvite: one conditional UPDATE; an expired invite can be revoked.
RevokeInvite(i) ==
  /\ Open(i)
  /\ revoked' = [revoked EXCEPT ![i] = TRUE]
  /\ UNCHANGED <<email, redeemed, redeemedBy, expired, users, attempt>>

-----------------------------------------------------------------------------
(* The redemption page *)

ReserveUnburned(r, i) ==
  /\ SignUpAt(r, "idle")
  /\ Open(i) /\ ~expired[i]
  /\ attempt' = [attempt EXCEPT ![r] = [pc |-> "gate", invite |-> i, email |-> email[i]]]
  /\ UNCHANGED <<inviteVars, users>>

\* reserveInvite: one conditional UPDATE burns the token.
Reserve(r, i) ==
  /\ SignUpAt(r, "idle")
  /\ Open(i) /\ ~expired[i]
  /\ redeemed' = [redeemed EXCEPT ![i] = "recent"]
  /\ attempt' = [attempt EXCEPT ![r] = [pc |-> "gate", invite |-> i, email |-> email[i]]]
  /\ UNCHANGED <<email, redeemedBy, revoked, expired, users>>

\* The sign-up endpoint itself, called without an invite.
SignUp(r, e) ==
  /\ SignUpAt(r, "idle")
  /\ attempt' = [attempt EXCEPT ![r] = [pc |-> "gate", invite |-> NoInvite, email |-> e]]
  /\ UNCHANGED <<inviteVars, users>>

\* hasReservedInvite: a burned and unclaimed invite of this address, in its window.
Reserved(e) ==
  \E i \in Ids : /\ email[i] = e /\ redeemed[i] = "recent"
                 /\ redeemedBy[i] = NoEmail /\ ~revoked[i]

\* The create hook: a reservation, or the first-run bootstrap.
Admitted(e) == Reserved(e) \/ (e \in Allowlist /\ users = {})

FailedButClaimed(r) == IF attempt[r].invite = NoInvite THEN SignUpDone(r) ELSE SignUpGoto(r, "claim")

\* A sign-up that fails: the page releases its reservation.
Failed(r) == IF attempt[r].invite = NoInvite THEN SignUpDone(r) ELSE SignUpGoto(r, "release")

\* The address is taken, the password is refused, or the hook decides.
Gate(r) ==
  /\ SignUpAt(r, "gate")
  /\ \/ attempt[r].email \notin users /\ Admitted(attempt[r].email) /\ SignUpGoto(r, "create")
     \/ /\ attempt[r].email \in users \/ ~Admitted(attempt[r].email) \/ "signup" \in Faults
        /\ Failed(r)
  /\ UNCHANGED <<inviteVars, users>>

\* The user row; its address is unique.
CreateUser(r) ==
  /\ SignUpAt(r, "create")
  /\ IF attempt[r].email \in users THEN Failed(r) ELSE SignUpGoto(r, "session")
  /\ users' = users \union {attempt[r].email}
  /\ UNCHANGED inviteVars

\* The account and the session follow, with the session hook's own queries.
CreateSession(r) ==
  /\ SignUpAt(r, "session")
  /\ \/ IF attempt[r].invite = NoInvite THEN SignUpDone(r) ELSE SignUpGoto(r, "claim")
     \/ "signup" \in Faults /\ Failed(r)
  /\ UNCHANGED <<inviteVars, users>>

\* releaseInvite.  It fails if the address has got another open invite meanwhile.
Release(r) ==
  LET i == attempt[r].invite IN
  /\ SignUpAt(r, "release")
  /\ redeemed' = [redeemed EXCEPT ![i] =
                    IF redeemedBy[i] = NoEmail /\ ~\E j \in Ids : Open(j) /\ email[j] = email[i]
                    THEN "no" ELSE @]
  /\ SignUpDone(r)
  /\ UNCHANGED <<email, redeemedBy, revoked, expired, users>>

ClaimByInvite(r) ==
  LET i == attempt[r].invite IN
  /\ SignUpAt(r, "claim")
  /\ redeemedBy' = [redeemedBy EXCEPT ![i] = IF @ = NoEmail THEN i ELSE @]
  /\ SignUpDone(r)
  /\ UNCHANGED <<email, redeemed, revoked, expired, users>>

\* claimInvite, with its audit row.
Claim(r) ==
  LET i == attempt[r].invite IN
  /\ SignUpAt(r, "claim")
  /\ redeemedBy' = [redeemedBy EXCEPT ![i] = IF @ = NoEmail THEN attempt[r].email ELSE @]
  /\ SignUpDone(r)
  /\ UNCHANGED <<email, redeemed, revoked, expired, users>>

-----------------------------------------------------------------------------
(* Time and failures *)

\* The reservation window is over.
WindowCloses(i) ==
  /\ redeemed[i] = "recent"
  /\ redeemed' = [redeemed EXCEPT ![i] = "old"]
  /\ UNCHANGED <<email, redeemedBy, revoked, expired, users, attempt>>

Expire(i) ==
  /\ email[i] # NoEmail /\ ~expired[i]
  /\ expired' = [expired EXCEPT ![i] = TRUE]
  /\ UNCHANGED <<email, redeemed, redeemedBy, revoked, users, attempt>>

\* The release or the claim fails, or the process dies: the reservation stays.
Stranded(r) ==
  /\ \/ "db" \in Faults /\ (SignUpAt(r, "release") \/ SignUpAt(r, "claim"))
     \/ "crash" \in Faults /\ ~SignUpAt(r, "idle")
  /\ SignUpDone(r)
  /\ UNCHANGED <<inviteVars, users>>

SignUpStep(r) ==
  \/ Gate(r) \/ CreateUser(r) \/ CreateSession(r) \/ Release(r) \/ Claim(r) \/ Stranded(r)

InviteNext ==
  \/ \E r \in SignUps : SignUpStep(r)
  \/ \E r \in SignUps, i \in Ids : Reserve(r, i)
  \/ \E r \in SignUps, e \in Emails : SignUp(r, e)
  \/ \E i \in Ids, e \in Emails : Create(i, e)
  \/ \E i \in Ids : RevokeInvite(i) \/ WindowCloses(i) \/ Expire(i)

InviteSpec == InviteInit /\ [][InviteNext]_registrationVars

-----------------------------------------------------------------------------
(* Properties *)

SignUpStages == {"idle", "gate", "create", "session", "release", "claim"}

InviteTypeOK ==
  /\ email \in [Ids -> Emails \union {NoEmail}]
  /\ redeemed \in [Ids -> {"no", "recent", "old"}]
  /\ redeemedBy \in [Ids -> Emails \union {NoEmail}]
  /\ revoked \in [Ids -> BOOLEAN]
  /\ expired \in [Ids -> BOOLEAN]
  /\ users \subseteq Emails
  /\ attempt \in [SignUps -> [pc : SignUpStages, invite : Ids \union {NoInvite},
                            email : Emails \union {NoEmail}]]

\* The sign-ups that work under an invite: those in flight, and the one that claimed it.
Redeemers(i) == {r \in SignUps : attempt[r].invite = i}

\* Two redemptions never hold one link at once, whatever is released, retried or abandoned,
\* and once an account is on record as its redeemer nobody holds it and it is not open
\* again.  (Of an account whose claim never came it says nothing: AccountSpendsInvite.)
SingleUse ==
  \A i \in Ids :
    /\ \A q, r \in Redeemers(i) : q = r
    /\ redeemedBy[i] # NoEmail => Redeemers(i) = {} /\ redeemed[i] # "no"

\* A revocation and a redemption exclude each other: an invite that was revoked
\* signs nobody up, not even by a release that comes late.
RevokeOrRedeem ==
  \A i \in Ids : revoked[i] => Redeemers(i) = {} /\ redeemedBy[i] = NoEmail /\ redeemed[i] = "no"

\* The provenance of an account is right: a claim names the account that its own
\* redemption made, of the invite's own address, and no later step renames it.
ClaimNamesTheAccount ==
  [][\A i \in Ids :
       redeemedBy'[i] # redeemedBy[i] =>
         redeemedBy[i] = NoEmail /\ redeemedBy'[i] = email[i] /\ email[i] \in users]_registrationVars

\* Not true of the code, which releases an invite whatever account its reservation let
\* through: an invite that produced an account is never put back, an account that came of
\* an invite has a spent invite of its address.
AccountSpendsInvite ==
  \A e \in users \ Allowlist : \E i \in Ids : email[i] = e /\ redeemed[i] # "no"
=============================================================================
