------------------------------ MODULE Accounts ------------------------------
(***************************************************************************)
(* The members of one organisation, its invitations, its status and the    *)
(* web sessions of its members.                                            *)
(*                                                                         *)
(* A request that changes a member loads the membership without a lock,    *)
(* waits for the lock on all memberships of the organisation, reads the    *)
(* row again and then decides: what it loaded is kept in requests, and     *)
(* what it does under the lock is one action.  Invitations are read and    *)
(* written without a lock.  Any request may come from a platform           *)
(* administrator, so the rights of the sender restrict nothing here.       *)
(***************************************************************************)
EXTENDS Integers, FiniteSets

CONSTANTS
  Accounts,
  AccountRequests, \* sessions that serve the routes
  MaxInvitations   \* bound: invitation rows

ASSUME AccountsAssumption == Accounts # {} /\ MaxInvitations \in Nat

VARIABLES
  members,      \* the Membership row of an account
  organization, \* Organization.status
  invitations,  \* the Invitation rows
  signedIn,     \* accounts with a live web session
  requests      \* what a request has loaded, and for which handler

accountVars == <<members, organization, invitations, signedIn, requests>>

Manager == "organization_admin"
NotMember == [role |-> "none", active |-> FALSE]
InvitationIds == 1 .. MaxInvitations
Unsent == [to |-> CHOOSE a \in Accounts : TRUE, role |-> "none", state |-> "none"]
NoRequest == [op |-> "none", account |-> CHOOSE a \in Accounts : TRUE,
              member |-> NotMember, invitation |-> 0, found |-> Unsent]

(* create_organization makes its creator the administrator, except when a  *)
(* platform administrator creates the organisation for a client.           *)
AccountsInit ==
  /\ \E founders \in {{}} \cup {{a} : a \in Accounts} :
       members = [a \in Accounts |->
         IF a \in founders THEN [role |-> Manager, active |-> TRUE] ELSE NotMember]
  /\ organization = "active"
  /\ invitations = [i \in InvitationIds |-> Unsent]
  /\ signedIn = {}
  /\ requests = [r \in AccountRequests |-> NoRequest]

Administrators == {a \in Accounts : members[a].role = Manager /\ members[a].active}
IsMember(a) == members[a].role # "none"
EndRequest(r) == requests' = [requests EXCEPT ![r] = NoRequest]

(***************************************************************************)
(* Members                                                                 *)
(***************************************************************************)
LoadMember(r, a) ==
  /\ requests[r].op = "none"
  /\ IsMember(a)
  /\ requests' = [requests EXCEPT ![r] =
       [NoRequest EXCEPT !.op = "member", !.account = a, !.member = members[a]]]
  /\ UNCHANGED <<members, organization, invitations, signedIn>>

(* Mutant: the row is not read again under the lock.                       *)
LoadedRow(r) == requests[r].member

(* db.refresh(membership), which raises if the row is gone.                *)
LockedRow(r) == members[requests[r].account]

(* _assert_not_last_admin                                                  *)
MayStepDown(r) ==
  \/ LockedRow(r).role # Manager
  \/ ~LockedRow(r).active
  \/ Administrators \ {requests[r].account} # {}

UpdateMember(r, row, revokes) ==
  LET a == requests[r].account IN
  /\ requests[r].op = "member"
  /\ IsMember(a)
  /\ members' = [members EXCEPT ![a] = row]
  /\ signedIn' = IF revokes THEN signedIn \ {a} ELSE signedIn
  /\ EndRequest(r)
  /\ UNCHANGED <<organization, invitations>>

ChangeRole(r, role) ==
  /\ LockedRow(r).role # role
  /\ LockedRow(r).role = Manager => MayStepDown(r)
  /\ UpdateMember(r, [members[requests[r].account] EXCEPT !.role = role], TRUE)

DeactivateMember(r) ==
  /\ LockedRow(r).active
  /\ MayStepDown(r)
  /\ UpdateMember(r, [members[requests[r].account] EXCEPT !.active = FALSE], TRUE)

ReactivateMember(r) ==
  /\ ~LockedRow(r).active
  /\ UpdateMember(r, [members[requests[r].account] EXCEPT !.active = TRUE], FALSE)

RemoveMember(r) ==
  /\ MayStepDown(r)
  /\ UpdateMember(r, NotMember, TRUE)

(* A refusal, an answer without a change, or an exception.                 *)
RequestEnds(r) ==
  /\ requests[r].op # "none"
  /\ EndRequest(r)
  /\ UNCHANGED <<members, organization, invitations, signedIn>>

(***************************************************************************)
(* Invitations                                                             *)
(***************************************************************************)
PendingOf(a) == {i \in InvitationIds :
                   invitations[i].state = "pending" /\ invitations[i].to = a}

(* create_invitation looks for a pending invitation to reuse.              *)
LoadForInvite(r, a) ==
  /\ requests[r].op = "none"
  /\ \E i \in IF PendingOf(a) = {} THEN {0} ELSE PendingOf(a) :
       requests' = [requests EXCEPT ![r] =
         [NoRequest EXCEPT !.op = "invite", !.account = a, !.invitation = i]]
  /\ UNCHANGED <<members, organization, invitations, signedIn>>

(* The row that was found keeps whatever state it has got meanwhile.       *)
Invite(r, role) ==
  LET found == requests[r].invitation
      unused == {i \in InvitationIds : invitations[i].state = "none"}
  IN
  /\ requests[r].op = "invite"
  /\ \/ /\ found # 0
        /\ invitations' = [invitations EXCEPT ![found].role = role]
     \/ /\ found = 0
        /\ unused # {}
        /\ LET i == CHOOSE i \in unused : \A j \in unused : i <= j IN
           invitations' = [invitations EXCEPT ![i] =
             [to |-> requests[r].account, role |-> role, state |-> "pending"]]
  /\ EndRequest(r)
  /\ UNCHANGED <<members, organization, signedIn>>

(* accept_invitation and cancel_invitation look at the row first.          *)
LoadInvitation(r, i, op) ==
  /\ requests[r].op = "none"
  /\ invitations[i].state = "pending"
  /\ requests' = [requests EXCEPT ![r] =
       [NoRequest EXCEPT !.op = op, !.account = invitations[i].to,
                         !.invitation = i, !.found = invitations[i]]]
  /\ UNCHANGED <<members, organization, invitations, signedIn>>

(* A membership that exists stays as it is, also an inactive one.  If      *)
(* another request inserts it first the key is violated: RequestEnds.      *)
AcceptInvitation(r) ==
  LET a == requests[r].account IN
  /\ requests[r].op = "accept"
  /\ members' = IF IsMember(a) THEN members
                ELSE [members EXCEPT ![a] = [role |-> requests[r].found.role, active |-> TRUE]]
  /\ invitations' = [invitations EXCEPT ![requests[r].invitation].state = "accepted"]
  /\ EndRequest(r)
  /\ UNCHANGED <<organization, signedIn>>

(* accepted_at and revoked_at are two columns: either closes the row.      *)
CancelInvitation(r) ==
  /\ requests[r].op = "cancel"
  /\ invitations' = [invitations EXCEPT ![requests[r].invitation].state = "closed"]
  /\ EndRequest(r)
  /\ UNCHANGED <<members, organization, signedIn>>

(***************************************************************************)
(* The organisation, and sessions                                          *)
(***************************************************************************)
ValidTransitions ==
  {<<"active", "suspended">>, <<"active", "archived">>, <<"suspended", "active">>,
   <<"suspended", "archived">>, <<"archived", "active">>}

(* Suspension and archiving end the sessions of the members.               *)
SessionsUnder(new) == IF new = "active" THEN signedIn ELSE {a \in signedIn : ~IsMember(a)}

(* _apply_transition                                                       *)
ChangeStatus(new) ==
  /\ <<organization, new>> \in ValidTransitions
  /\ organization' = new
  /\ signedIn' = SessionsUnder(new)
  /\ UNCHANGED <<members, invitations, requests>>

SignIn(a) ==
  /\ a \notin signedIn
  /\ signedIn' = signedIn \cup {a}
  /\ UNCHANGED <<members, organization, invitations, requests>>

AccountsNext ==
  \/ \E r \in AccountRequests, a \in Accounts : LoadMember(r, a) \/ LoadForInvite(r, a)
  \/ \E r \in AccountRequests, role \in {Manager, "viewer"} : ChangeRole(r, role) \/ Invite(r, role)
  \/ \E r \in AccountRequests :
       \/ DeactivateMember(r) \/ ReactivateMember(r) \/ RemoveMember(r)
       \/ RequestEnds(r) \/ AcceptInvitation(r) \/ CancelInvitation(r)
  \/ \E r \in AccountRequests, i \in InvitationIds, op \in {"accept", "cancel"} :
       LoadInvitation(r, i, op)
  \/ \E new \in {"active", "suspended", "archived"} : ChangeStatus(new)
  \/ \E a \in Accounts : SignIn(a)

AccountsSpec == AccountsInit /\ [][AccountsNext]_accountVars

(***************************************************************************)
(* Properties                                                              *)
(***************************************************************************)
MemberType == [role : {"none", Manager, "viewer"}, active : BOOLEAN]
InvitationType ==
  [to : Accounts, role : {"none", Manager, "viewer"},
   state : {"none", "pending", "accepted", "closed"}]

AccountsTypeOK ==
  /\ members \in [Accounts -> MemberType]
  /\ organization \in {"active", "suspended", "archived"}
  /\ invitations \in [InvitationIds -> InvitationType]
  /\ signedIn \subseteq Accounts
  /\ requests \in [AccountRequests ->
       [op : {"none", "member", "invite", "accept", "cancel"}, account : Accounts,
        member : MemberType, invitation : 0 .. MaxInvitations, found : InvitationType]]

(* The organisation never loses its last active administrator, whichever   *)
(* members are demoted, deactivated or removed at the same time            *)
(* (_assert_not_last_admin, _lock_organization_memberships).               *)
LastAdminStays == [][Administrators # {} => Administrators' # {}]_accountVars
=============================================================================
