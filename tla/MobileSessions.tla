--------------------------- MODULE MobileSessions ---------------------------
(***************************************************************************)
(* The sessions of one user in the mobile application: signing in,         *)
(* rotation of the refresh token, signing out, revocation and the purge    *)
(* of what has expired.                                                    *)
(*                                                                         *)
(* A login holds the lock on the user row.  A refresh finds its token      *)
(* without a lock and then waits for the user and the session: lookups     *)
(* keeps what it found, and what it does under the locks is one action.    *)
(* A session has the tokens 1, 2, ... in the order in which rotate issued  *)
(* them.                                                                   *)
(***************************************************************************)
EXTENDS Integers, FiniteSets

CONSTANTS
  Installations,
  Refreshers,   \* sessions that serve refresh and logout
  MaxLive,      \* MAX_SESSIONS
  MaxFailures,  \* failed logins that lock the account
  MaxTries,  \* codes that may be tried for a registration
  MaxLogins,    \* bound: sessions that are created
  MaxRotations  \* bound: tokens of a session

ASSUME MobileAssumption ==
  /\ Installations # {} /\ MaxLogins \in Nat
  /\ {MaxLive, MaxFailures, MaxTries, MaxRotations} \subseteq Nat \ {0}

VARIABLES
  account,      \* the User row: does it exist, its failed logins and its lock
  registration, \* attempts made of the MobileRegistration, or NoRegistration
  mobile,       \* the MobileSession rows in the order of their creation
  tokens,       \* the MobileRefreshToken rows of a session without used_at
  lookups       \* what a refresh has found

mobileVars == <<account, registration, mobile, tokens, lookups>>

NoRegistration == -1
SessionIds == 1 .. MaxLogins
NoSession == [installation |-> CHOOSE i \in Installations : TRUE, state |-> "none", issued |-> 0]
NoLookup == [session |-> 0, token |-> 0, unused |-> FALSE]

(* The account is new, or it was created on the web.                       *)
MobileInit ==
  /\ account \in [exists : BOOLEAN, failures : {0}, locked : {FALSE}]
  /\ registration = NoRegistration
  /\ mobile = [s \in SessionIds |-> NoSession]
  /\ tokens = [s \in SessionIds |-> {}]
  /\ lookups = [r \in Refreshers |-> NoLookup]

Live == {s \in SessionIds : mobile[s].state = "live"}
Rows == {s \in SessionIds : mobile[s].state \notin {"none", "deleted"}}

(* revoked_at is looked at until the session has expired.                  *)
RevokedIn(set) == [s \in SessionIds |->
  IF s \in set /\ mobile[s].state = "live" THEN [mobile[s] EXCEPT !.state = "revoked"] ELSE mobile[s]]

(***************************************************************************)
(* Signing in                                                              *)
(***************************************************************************)
(* create_session: the newest sessions of the other installations stay.    *)
Replaced(i) ==
  LET others == {s \in Live : mobile[s].installation # i} IN
  {s \in Live : \/ mobile[s].installation = i
                \/ Cardinality({t \in others : t > s}) >= MaxLive - 1}

CreateSession(i) ==
  LET new == CHOOSE s \in SessionIds : /\ mobile[s].state = "none"
                                       /\ \A t \in 1 .. s - 1 : mobile[t].state # "none" IN
  /\ \E s \in SessionIds : mobile[s].state = "none"
  /\ mobile' = [RevokedIn(Replaced(i)) EXCEPT ![new] =
                  [installation |-> i, state |-> "live", issued |-> 1]]
  /\ tokens' = [tokens EXCEPT ![new] = {1}]

(* authenticate, under the lock on the user                                *)
LoginSucceeds(i) ==
  /\ account.exists
  /\ ~account.locked
  /\ account' = [account EXCEPT !.failures = 0]
  /\ CreateSession(i)
  /\ UNCHANGED <<registration, lookups>>

LoginFails ==
  /\ account.exists
  /\ ~account.locked
  /\ account' = IF account.failures + 1 >= MaxFailures
                THEN [account EXCEPT !.failures = 0, !.locked = TRUE]
                ELSE [account EXCEPT !.failures = @ + 1]
  /\ UNCHANGED <<registration, mobile, tokens, lookups>>

LockEnds ==
  /\ account.locked
  /\ account' = [account EXCEPT !.locked = FALSE]
  /\ UNCHANGED <<registration, mobile, tokens, lookups>>

(* request_signup: for an account that exists only a hint is sent.         *)
RequestSignup ==
  /\ ~account.exists
  /\ registration' = 0
  /\ UNCHANGED <<account, mobile, tokens, lookups>>

(* verify_signup: the attempt counts also when the answer is an error.     *)
MayTry == registration # NoRegistration /\ registration < MaxTries

VerifyFails ==
  /\ MayTry
  /\ registration' = registration + 1
  /\ UNCHANGED <<account, mobile, tokens, lookups>>

VerifySucceeds(i) ==
  /\ MayTry
  /\ ~account.exists
  /\ account' = [account EXCEPT !.exists = TRUE]
  /\ registration' = NoRegistration
  /\ CreateSession(i)
  /\ UNCHANGED lookups

(***************************************************************************)
(* Refresh and sign out                                                    *)
(***************************************************************************)
(* The application presents a token that it has got, not always the last   *)
(* one: the answer to a refresh may be lost, or the refresh sent twice.    *)
FindToken(r, s, token) ==
  /\ lookups[r] = NoLookup
  /\ s \in Rows
  /\ token <= mobile[s].issued
  /\ lookups' = [lookups EXCEPT ![r] =
       [session |-> s, token |-> token, unused |-> token \in tokens[s]]]
  /\ UNCHANGED <<account, registration, mobile, tokens>>

EndLookup(r) == lookups' = [lookups EXCEPT ![r] = NoLookup]

(* Mutant: used_at is what the lookup read.                                *)
UnusedAtLookup(r) == lookups[r].unused

(* db.refresh(token)                                                       *)
Unused(r) == lookups[r].token \in tokens[lookups[r].session]

Refresh(r) ==
  LET s == lookups[r].session IN
  /\ s \in Live
  /\ Unused(r)
  /\ mobile[s].issued < MaxRotations
  /\ mobile' = [mobile EXCEPT ![s].issued = @ + 1]
  /\ tokens' = [tokens EXCEPT ![s] = (@ \ {lookups[r].token}) \cup {mobile[s].issued + 1}]
  /\ EndLookup(r)
  /\ UNCHANGED <<account, registration>>

(* A token that was used before ends the session, and so does logout.      *)
EndSession(r, logout) ==
  LET s == lookups[r].session IN
  /\ s \in Rows
  /\ logout \/ ~Unused(r)
  /\ mobile' = RevokedIn({s})
  /\ EndLookup(r)
  /\ UNCHANGED <<account, registration, tokens>>

(* The session was revoked, has expired or is gone; or the request dies.   *)
RefreshEnds(r) ==
  /\ lookups[r] # NoLookup
  /\ EndLookup(r)
  /\ UNCHANGED <<account, registration, mobile, tokens>>

(***************************************************************************)
(* Revocation and retention                                                *)
(***************************************************************************)
(* revoke_for_user, and the routes that revoke one session                 *)
RevokeSessions(set) ==
  /\ set \cap Live # {}
  /\ mobile' = RevokedIn(set)
  /\ UNCHANGED <<account, registration, tokens, lookups>>

SessionExpires(s) ==
  /\ mobile[s].state \in {"live", "revoked"}
  /\ mobile' = [mobile EXCEPT ![s].state = "expired"]
  /\ UNCHANGED <<account, registration, tokens, lookups>>

(* purge_expired.  The tokens go with their session.                       *)
PurgeExpired ==
  LET expired == {s \in SessionIds : mobile[s].state = "expired"} IN
  /\ expired # {}
  /\ mobile' = [s \in SessionIds |->
                  IF s \in expired THEN [mobile[s] EXCEPT !.state = "deleted"] ELSE mobile[s]]
  /\ tokens' = [s \in SessionIds |-> IF s \in expired THEN {} ELSE tokens[s]]
  /\ registration' \in {registration, NoRegistration}
  /\ UNCHANGED <<account, lookups>>

MobileNext ==
  \/ \E i \in Installations : LoginSucceeds(i) \/ VerifySucceeds(i)
  \/ LoginFails \/ LockEnds \/ RequestSignup \/ VerifyFails \/ PurgeExpired
  \/ \E r \in Refreshers, s \in SessionIds, token \in 1 .. MaxRotations : FindToken(r, s, token)
  \/ \E r \in Refreshers : Refresh(r) \/ RefreshEnds(r)
  \/ \E r \in Refreshers, logout \in BOOLEAN : EndSession(r, logout)
  \/ \E s \in SessionIds : SessionExpires(s) \/ RevokeSessions({s})
  \/ RevokeSessions(SessionIds)

MobileSpec == MobileInit /\ [][MobileNext]_mobileVars

(***************************************************************************)
(* Properties                                                              *)
(***************************************************************************)
MobileTypeOK ==
  /\ account \in [exists : BOOLEAN, failures : 0 .. MaxFailures - 1, locked : BOOLEAN]
  /\ registration \in -1 .. MaxTries
  /\ mobile \in [SessionIds ->
       [installation : Installations, issued : 0 .. MaxRotations,
        state : {"none", "live", "revoked", "expired", "deleted"}]]
  /\ tokens \in [SessionIds -> SUBSET (1 .. MaxRotations)]
  /\ lookups \in [Refreshers ->
       [session : 0 .. MaxLogins, token : 0 .. MaxRotations, unused : BOOLEAN]]

(* However refreshes, logins and revocations overlap, a live session has   *)
(* one token that refreshes it, an installation has one live session, and  *)
(* a user no more than MAX_SESSIONS (create_session, refresh_session).     *)
SessionsAreSingle ==
  /\ \A s \in Live : Cardinality(tokens[s]) = 1
  /\ \A s, t \in Live : s # t => mobile[s].installation # mobile[t].installation
  /\ Cardinality(Live) <= MaxLive
=============================================================================
