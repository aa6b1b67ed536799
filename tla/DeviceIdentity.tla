--------------------------- MODULE DeviceIdentity ---------------------------
(***************************************************************************)
(* The identity of a device: enrolment, assignment to a station by an      *)
(* administrator or with the code on the package, transfer, factory reset, *)
(* revocation, and the credentials that go with them.                      *)
(*                                                                         *)
(* A unit is the physical device, with the installation id and the         *)
(* provisioning secret it made itself; a call with another secret is       *)
(* refused and changes nothing.  Activation, transfer and reset lock the   *)
(* device row and read it under the lock: each is one action.  The other   *)
(* handlers read without a lock and write when they flush: what they read  *)
(* is kept in calls and their writes are an action of their own.           *)
(***************************************************************************)
EXTENDS Integers, FiniteSets

CONSTANTS
  Units,
  Sites,         \* stations a device may be assigned to
  NoSite,
  IdentityCalls, \* sessions that serve the handlers
  MaxSecret      \* bound: secrets that are issued

NoSecret == 0

ASSUME IdentityAssumption ==
  /\ Units # {}
  /\ NoSite \notin Sites
  /\ MaxSecret \in Nat

VARIABLES
  device,      \* the Device row of a unit; status "none": not enrolled
  credentials, \* the active DeviceCredential rows of a unit
  held,        \* the secret that the unit has stored
  issued,      \* how many secrets have been issued
  calls        \* what a session has read, and for which handler

identityVars == <<device, credentials, held, issued, calls>>

NoRecord == [status |-> "none", station |-> NoSite, lapsed |-> FALSE,
             code |-> FALSE, claimed |-> FALSE, pending |-> NoSecret]

NoCall == [op |-> "none", unit |-> CHOOSE u \in Units : TRUE, seen |-> NoRecord]

IdentityInit ==
  /\ device = [u \in Units |-> NoRecord]
  /\ credentials = [u \in Units |-> {}]
  /\ held = [u \in Units |-> NoSecret]
  /\ issued = 0
  /\ calls = [c \in IdentityCalls |-> NoCall]

NextSecret == issued + 1
MayIssue == issued < MaxSecret

(* A credential is a secret and the station it was issued for.             *)
Credential(site) == [secret |-> NextSecret, station |-> site]
Secrets(u) == {c.secret : c \in credentials[u]}

(***************************************************************************)
(* Handlers without a lock: what they read                                 *)
(***************************************************************************)
Free(c) == calls[c].op = "none"

ReadDevice(c, op, u) ==
  /\ Free(c)
  /\ calls' = [calls EXCEPT ![c] = [op |-> op, unit |-> u, seen |-> device[u]]]
  /\ UNCHANGED <<device, credentials, held, issued>>

EndCall(c) == calls' = [calls EXCEPT ![c] = NoCall]

(* get_authenticated_device: the secret matches an active credential of an *)
(* active device.                                                          *)
Authenticate(c, u) ==
  /\ device[u].status = "active"
  /\ held[u] \in Secrets(u)
  /\ ReadDevice(c, "request", u)

Enroll(c, u) == ReadDevice(c, "enroll", u)

Allocatable(d) ==
  /\ d.station = NoSite
  /\ d.status # "revoked"
  /\ ~d.lapsed

Allocate(c, u) ==
  /\ device[u].status # "none"
  /\ Allocatable(device[u])
  /\ ReadDevice(c, "allocate", u)

Revoke(c, u) ==
  /\ device[u].status # "none"
  /\ ReadDevice(c, "revoke", u)

(***************************************************************************)
(* Handlers without a lock: what they write                                *)
(***************************************************************************)
(* mark_bootstrap_credential_delivered: nothing is written if there was    *)
(* nothing to clear when the row was read.                                 *)
PendingAfter(seen, row) == IF seen.pending = NoSecret THEN row.pending ELSE NoSecret

(* An authenticated request, a heartbeat for example.                      *)
FinishRequest(c) ==
  LET u == calls[c].unit IN
  /\ calls[c].op = "request"
  /\ device' = [device EXCEPT ![u].pending = PendingAfter(calls[c].seen, device[u])]
  /\ EndCall(c)
  /\ UNCHANGED <<credentials, held, issued>>

(* rotate_credential: every credential that is active now is replaced.     *)
Rotated(site) == {Credential(site)}

(* If the response is lost the unit keeps the old secret.                  *)
FinishRotation(c, lost) ==
  LET u == calls[c].unit IN
  /\ calls[c].op = "request"
  /\ MayIssue
  /\ device' = [device EXCEPT ![u].pending = PendingAfter(calls[c].seen, device[u])]
  /\ credentials' = [credentials EXCEPT ![u] = Rotated(calls[c].seen.station)]
  /\ issued' = NextSecret
  /\ held' = IF lost THEN held ELSE [held EXCEPT ![u] = NextSecret]
  /\ EndCall(c)

(* enroll_device, a unit that is known.  It may bring the code of its      *)
(* package; an enrolment that lapsed begins again.                         *)
Reenrolled(seen, row, brings) ==
  LET waits == seen.status = "pending_claim" /\ seen.station = NoSite IN
  [row EXCEPT
     !.code   = IF brings /\ seen.station = NoSite /\ ~seen.claimed /\ ~seen.code
                THEN TRUE ELSE row.code,
     !.lapsed = IF waits /\ seen.lapsed THEN FALSE ELSE row.lapsed]

(* _enrollment_status_payload: the secret that the answer carries.         *)
AnswerOf(seen) ==
  IF seen.status = "active" /\ seen.station # NoSite THEN seen.pending ELSE NoSecret

FinishEnroll(c, brings, lost) ==
  LET u == calls[c].unit
      seen == calls[c].seen
      answer == AnswerOf(seen)
  IN
  /\ calls[c].op = "enroll"
  /\ device' = [device EXCEPT ![u] =
       IF seen.status # "none" THEN Reenrolled(seen, @, brings)
       ELSE IF @.status # "none" THEN @   \* another enrolment won the insert
       ELSE [NoRecord EXCEPT !.status = "pending_claim", !.code = brings]]
  /\ held' = IF lost \/ answer = NoSecret THEN held ELSE [held EXCEPT ![u] = answer]
  /\ EndCall(c)
  /\ UNCHANGED <<credentials, issued>>

(* allocate_device.  The administrator sees the secret and may give it to  *)
(* the unit by hand, which is not modelled.                                *)
Assigned(row, site) ==
  [row EXCEPT !.station = site, !.status = "active", !.pending = NextSecret]

FinishAllocate(c, site) ==
  LET u == calls[c].unit IN
  /\ calls[c].op = "allocate"
  /\ MayIssue
  /\ device' = [device EXCEPT ![u] = Assigned(@, site)]
  /\ credentials' = [credentials EXCEPT ![u] = @ \cup {Credential(site)}]
  /\ issued' = NextSecret
  /\ EndCall(c)
  /\ UNCHANGED held

(* Mutant: the device is revoked and its credentials are not.              *)
RevokesNothing(u) == credentials[u]

Revoked(u) == {}

FinishRevoke(c) ==
  LET u == calls[c].unit IN
  /\ calls[c].op = "revoke"
  /\ device' = [device EXCEPT ![u].status = "revoked"]
  /\ credentials' = [credentials EXCEPT ![u] = Revoked(u)]
  /\ EndCall(c)
  /\ UNCHANGED <<held, issued>>

(* The handler raises, or the connection to the database breaks.           *)
CallFails(c) ==
  /\ calls[c].op # "none"
  /\ EndCall(c)
  /\ UNCHANGED <<device, credentials, held, issued>>

(***************************************************************************)
(* Handlers that lock the device row: a free session serves one            *)
(***************************************************************************)
(* activate_device_for_station: the code is consumed.                      *)
Activated(row, site) == [Assigned(row, site) EXCEPT !.code = FALSE, !.claimed = TRUE]

Activate(c, u, site) ==
  /\ Free(c)
  /\ device[u].code
  /\ device[u].status = "pending_claim"
  /\ Allocatable(device[u])
  /\ MayIssue
  /\ device' = [device EXCEPT ![u] = Activated(@, site)]
  /\ credentials' = [credentials EXCEPT ![u] = @ \cup {Credential(site)}]
  /\ issued' = NextSecret
  /\ UNCHANGED <<held, calls>>

OnStation(u) == device[u].status = "active" /\ device[u].station # NoSite

(* transfer_device: whatever was active is withdrawn.                      *)
Moved(row, site) == [row EXCEPT !.station = site, !.pending = NextSecret]

(* factory_reset_device: as if it had just enrolled.                       *)
Reset(row) ==
  [row EXCEPT !.station = NoSite, !.status = "pending_claim", !.pending = NoSecret,
              !.claimed = FALSE, !.lapsed = FALSE]

TransferDevice(c, u, site) ==
  /\ Free(c)
  /\ OnStation(u)
  /\ device[u].station # site
  /\ MayIssue
  /\ device' = [device EXCEPT ![u] = Moved(@, site)]
  /\ credentials' = [credentials EXCEPT ![u] = {Credential(site)}]
  /\ issued' = NextSecret
  /\ UNCHANGED <<held, calls>>

FactoryReset(c, u) ==
  /\ Free(c)
  /\ OnStation(u)
  /\ device' = [device EXCEPT ![u] = Reset(@)]
  /\ credentials' = [credentials EXCEPT ![u] = {}]
  /\ UNCHANGED <<held, issued, calls>>

(* enrollment_expires_at is looked at while the device has no station.     *)
EnrollmentLapses(u) ==
  /\ device[u].status = "pending_claim"
  /\ ~device[u].lapsed
  /\ device' = [device EXCEPT ![u].lapsed = TRUE]
  /\ UNCHANGED <<credentials, held, issued, calls>>

IdentityNext ==
  \/ \E c \in IdentityCalls, u \in Units :
       Authenticate(c, u) \/ Enroll(c, u) \/ Allocate(c, u) \/ Revoke(c, u)
  \/ \E c \in IdentityCalls : FinishRequest(c) \/ FinishRevoke(c) \/ CallFails(c)
  \/ \E c \in IdentityCalls, lost \in BOOLEAN : FinishRotation(c, lost)
  \/ \E c \in IdentityCalls, brings \in BOOLEAN, lost \in BOOLEAN :
       FinishEnroll(c, brings, lost)
  \/ \E c \in IdentityCalls, site \in Sites : FinishAllocate(c, site)
  \/ \E c \in IdentityCalls, u \in Units, site \in Sites :
       Activate(c, u, site) \/ TransferDevice(c, u, site)
  \/ \E c \in IdentityCalls, u \in Units : FactoryReset(c, u)
  \/ \E u \in Units : EnrollmentLapses(u)

IdentitySpec == IdentityInit /\ [][IdentityNext]_identityVars

(***************************************************************************)
(* Properties                                                              *)
(***************************************************************************)
RecordType ==
  [status : {"none", "pending_claim", "active", "revoked"}, station : Sites \cup {NoSite},
   lapsed : BOOLEAN, code : BOOLEAN, claimed : BOOLEAN, pending : 0 .. MaxSecret]

(* The columns, the unit's memory and the calls in progress.               *)
IdentityTypeOK ==
  /\ device \in [Units -> RecordType]
  /\ credentials \in [Units -> SUBSET [secret : 1 .. MaxSecret, station : Sites \cup {NoSite}]]
  /\ held \in [Units -> 0 .. MaxSecret]
  /\ issued \in 0 .. MaxSecret
  /\ calls \in [IdentityCalls ->
       [op : {"none", "request", "enroll", "allocate", "revoke"}, unit : Units, seen : RecordType]]

(* A device has one usable credential while it is active, issued for the   *)
(* station it is on, and none otherwise: whatever was issued before a      *)
(* transfer, a reset or a revocation opens nothing.  Holds of handlers     *)
(* that do not overlap.                                                    *)
CredentialsFollowDevice ==
  \A u \in Units :
    IF device[u].status = "active"
    THEN \E c \in credentials[u] : credentials[u] = {c} /\ c.station = device[u].station
    ELSE credentials[u] = {}

(* The secret of an assignment can be fetched by enrolling until the unit  *)
(* has used it, or the assignment ended (enroll_device,                    *)
(* mark_bootstrap_credential_delivered).                                   *)
SecretWaitsForUnit ==
  [][\A u \in Units :
       /\ device[u].pending # NoSecret
       /\ device'[u].pending = NoSecret
       /\ device'[u].status = "active"
       => held[u] = device[u].pending]_identityVars
=============================================================================
