---------------------------- MODULE StationSetup ----------------------------
(***************************************************************************)
(* The versioned set-up of one station: the technical configuration, the   *)
(* preferences and the tariff contracts.  Every form carries what its      *)
(* editor saw.  A configuration is checked against the current version     *)
(* without a lock, so only the unique (station, version) stops the slower  *)
(* of two editors; preferences and guided tariffs are checked under the    *)
(* station lock, in one transaction.                                       *)
(***************************************************************************)
EXTENDS Naturals, Sequences, FiniteSets

CONSTANTS Editors,   \* concurrent forms
          MaxEdits,  \* bound: versions of the configuration and of the preferences
          MaxTariffs,\* bound: versions of a tariff
          MaxDate    \* bound: the clock

ASSUME SetupAssumption ==
  /\ MaxEdits \in Nat \ {0} /\ {MaxTariffs, MaxDate} \subseteq Nat

VARIABLES configs,   \* version numbers in the order of their insertion
          prefs,     \* the same for the preferences
          tariffs,   \* direction -> contract and its versions
          completed, \* the date the wizard was finished, or NotYet
          date,
          forms      \* what each editor has open

setupVars == <<configs, prefs, tariffs, completed, date, forms>>

Dates == 0..MaxDate
NotYet == MaxDate + 1
Unending == MaxDate + 1
NoForm == [op |-> "none"]
Directions == {"import", "export"}
Kinds == {"fixed", "indexed"}
Contracts ==
  [kind : Kinds \cup {"none"},
   versions : UNION {[1..n -> [from : Dates, to : Dates \cup {Unending}, guided : BOOLEAN]] :
                       n \in 0..MaxTariffs}]

Current(rows) == IF rows = <<>> THEN 0 ELSE rows[Len(rows)]

(* The open versions of a direction and the newest of them. *)
OpenVersions(d) ==
  {n \in DOMAIN tariffs[d].versions : tariffs[d].versions[n].to = Unending}
Latest(d) ==
  IF OpenVersions(d) = {} THEN 0
  ELSE CHOOSE n \in OpenVersions(d) :
         \A m \in OpenVersions(d) : tariffs[d].versions[m].from <= tariffs[d].versions[n].from
Revision == [d \in Directions |-> Latest(d)]

SetupTypeOK ==
  /\ configs \in UNION {[1..n -> 1..MaxEdits] : n \in 0..MaxEdits}
  /\ prefs \in UNION {[1..n -> 1..MaxEdits] : n \in 0..MaxEdits}
  /\ \A d \in Directions : tariffs[d] \in Contracts
  /\ completed \in Dates \cup {NotYet} /\ date \in Dates
  /\ \A e \in Editors :
       forms[e].op \in {"none", "config", "checked", "preferences", "preset", "pair",
                        "advanced", "setup"}

SetupInit ==
  /\ configs = <<>> /\ prefs = <<>>
  /\ tariffs = [d \in Directions |-> [kind |-> "none", versions |-> <<>>]]
  /\ completed = NotYet /\ date = 0
  /\ forms = [e \in Editors |-> NoForm]

Opens(e, form) == forms[e] = NoForm /\ forms' = [forms EXCEPT ![e] = form]
Closes(e) == forms' = [forms EXCEPT ![e] = NoForm]

(* The station is inserted with version 1 of its configuration and of its  *)
(* preferences.                                                            *)
CreateStation ==
  /\ configs = <<>>
  /\ configs' = <<1>> /\ prefs' = <<1>>
  /\ UNCHANGED <<tariffs, completed, date, forms>>

OpenConfig(e) ==
  /\ configs # <<>>
  /\ Opens(e, [op |-> "config", seen |-> Current(configs)])
  /\ UNCHANGED <<configs, prefs, tariffs, completed, date>>

(* The version the form showed must still be current. *)
CheckConfig(e) ==
  /\ forms[e].op = "config"
  /\ forms[e].seen < MaxEdits
  /\ forms' = [forms EXCEPT ![e] = IF @.seen = Current(configs)
                                   THEN [op |-> "checked", version |-> @.seen + 1]
                                   ELSE NoForm]
  /\ UNCHANGED <<configs, prefs, tariffs, completed, date>>

(* Mutant: the table has no unique (station, version). *)
NotUnique(rows, version) == FALSE
Taken(rows, version) == \E n \in DOMAIN rows : rows[n] = version

(* The flush inserts the version unless another editor has inserted it:    *)
(* the integrity error leaves the handler, nothing is written.             *)
InsertConfig(e) ==
  /\ forms[e].op = "checked"
  /\ configs' = IF Taken(configs, forms[e].version) THEN configs
                ELSE Append(configs, forms[e].version)
  /\ Closes(e)
  /\ UNCHANGED <<prefs, tariffs, completed, date>>

OpenPreferences(e) ==
  /\ prefs # <<>>
  /\ Opens(e, [op |-> "preferences", seen |-> Current(prefs)])
  /\ UNCHANGED <<configs, prefs, tariffs, completed, date>>

(* The station row is locked before the current version is read. *)
SavePreferences(e) ==
  /\ forms[e].op = "preferences"
  /\ forms[e].seen < MaxEdits
  /\ prefs' = IF forms[e].seen = Current(prefs) THEN Append(prefs, forms[e].seen + 1) ELSE prefs
  /\ Closes(e)
  /\ UNCHANGED <<configs, tariffs, completed, date>>

(* A preset was recommended for the versions current at that time and is   *)
(* applied, under the station lock, only while they still are.             *)
RecommendPreset(e) ==
  /\ configs # <<>>
  /\ Opens(e, [op |-> "preset", seen |-> Current(prefs), config |-> Current(configs)])
  /\ UNCHANGED <<configs, prefs, tariffs, completed, date>>

ApplyPreset(e) ==
  /\ forms[e].op = "preset"
  /\ forms[e].seen < MaxEdits
  /\ prefs' = IF forms[e].seen = Current(prefs) /\ forms[e].config = Current(configs)
              THEN Append(prefs, Current(prefs) + 1) ELSE prefs
  /\ Closes(e)
  /\ UNCHANGED <<configs, tariffs, completed, date>>

(* The form of a pair shows the identities of the open versions. *)
OpenPair(e) ==
  /\ configs # <<>>
  /\ Opens(e, [op |-> "pair", revision |-> Revision])
  /\ UNCHANGED <<configs, prefs, tariffs, completed, date>>

(* Mutant: a version may start anywhere. *)
StartsAnywhere(d, from) == TRUE
StartsAfterOpen(d, from) ==
  \A n \in OpenVersions(d) : tariffs[d].versions[n].from < from

(* The open version ends where the new one starts. *)
Extended(d, kind, from, guided) ==
  [kind |-> kind,
   versions |-> Append([n \in DOMAIN tariffs[d].versions |->
                          IF n = Latest(d) THEN [tariffs[d].versions[n] EXCEPT !.to = from]
                          ELSE tariffs[d].versions[n]],
                       [from |-> from, to |-> Unending, guided |-> guided])]

(* The guided form writes an import and an export version from any moment, *)
(* or nothing: it needs unchanged open versions and no indexed contract.   *)
SavePair(e, from) ==
  /\ forms[e].op = "pair"
  /\ \A d \in Directions : Len(tariffs[d].versions) < MaxTariffs
  /\ tariffs' = IF /\ forms[e].revision = Revision
                   /\ \A d \in Directions : /\ tariffs[d].kind # "indexed"
                                            /\ StartsAfterOpen(d, from)
                THEN [d \in Directions |-> Extended(d, "fixed", from, TRUE)]
                ELSE tariffs
  /\ Closes(e)
  /\ UNCHANGED <<configs, prefs, completed, date>>

(* The advanced form takes the time of the request, before it waits for    *)
(* the locks; the kind of a contract never changes.                        *)
SubmitTariff(e) ==
  /\ configs # <<>>
  /\ Opens(e, [op |-> "advanced", from |-> date])
  /\ UNCHANGED <<configs, prefs, tariffs, completed, date>>

AddTariff(e, d, kind) ==
  /\ forms[e].op = "advanced"
  /\ Len(tariffs[d].versions) < MaxTariffs
  /\ tariffs' = IF tariffs[d].kind \in {"none", kind} /\ StartsAfterOpen(d, forms[e].from)
                THEN [tariffs EXCEPT ![d] = Extended(d, kind, forms[e].from, FALSE)]
                ELSE tariffs
  /\ Closes(e)
  /\ UNCHANGED <<configs, prefs, completed, date>>

(* The station is loaded, and its completion tested, without a lock. *)
LoadSetup(e) ==
  /\ configs # <<>> /\ completed = NotYet
  /\ Opens(e, [op |-> "setup"])
  /\ UNCHANGED <<configs, prefs, tariffs, completed, date>>

ActivateSetup(e) ==
  /\ forms[e].op = "setup"
  /\ completed' = date
  /\ Closes(e)
  /\ UNCHANGED <<configs, prefs, tariffs, date>>

Abandon(e) ==
  /\ forms[e] # NoForm
  /\ Closes(e)
  /\ UNCHANGED <<configs, prefs, tariffs, completed, date>>

DatePasses ==
  /\ date < MaxDate
  /\ date' = date + 1
  /\ UNCHANGED <<configs, prefs, tariffs, completed, forms>>

SetupNext ==
  \/ CreateStation \/ DatePasses
  \/ \E e \in Editors :
       \/ OpenConfig(e) \/ CheckConfig(e) \/ InsertConfig(e)
       \/ OpenPreferences(e) \/ SavePreferences(e) \/ RecommendPreset(e) \/ ApplyPreset(e)
       \/ OpenPair(e) \/ \E from \in Dates : SavePair(e, from)
       \/ SubmitTariff(e) \/ \E d \in Directions, kind \in Kinds : AddTariff(e, d, kind)
       \/ LoadSetup(e) \/ ActivateSetup(e) \/ Abandon(e)

SetupSpec == SetupInit /\ [][SetupNext]_setupVars

-----------------------------------------------------------------------------
(* The versions that apply at a moment. *)
InForce(d, at) ==
  {n \in DOMAIN tariffs[d].versions :
     tariffs[d].versions[n].from <= at /\ at < tariffs[d].versions[n].to}

(* No edit is lost or made over a version its editor did not see, and the  *)
(* price of a moment is never ambiguous: the rows of the configuration and *)
(* of the preferences are numbered in the order of their insertion, and    *)
(* from the first version of a tariff on exactly one version applies, and  *)
(* each has applied from its start: none is replaced before it began.     *)
HistoryIsLinear ==
  /\ \A n \in DOMAIN configs : configs[n] = n
  /\ \A n \in DOMAIN prefs : prefs[n] = n
  /\ \A d \in Directions : \A n \in DOMAIN tariffs[d].versions :
       /\ n \in InForce(d, tariffs[d].versions[n].from)
       /\ \A at \in tariffs[d].versions[n].from..MaxDate : Cardinality(InForce(d, at)) = 1
=============================================================================
