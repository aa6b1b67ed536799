---------------------------- MODULE MarketPrices ----------------------------
(***************************************************************************)
(* The OPCOM prices of one day of delivery: the scheduled poll, an import  *)
(* and a CSV file that an administrator starts, and the archive of old     *)
(* revisions.                                                              *)
(*                                                                         *)
(* An import is one transaction under the advisory lock of the day, which  *)
(* it holds while it fetches.  Time is counted in slots of the poll: slot  *)
(* 0 is before the window, the last one is the next day.  A file is what   *)
(* it contains; parse_csv accepts it or does not.                          *)
(***************************************************************************)
EXTENDS Integers, Sequences, FiniteSets, FiniteSetsExt

CONSTANTS
  Files,             \* files with valid prices
  Malformed,         \* a file that parse_csv refuses
  Synthetic,         \* the file that is generated when the source fails
  Unfetched,         \* no answer of the source
  SyntheticFallback, \* settings.opcom_use_synthetic_fixture_on_failure
  Limits,            \* choices of max_active_revisions
  LastSlot,
  MaxRevision        \* bound: revisions

ASSUME MarketAssumption ==
  /\ Cardinality({Malformed, Synthetic, Unfetched}) = 3
  /\ Files \cap {Malformed, Synthetic, Unfetched} = {}
  /\ SyntheticFallback \in BOOLEAN
  /\ Limits \subseteq Nat \ {0}
  /\ LastSlot \in Nat \ {0} /\ MaxRevision \in Nat

VARIABLES
  runs,     \* ImportRun rows, by revision
  current,  \* revisions that have intervals with is_current
  slot,
  poll,     \* a poll between its first look at the clock and the lock
  fetching, \* the import that holds the lock, for whom
  retention \* revisions that a retention run has read, newest first

marketVars == <<runs, current, slot, poll, fetching, retention>>

NotFetched == -1

MarketInit ==
  /\ runs = <<>>
  /\ current = {}
  /\ slot = 0
  /\ poll = "idle"
  /\ fetching = "none"
  /\ retention = [revisions |-> {}, limit |-> 0]

SucceededRuns == {r \in DOMAIN runs : runs[r].status = "succeeded"}
RealImported == \E r \in SucceededRuns : ~runs[r].synthetic
ImportedBefore(file) == \E r \in SucceededRuns : runs[r].file = file

LockIsFree == fetching = "none" /\ Len(runs) < MaxRevision

Run(status, file, by, at) ==
  [status |-> status, file |-> file, synthetic |-> file = Synthetic,
   by |-> by, at |-> at, archived |-> FALSE]

MakeCurrent(revision) == {revision}

(* The row and, if it succeeded, its intervals in place of the others.     *)
Record(run) ==
  /\ runs' = Append(runs, run)
  /\ current' = IF run.status = "succeeded" THEN MakeCurrent(Len(runs) + 1) ELSE current

(***************************************************************************)
(* poll_next_day_prices                                                    *)
(***************************************************************************)
StartPoll ==
  /\ poll = "idle"
  /\ slot \in 1 .. LastSlot - 1
  /\ poll' = "waiting"
  /\ UNCHANGED <<runs, current, slot, fetching, retention>>

TriedThisSlot == \E r \in DOMAIN runs : runs[r].at >= slot

(* The clock and the rows are read again under the lock.                   *)
LockPoll ==
  /\ poll = "waiting"
  /\ LockIsFree
  /\ poll' = "idle"
  /\ fetching' = IF slot = LastSlot \/ RealImported \/ TriedThisSlot THEN "none" ELSE "poll"
  /\ UNCHANGED <<runs, current, slot, retention>>

(***************************************************************************)
(* import_opcom_day                                                        *)
(***************************************************************************)
StartImport ==
  /\ LockIsFree
  /\ slot > 0
  /\ fetching' = "administrator"
  /\ UNCHANGED <<runs, current, slot, poll, retention>>

ImportUnpublished ==
  /\ LockIsFree
  /\ slot = 0
  /\ Record(Run("unpublished", Unfetched, "administrator", NotFetched))
  /\ UNCHANGED <<slot, poll, fetching, retention>>

(* What is imported when the source answers so.                            *)
FileOf(answer) ==
  IF answer \notin Files /\ SyntheticFallback THEN Synthetic ELSE answer

(* Mutant: synthetic prices are imported over real ones.                   *)
NothingToKeep(file) == FALSE

KeepsReal(file) == file = Synthetic /\ RealImported

(* parse_csv                                                               *)
Parses(file) == file \in Files \cup {Synthetic}

StatusOf(file) ==
  IF KeepsReal(file) THEN "failed"
  ELSE IF ImportedBefore(file) THEN "unchanged"
  ELSE IF Parses(file) THEN "succeeded"
  ELSE "failed"

FinishImport(answer) ==
  /\ fetching # "none"
  /\ Record(Run(StatusOf(FileOf(answer)), FileOf(answer), fetching, slot))
  /\ fetching' = "none"
  /\ UNCHANGED <<slot, poll, retention>>

(* The process dies or the database fails: nothing is written.             *)
ImportDies ==
  /\ fetching # "none"
  /\ fetching' = "none"
  /\ UNCHANGED <<runs, current, slot, poll, retention>>

(* import_opcom_csv                                                        *)
ImportFile(file) ==
  /\ LockIsFree
  /\ Record(Run(IF ImportedBefore(file) THEN "unchanged"
                ELSE IF Parses(file) THEN "succeeded" ELSE "failed",
                file, "administrator", slot))
  /\ UNCHANGED <<slot, poll, fetching, retention>>

(***************************************************************************)
(* enforce_revision_retention                                              *)
(***************************************************************************)
ActiveRuns == {r \in SucceededRuns : ~runs[r].archived}

StartRetention(limit) ==
  /\ retention.revisions = {}
  /\ Cardinality(ActiveRuns) > limit
  /\ retention' = [revisions |-> ActiveRuns, limit |-> limit]
  /\ UNCHANGED <<runs, current, slot, poll, fetching>>

BeyondLimit(rows, limit) == {r \in rows : Cardinality({s \in rows : s > r}) >= limit}

(* The revisions that are current are read after the others.               *)
FinishRetention(dry) ==
  LET old == BeyondLimit(retention.revisions, retention.limit) \ current IN
  /\ retention.revisions # {}
  /\ runs' = [r \in DOMAIN runs |->
       IF r \in old /\ ~dry THEN [runs[r] EXCEPT !.archived = TRUE] ELSE runs[r]]
  /\ retention' = [revisions |-> {}, limit |-> 0]
  /\ UNCHANGED <<current, slot, poll, fetching>>

SlotPasses ==
  /\ slot < LastSlot
  /\ slot' = slot + 1
  /\ UNCHANGED <<runs, current, poll, fetching, retention>>

MarketNext ==
  \/ StartPoll \/ LockPoll \/ StartImport \/ ImportUnpublished \/ ImportDies
  \/ \E answer \in Files \cup {Malformed, Unfetched} : FinishImport(answer)
  \/ \E file \in Files \cup {Malformed} : ImportFile(file)
  \/ \E limit \in Limits : StartRetention(limit)
  \/ \E dry \in BOOLEAN : FinishRetention(dry)
  \/ SlotPasses

MarketSpec == MarketInit /\ [][MarketNext]_marketVars

(***************************************************************************)
(* Properties                                                              *)
(***************************************************************************)
RunType ==
  [status : {"succeeded", "unchanged", "failed", "unpublished"},
   file : Files \cup {Malformed, Synthetic, Unfetched}, synthetic : BOOLEAN,
   by : {"poll", "administrator"}, at : NotFetched .. LastSlot, archived : BOOLEAN]

MarketTypeOK ==
  /\ runs \in Seq(RunType) /\ Len(runs) <= MaxRevision
  /\ current \subseteq DOMAIN runs
  /\ slot \in 0 .. LastSlot
  /\ poll \in {"idle", "waiting"}
  /\ fetching \in {"none", "poll", "administrator"}
  /\ retention.revisions \subseteq DOMAIN runs

(* The prices in use are those of the newest import that succeeded, which  *)
(* is never in the archive, and real prices are never followed by the      *)
(* synthetic ones of a day on which the source fails.                      *)
CurrentPricesAreSound ==
  /\ current = IF SucceededRuns = {} THEN {} ELSE {Max(SucceededRuns)}
  /\ \A r \in current : ~runs[r].archived
  /\ \A r, s \in SucceededRuns : r < s /\ runs[s].synthetic => runs[r].synthetic
=============================================================================
