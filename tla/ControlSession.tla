--------------------------- MODULE ControlSession ---------------------------
(***************************************************************************)
(* What closed-loop control promises, without saying how: commands exist   *)
(* only inside a control session.  A session is one revision of            *)
(* StationControl.  Commands are opened while the session is live, each    *)
(* command is opened at most once, a command that left the open set never  *)
(* comes back, and the end of a session withdraws every open command.      *)
(***************************************************************************)
EXTENDS Integers

CONSTANTS
  Cmds          \* the commands that can ever be issued

VARIABLES
  session,      \* the number of the current session
  live,         \* whether commands may be opened in it
  open,         \* commands that the device may still act on
  done          \* commands that reached a terminal status

vars == <<session, live, open, done>>

TypeOK ==
  /\ session \in Nat
  /\ live \in BOOLEAN
  /\ open \in SUBSET Cmds
  /\ done \in SUBSET Cmds

Init ==
  /\ session = 1
  /\ live = FALSE
  /\ open = {}
  /\ done = {}

(* A live session issues commands that were never issued before.           *)
Open(S) ==
  /\ live
  /\ S \cap (open \cup done) = {}
  /\ open' = open \cup S
  /\ UNCHANGED <<session, live, done>>

(* Some of the open commands reach a terminal status.                      *)
Close(S) ==
  /\ S \subseteq open
  /\ open' = open \ S
  /\ done' = done \cup S
  /\ UNCHANGED <<session, live>>

(* The session ends and takes all of its open commands with it.            *)
EndSession ==
  /\ session' \in Nat
  /\ session' > session
  /\ live' \in BOOLEAN
  /\ open' = {}
  /\ done' = done \cup open

Next ==
  \/ \E S \in SUBSET Cmds : Open(S)
  \/ \E S \in SUBSET Cmds : Close(S)
  \/ EndSession

Spec == Init /\ [][Next]_vars
=============================================================================
