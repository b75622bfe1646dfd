---------------------------- MODULE StatusHistory ----------------------------
(***************************************************************************)
(* What the tables promise about an application's status, whichever        *)
(* handlers write it: an append-only record of decisions and updates, each *)
(* writer recording at most once, and a status that only ever changes to   *)
(* what is recorded in the same step. The status may also stay: a writer   *)
(* that asks for the status it has read writes no column.                  *)
(***************************************************************************)
CONSTANTS
  Apps,      \* applications
  Writers,   \* who may record, once each
  Statuses   \* the values of a status

VARIABLES
  status,    \* the current status of each application
  history    \* the records: who put which application into which status

vars == <<status, history>>

Init ==
  /\ status = [a \in Apps |-> "submitted"]
  /\ history = {}

Record(w, a, s) ==
  /\ \A h \in history : h.by /= w
  /\ history' = history \cup {[by |-> w, app |-> a, to |-> s]}
  /\ \/ status' = [status EXCEPT ![a] = s]
     \/ UNCHANGED status

Next == \E w \in Writers, a \in Apps, s \in Statuses : Record(w, a, s)

Spec == Init /\ [][Next]_vars
=============================================================================
