------------------------------ MODULE MCPolicy ------------------------------
(***************************************************************************)
(* Policy for TLC: days of DayTicks ticks, the windows of the presets and one *)
(* for any day, and patches that mix good and bad values.                    *)
(***************************************************************************)
EXTENDS Policy

CONSTANT MaxRequests

VARIABLE requests

Row(name, start, stop, days) ==
  [name |-> name, start |-> start, stop |-> stop, days |-> days, enabled |-> TRUE]
Off(w) == [w EXCEPT !.enabled = FALSE]

Last == DayTicks - 1

Weeknights == Row("weeknights", Last, 1, 0..4)
Weekends   == Row("weekends", 0, Last - 1, {5, 6})
Special    == Row("special", 1, 2, {})
Nightly    == Row("nightly", Last - 1, 0, {})

PresetRows == {Off(Weeknights), Off(Weekends), Off(Special)}

File ==
  [gpus |-> 4, jobs |-> 4, windows |-> PresetRows, level |-> "mid", stopAll |-> FALSE]

Sent ==
  {[windows |-> {Weeknights, Off(Special)}],
   [windows |-> {Weekends, Weeknights}],
   [windows |-> {Special, Off(Weekends)}],
   [windows |-> {Nightly}],
   [windows |-> {}, stopAll |-> FALSE],
   [gpus |-> 1, jobs |-> -1, stopAll |-> TRUE],
   [jobs |-> 3, windows |-> {Nightly, Malformed}],
   [jobs |-> 3, level |-> "low"],
   [gpus |-> 5, level |-> "extreme"],
   [gpus |-> 5, level |-> "other"],
   [stopAll |-> TRUE]}

MCInit == Init /\ requests = 0
MCNext ==
  \/ requests < MaxRequests /\ Request /\ requests' = requests + 1
  \/ (Restart \/ Tick) /\ UNCHANGED requests
MCSpec == MCInit /\ [][MCNext]_<<vars, requests>>

==============================================================================
