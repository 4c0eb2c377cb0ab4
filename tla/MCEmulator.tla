----------------------------- MODULE MCEmulator -----------------------------
(***************************************************************************)
(* The emulator for TLC: two requests at a time, three in a behaviour.     *)
(* The uploads have headers of 0, 1, 2 and 3 elements, in battery slot 0   *)
(* and 1, an event blob that is cut short, and code-75 events of each      *)
(* meaning, among them a reason 0, whose value has a low byte of 0.        *)
(***************************************************************************)
EXTENDS Emulator, TLC

Scan == [kind |-> "timeout", reason |-> 0, rssi |-> 0]
Left(r, dbm) == [kind |-> "left", reason |-> r, rssi |-> dbm]
Triple(c, cause) == [parts |-> 3, code |-> c, cause |-> cause]
Cut == [parts |-> 1, code |-> 84, cause |-> Scan]
Quintuple == [parts |-> 5, code |-> 75, cause |-> Left(3, -60)]

MCUploads ==
    {[header |-> <<>>,        entries |-> <<>>],
     [header |-> <<0>>,       entries |-> <<Triple(75, Left(0, -60))>>],
     [header |-> <<0, 7>>,    entries |-> <<Triple(75, Left(3, -70)), Cut,
                                            Triple(75, Scan)>>],
     [header |-> <<1, 7>>,    entries |-> <<Quintuple, Cut>>],
     [header |-> <<0, 8, 9>>, entries |-> <<Triple(84, Scan), Quintuple>>]}

MCReports ==
    {[v |-> "absent", max |-> -1,   min |-> -1],
     [v |-> "bad",    max |-> -1,   min |-> -1],
     [v |-> "fields", max |-> -1,   min |-> 3200],
     [v |-> "fields", max |-> 3300, min |-> 3200],
     [v |-> "fields", max |-> 3400, min |-> 3390],
     [v |-> "fields", max |-> 0,    min |-> 0]}

Symmetric == Permutations(Handlers) \cup Permutations(Infos)
=============================================================================
