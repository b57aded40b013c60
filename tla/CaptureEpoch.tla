---------------------------- MODULE CaptureEpoch -----------------------------
(***************************************************************************)
(* What one capture generation promises about the transactions admitted to *)
(* its journal: trades of the window are committed only until the old      *)
(* generation is fenced; the population frozen then is all of them; it is  *)
(* sealed once, and never after a recorded failure.                        *)
(***************************************************************************)
CONSTANT Trades

VARIABLES
    phase,      \* recording, fenced, frozen or sealed
    committed,  \* trades of the window committed by admitted transactions
    population, \* the frozen trades
    failed      \* a failure is in the journal

vars == <<phase, committed, population, failed>>

Init == phase = "recording" /\ committed = {} /\ population = {} /\ failed = FALSE

Commit ==
    /\ phase = "recording"
    /\ \E rows \in SUBSET Trades : committed' = committed \union rows
    /\ UNCHANGED <<phase, population, failed>>

Advance(from, to) == ~failed /\ phase = from /\ phase' = to /\ UNCHANGED <<committed, failed>>

Fence == Advance("recording", "fenced") /\ UNCHANGED population
Freeze == Advance("fenced", "frozen") /\ population' = committed
Seal == Advance("frozen", "sealed") /\ UNCHANGED population

Fail ==
    /\ phase # "sealed" /\ failed' = TRUE
    /\ UNCHANGED <<phase, committed, population>>

Next == Commit \/ Fence \/ Freeze \/ Seal \/ Fail

Spec == Init /\ [][Next]_vars
=============================================================================
