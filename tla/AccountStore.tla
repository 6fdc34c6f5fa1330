---------------------------- MODULE AccountStore ----------------------------
(***************************************************************************)
(* What the account store of the proxy promises, without requests, their   *)
(* admission and the log level in force: what the server acts on, and what *)
(* its next start will find.  An acknowledged change is in both.  A change *)
(* that failed is not acted on; at most the next start finds it, unless    *)
(* another change comes first.  So does one in progress when the process   *)
(* ends.                                                                   *)
(***************************************************************************)
CONSTANTS
    Changes,  \* what one change may make of each state
    Fresh,    \* the state before any change
    NoFile    \* no state: before the first start, or the server is down

VARIABLES
    served,   \* the state the server acts on
    kept      \* the state its next start finds

vars == <<served, kept>>

Init == served = NoFile /\ kept = NoFile

\* The first start, which may fail when the state is kept already.
Create ==
    /\ kept = NoFile
    /\ kept' = Fresh
    /\ served' \in {Fresh, NoFile}

Start ==
    /\ served = NoFile /\ kept # NoFile
    /\ served' = kept
    /\ UNCHANGED kept

Acknowledge(new) == served' = new /\ kept' = new

Fail(new) == kept' = new /\ UNCHANGED served

\* The process ends, in the middle of a change or not.
Stop ==
    /\ served # NoFile
    /\ served' = NoFile
    /\ kept' \in {kept} \union Changes[served]

Next ==
    \/ Create \/ Start \/ Stop
    \/ served # NoFile /\ \E new \in Changes[served] : Acknowledge(new) \/ Fail(new)

Spec == Init /\ [][Next]_vars
=============================================================================
