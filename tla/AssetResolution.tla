--------------------------- MODULE AssetResolution ---------------------------
(***************************************************************************)
(* What the price path promises of one round asset, without reports,       *)
(* prices or clock: each phase is resolved once, after its report window   *)
(* has closed, and the verdict agrees with the evidence that was on chain  *)
(* when the window closed.                                                 *)
(***************************************************************************)

VARIABLES
    closed,     \* the phases whose submission deadline has passed
    quorum,     \* the phases with a compatible quorum of reports on chain
    status      \* "Open", "Finalized" or "Unavailable", by phase

vars == <<closed, quorum, status>>

Phases == {"Start", "End"}

Init ==
    /\ closed = {}
    /\ quorum = {}
    /\ status = [p \in Phases |-> "Open"]

\* Evidence only accumulates, and only while the window is open.
GatherQuorum(p) ==
    /\ p \notin closed \cup quorum
    /\ quorum' = quorum \cup {p}
    /\ UNCHANGED <<closed, status>>

\* The start window ends first, as start_target_at < end_target_at.
CloseWindow(p) ==
    /\ p \notin closed
    /\ p = "End" => "Start" \in closed
    /\ closed' = closed \cup {p}
    /\ UNCHANGED <<quorum, status>>

\* An end price needs the start price it is compared with.
Finalize(p) ==
    /\ p \in closed \cap quorum
    /\ status[p] = "Open"
    /\ p = "End" => status["Start"] = "Finalized"
    /\ status' = [status EXCEPT ![p] = "Finalized"]
    /\ UNCHANGED <<closed, quorum>>

MarkUnavailable(p) ==
    /\ p \in closed \ quorum
    /\ status[p] = "Open"
    /\ status' = [status EXCEPT ![p] = "Unavailable"]
    /\ UNCHANGED <<closed, quorum>>

Next ==
    \E p \in Phases :
        GatherQuorum(p) \/ CloseWindow(p) \/ Finalize(p) \/ MarkUnavailable(p)

Spec == Init /\ [][Next]_vars

=============================================================================
