------------------------------ MODULE PollLoop ------------------------------
(***************************************************************************)
(* What a periodic status poller promises, whatever its timers and flags:  *)
(* once started it alternates between waiting and polling, one poll at a   *)
(* time, and a completed poll leaves the display as it was or shows the    *)
(* server's state at some moment while that poll was pending.              *)
(*                                                                         *)
(* This is the behaviour the spec describes for updateStatus ("guarded by  *)
(* an in-flight flag so overlapping calls are dropped; on success or       *)
(* failure always reschedules itself"); EgmiMain shows the status loop of  *)
(* egmiMain.js implements it.                                              *)
(***************************************************************************)
EXTENDS Naturals

CONSTANT MaxVersion   \* bound on the number of server state changes

VARIABLES
    phase,    \* "off" before the first poll, then "waiting" or "polling"
    sentAt,   \* the server version when the pending poll was sent (0 if none)
    shown,    \* the server version the display was drawn from
    srv       \* the server's current version

vars == <<phase, sentAt, shown, srv>>

TypeOK ==
    /\ phase \in {"off", "waiting", "polling"}
    /\ sentAt \in 0..MaxVersion
    /\ shown \in 0..MaxVersion
    /\ srv \in 0..MaxVersion

Init ==
    /\ phase = "off"
    /\ sentAt = 0
    /\ shown = 0
    /\ srv = 0

\* The first poll, or the next one once the wait is over.
Poll ==
    /\ phase \in {"off", "waiting"}
    /\ phase' = "polling"
    /\ sentAt' = srv
    /\ UNCHANGED <<shown, srv>>

\* The pending poll completes; the display keeps its state or shows the
\* server's state at some moment since the poll was sent.
Complete ==
    /\ phase = "polling"
    /\ phase' = "waiting"
    /\ sentAt' = 0
    /\ \E v \in sentAt..srv : shown' \in {shown, v}
    /\ UNCHANGED srv

ServerChange ==
    /\ srv < MaxVersion
    /\ srv' = srv + 1
    /\ UNCHANGED <<phase, sentAt, shown>>

Next == Poll \/ Complete \/ ServerChange

Spec == Init /\ [][Next]_vars

=============================================================================
