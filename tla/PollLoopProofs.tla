--------------------------- MODULE PollLoopProofs ---------------------------
(***************************************************************************)
(* What the abstract poller guarantees, for every value of MaxVersion: the *)
(* display never goes back to an older server state.  EgmiMainProofs       *)
(* carries the result over to the status loop of egmiMain.js through the   *)
(* refinement StatusLoop.                                                  *)
(***************************************************************************)
EXTENDS PollLoop, TLAPS

(***************************************************************************)
(* The inductive invariant.  The display is never ahead of the server, and *)
(* while a poll is pending it is not ahead of the state the poll was sent  *)
(* at; so whatever version a completing poll shows, it is no older than   *)
(* the one shown.  Monotonicity alone is not inductive: a Complete may     *)
(* pick any version from sentAt on, and only the pending poll's sentAt     *)
(* bounds it from below.                                                  *)
(***************************************************************************)
NatState ==
    /\ phase \in {"off", "waiting", "polling"}
    /\ sentAt \in Nat
    /\ shown \in Nat
    /\ srv \in Nat

SentBeforeShown ==
    /\ shown <= srv
    /\ phase = "polling" => shown <= sentAt /\ sentAt <= srv

MonoInv == NatState /\ SentBeforeShown

LEMMA MonoInvInit == Init => MonoInv
BY DEF Init, MonoInv, NatState, SentBeforeShown

LEMMA MonoInvStep == MonoInv /\ [Next]_vars => MonoInv'
<1> SUFFICES ASSUME MonoInv, [Next]_vars PROVE MonoInv'
  OBVIOUS
<1>1. CASE Poll
  BY <1>1 DEF Poll, MonoInv, NatState, SentBeforeShown
<1>2. CASE Complete
  <2>1. PICK v \in sentAt..srv : shown' \in {shown, v}
    BY <1>2 DEF Complete
  <2>2. QED
    BY <1>2, <2>1 DEF Complete, MonoInv, NatState, SentBeforeShown
<1>3. CASE ServerChange
  BY <1>3 DEF ServerChange, MonoInv, NatState, SentBeforeShown
<1>4. CASE UNCHANGED vars
  BY <1>4 DEF vars, MonoInv, NatState, SentBeforeShown
<1>5. QED
  BY <1>1, <1>2, <1>3, <1>4 DEF Next

\* Every step of the poller keeps or advances the version displayed.
LEMMA MonoStep == MonoInv /\ [Next]_vars => [shown' >= shown]_vars
<1> SUFFICES ASSUME MonoInv, [Next]_vars PROVE shown' >= shown
  OBVIOUS
<1>1. CASE Complete
  <2>1. PICK v \in sentAt..srv : shown' \in {shown, v}
    BY <1>1 DEF Complete
  <2>2. QED
    BY <1>1, <2>1 DEF Complete, MonoInv, NatState, SentBeforeShown
<1>2. CASE Poll \/ ServerChange \/ UNCHANGED vars
  BY <1>2 DEF Poll, ServerChange, vars, MonoInv, NatState
<1>3. QED
  BY <1>1, <1>2 DEF Next

(***************************************************************************)
(* The abstract poller never displays an older server state than the one  *)
(* it displays: each completed poll shows a state from after it was sent, *)
(* and polls never overlap.  This is what the status tables of egmiMain.js *)
(* inherit (StatusNeverRegresses).                                         *)
(***************************************************************************)
THEOREM ShownMonotone == Spec => [][shown' >= shown]_vars
<1>1. Init => MonoInv
  BY MonoInvInit
<1>2. MonoInv /\ [Next]_vars => MonoInv' /\ [shown' >= shown]_vars
  BY MonoInvStep, MonoStep
<1>3. QED
  BY <1>1, <1>2, PTL DEF Spec

=============================================================================
