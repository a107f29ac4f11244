--------------------------- MODULE EgmiMainProofs ---------------------------
(***************************************************************************)
(* Proofs about the main controller's polling loops (EgmiMain), for every  *)
(* value of the constants.                                                 *)
(***************************************************************************)
EXTENDS EgmiMain, TLAPS

(***************************************************************************)
(* RemoveIdx, which removes a delivered request from the pending ones,     *)
(* keeps a sequence of S a sequence of S, one element shorter, and keeps   *)
(* the elements it does not remove.                                        *)
(***************************************************************************)
LEMMA RemoveIdxType ==
    ASSUME NEW S, NEW s \in Seq(S), NEW i \in 1..Len(s)
    PROVE  /\ RemoveIdx(s, i) \in Seq(S)
           /\ Len(RemoveIdx(s, i)) = Len(s) - 1
           /\ \A j \in 1..Len(RemoveIdx(s, i)) : \E m \in 1..Len(s) : RemoveIdx(s, i)[j] = s[m]
<1>1. Len(s) - 1 \in Nat
  OBVIOUS
<1>2. RemoveIdx(s, i) \in [1..(Len(s) - 1) -> S]
  BY DEF RemoveIdx
<1>3. QED
  BY <1>1, <1>2 DEF RemoveIdx

-----------------------------------------------------------------------------
(***************************************************************************)
(* The type invariant.  TypeOK alone is not inductive: a timer firing or a *)
(* clearTimeout takes one from a count of pending timers, which stays a    *)
(* natural number only because a live handle names a pending timer.       *)
(***************************************************************************)
\* The Boolean-valued part of TypeOK, for Zenon.
FlagsOK ==
    /\ loaded \in BOOLEAN
    /\ inUpdateStatus \in BOOLEAN
    /\ statusHandleLive \in BOOLEAN
    /\ masterHandleLive \in BOOLEAN
    /\ masterProblem \in BOOLEAN
    /\ redirected \in BOOLEAN

\* The rest of TypeOK, for SMT.
DataOK ==
    /\ srvVersion \in 0..MaxVersion
    /\ statusInFlight \in Seq(0..MaxVersion)
    /\ statusTimers \in Nat
    /\ tables \in TableStates
    /\ shownVersion \in 0..MaxVersion
    /\ masterInFlight \in Nat
    /\ masterTimers \in Nat
    /\ publicCalls \in 0..MaxPublicCalls

TypeInv ==
    /\ FlagsOK
    /\ DataOK
    /\ statusHandleLive => statusTimers >= 1
    /\ masterHandleLive => masterTimers >= 1

LEMMA TypeInvIsTypeOK == TypeInv => TypeOK
BY Zenon DEF TypeInv, FlagsOK, DataOK, TypeOK

LEMMA TypeInvInit == Init => TypeInv
<1> SUFFICES ASSUME Init PROVE TypeInv
  OBVIOUS
<1>1. FlagsOK
  BY Zenon DEF Init, FlagsOK
<1>2. DataOK
  BY BoundsAssumption DEF Init, DataOK, TableStates
<1>3. QED
  BY <1>1, <1>2 DEF Init, TypeInv

\* Every action keeps the flags Boolean.
LEMMA FlagsStep == FlagsOK /\ [Next]_vars => FlagsOK'
<1> SUFFICES ASSUME FlagsOK, [Next]_vars PROVE FlagsOK'
  OBVIOUS
<1> USE DEF FlagsOK
<1>1. CASE Initialize
  BY <1>1, Zenon DEF Initialize, UpdateStatus, QueryMaster
<1>2. CASE ServerChange
  BY <1>2, Zenon DEF ServerChange, statusVars, masterVars
<1>3. CASE StatusTimerFires
  <2> PICK live \in LiveAfterFire(statusTimers, statusHandleLive) :
             UpdateStatus(statusTimers - 1, live)
    BY <1>3 DEF StatusTimerFires
  <2>1. live \in BOOLEAN
    BY Zenon DEF LiveAfterFire
  <2>2. QED
    BY <1>3, <2>1, Zenon DEF StatusTimerFires, UpdateStatus, masterVars
<1>4. CASE PublicUpdateStatus
  BY <1>4, Zenon DEF PublicUpdateStatus, UpdateStatus, masterVars
<1>5. CASE StatusResponse
  BY <1>5, Zenon DEF StatusResponse, StatusReply, masterVars
<1>6. CASE MasterTimerFires
  BY <1>6, Zenon DEF MasterTimerFires, QueryMaster, statusVars
<1>7. CASE PublicQueryMaster
  BY <1>7, Zenon DEF PublicQueryMaster, QueryMaster, statusVars
<1>8. CASE MasterResponse
  <2>0. PICK k \in MasterReplies : MasterReply(k)
    BY <1>8 DEF MasterResponse
  <2>1. masterProblem' \in BOOLEAN
    <3>1. CASE k = "nullBody"
      BY <2>0, <3>1 DEF MasterReply
    <3>2. CASE k # "nullBody"
      BY <2>0, <3>2 DEF MasterReply
    <3>3. QED
      BY <3>1, <3>2
  <2>2. redirected' \in BOOLEAN
    BY <2>0 DEF MasterReply
  <2>3. masterHandleLive' \in BOOLEAN
    BY <2>0 DEF MasterReply
  <2>4. QED
    BY <1>8, <2>1, <2>2, <2>3, Zenon DEF MasterResponse, statusVars
<1>9. CASE UNCHANGED vars
  BY <1>9, Zenon DEF vars, statusVars, masterVars
<1>10. QED
  BY <1>1, <1>2, <1>3, <1>4, <1>5, <1>6, <1>7, <1>8, <1>9 DEF Next

(***************************************************************************)
(* updateStatus() and queryMaster(), called with t pending timers and a    *)
(* handle that names a pending timer only if t >= 1, leave a count of      *)
(* pending timers that is a natural number, and a live handle only with a  *)
(* pending timer.                                                          *)
(***************************************************************************)
LEMMA UpdateStatusData ==
    ASSUME DataOK, NEW t \in Nat, NEW live \in BOOLEAN, live => t >= 1,
           UpdateStatus(t, live)
    PROVE  /\ statusTimers' \in Nat
           /\ statusInFlight' \in Seq(0..MaxVersion)
           /\ statusHandleLive' => statusTimers' >= 1
<1>1. CASE /\ statusTimers' = t
           /\ statusHandleLive' = live
           /\ UNCHANGED statusInFlight
  BY <1>1 DEF DataOK
<1>2. CASE /\ statusTimers' = IF live THEN t - 1 ELSE t
           /\ statusHandleLive' = FALSE
           /\ statusInFlight' = Append(statusInFlight, srvVersion)
  BY <1>2 DEF DataOK
<1>3. QED
  BY <1>1, <1>2, Zenon DEF UpdateStatus

LEMMA QueryMasterData ==
    ASSUME NEW t \in Nat, NEW live \in BOOLEAN, live => t >= 1,
           masterInFlight \in Nat, QueryMaster(t, live)
    PROVE  /\ masterTimers' \in Nat
           /\ masterInFlight' \in Nat
           /\ masterHandleLive' => masterTimers' >= 1
BY DEF QueryMaster

\* A timer that fires leaves the handle live only if another timer is pending.
LEMMA LiveAfterFireFacts ==
    ASSUME NEW t \in Nat, NEW h \in BOOLEAN, t > 0, h => t >= 1,
           NEW live \in LiveAfterFire(t, h)
    PROVE  /\ live \in BOOLEAN
           /\ t - 1 \in Nat
           /\ live => t - 1 >= 1
<1>1. live \in BOOLEAN
  BY Zenon DEF LiveAfterFire
<1>2. live => (h /\ t > 1)
  BY Zenon DEF LiveAfterFire
<1>3. QED
  BY <1>1, <1>2

\* Every action keeps the counts, versions and sequences in their types.
LEMMA DataStep == FlagsOK /\ DataOK /\ (statusHandleLive => statusTimers >= 1)
                  /\ (masterHandleLive => masterTimers >= 1) /\ [Next]_vars
                  => /\ DataOK'
                     /\ statusHandleLive' => statusTimers' >= 1
                     /\ masterHandleLive' => masterTimers' >= 1
<1> SUFFICES ASSUME FlagsOK, DataOK, statusHandleLive => statusTimers >= 1,
                    masterHandleLive => masterTimers >= 1, [Next]_vars
             PROVE  /\ DataOK'
                    /\ statusHandleLive' => statusTimers' >= 1
                    /\ masterHandleLive' => masterTimers' >= 1
  OBVIOUS
<1> USE BoundsAssumption DEF DataOK, FlagsOK, TableStates
<1>1. CASE Initialize
  <2>1. /\ statusTimers' \in Nat
        /\ statusInFlight' \in Seq(0..MaxVersion)
        /\ statusHandleLive' => statusTimers' >= 1
    BY <1>1, UpdateStatusData DEF Initialize
  <2>2. /\ masterTimers' \in Nat
        /\ masterInFlight' \in Nat
        /\ masterHandleLive' => masterTimers' >= 1
    BY <1>1, QueryMasterData DEF Initialize
  <2>3. QED
    BY <1>1, <2>1, <2>2 DEF Initialize
<1>2. CASE ServerChange
  BY <1>2 DEF ServerChange, statusVars, masterVars
<1>3. CASE StatusTimerFires
  <2> PICK live \in LiveAfterFire(statusTimers, statusHandleLive) :
             UpdateStatus(statusTimers - 1, live)
    BY <1>3 DEF StatusTimerFires
  <2>1. /\ live \in BOOLEAN
        /\ statusTimers - 1 \in Nat
        /\ live => statusTimers - 1 >= 1
    BY <1>3, LiveAfterFireFacts DEF StatusTimerFires
  <2>2. /\ statusTimers' \in Nat
        /\ statusInFlight' \in Seq(0..MaxVersion)
        /\ statusHandleLive' => statusTimers' >= 1
    BY <2>1, UpdateStatusData
  <2>3. QED
    BY <1>3, <2>2 DEF StatusTimerFires, masterVars
<1>4. CASE PublicUpdateStatus
  <2>1. /\ statusTimers' \in Nat
        /\ statusInFlight' \in Seq(0..MaxVersion)
        /\ statusHandleLive' => statusTimers' >= 1
    BY <1>4, UpdateStatusData DEF PublicUpdateStatus
  <2>2. QED
    BY <1>4, <2>1 DEF PublicUpdateStatus, masterVars
<1>5. CASE StatusResponse
  <2> PICK i \in DOMAIN statusInFlight, k \in StatusReplies :
           \E v \in statusInFlight[i]..srvVersion :
             /\ StatusReply(i, k, v)
             /\ UNCHANGED <<loaded, srvVersion, masterVars, publicCalls>>
    BY <1>5 DEF StatusResponse
  <2> PICK v \in statusInFlight[i]..srvVersion :
             /\ StatusReply(i, k, v)
             /\ UNCHANGED <<loaded, srvVersion, masterVars, publicCalls>>
    OBVIOUS
  <2>1. i \in 1..Len(statusInFlight)
    OBVIOUS
  <2>2. RemoveIdx(statusInFlight, i) \in Seq(0..MaxVersion)
    BY <2>1, RemoveIdxType
  <2>3. v \in 0..MaxVersion
    OBVIOUS
  <2>4. QED
    BY <2>2, <2>3 DEF StatusReply, masterVars
<1>6. CASE MasterTimerFires
  <2> PICK live \in LiveAfterFire(masterTimers, masterHandleLive) :
             QueryMaster(masterTimers - 1, live)
    BY <1>6 DEF MasterTimerFires
  <2>1. /\ live \in BOOLEAN
        /\ masterTimers - 1 \in Nat
        /\ live => masterTimers - 1 >= 1
    BY <1>6, LiveAfterFireFacts DEF MasterTimerFires
  <2>2. /\ masterTimers' \in Nat
        /\ masterInFlight' \in Nat
        /\ masterHandleLive' => masterTimers' >= 1
    BY <2>1, QueryMasterData
  <2>3. QED
    BY <1>6, <2>2 DEF MasterTimerFires, statusVars
<1>7. CASE PublicQueryMaster
  BY <1>7 DEF PublicQueryMaster, QueryMaster, statusVars
<1>8. CASE MasterResponse
  BY <1>8 DEF MasterResponse, MasterReply, statusVars
<1>9. CASE UNCHANGED vars
  BY <1>9 DEF vars, statusVars, masterVars
<1>10. QED
  BY <1>1, <1>2, <1>3, <1>4, <1>5, <1>6, <1>7, <1>8, <1>9 DEF Next

LEMMA TypeInvStep == TypeInv /\ [Next]_vars => TypeInv'
BY FlagsStep, DataStep DEF TypeInv

(***************************************************************************)
(* Every reachable state of the page satisfies the type invariant.         *)
(***************************************************************************)
THEOREM TypeCorrect == Spec => []TypeOK
BY TypeInvInit, TypeInvStep, TypeInvIsTypeOK, PTL DEF Spec

-----------------------------------------------------------------------------
(***************************************************************************)
(* The status loop.  The theorem needs the server's get-status replies to  *)
(* be well formed: a reply that makes the success callback throw ends the  *)
(* loop (the run MCEgmiMain_malformed shows it).                           *)
(***************************************************************************)
WellFormedStatus == StatusReplies \cap {"noBricks", "nullBody"} = {}

(***************************************************************************)
(* The inductive invariant: the status loop is in one of the three states  *)
(* of the spec's state machine, not started, SCHEDULED (one timer pending  *)
(* and named by the handle) or REQUEST_IN_FLIGHT (one get-status pending   *)
(* and the in-flight flag set).  StatusLoopExactlyOne alone is not         *)
(* inductive: a public call while a timer is pending keeps the loop single *)
(* only because the handle names that timer, and one while a request is    *)
(* pending only because the flag is set.                                   *)
(***************************************************************************)
StatusNotStarted ==
    /\ ~loaded
    /\ statusInFlight = << >>
    /\ statusTimers = 0
    /\ ~statusHandleLive
    /\ ~inUpdateStatus

StatusScheduled ==
    /\ loaded
    /\ statusInFlight = << >>
    /\ statusTimers = 1
    /\ statusHandleLive
    /\ ~inUpdateStatus

StatusRequesting ==
    /\ loaded
    /\ Len(statusInFlight) = 1
    /\ statusTimers = 0
    /\ ~statusHandleLive
    /\ inUpdateStatus

StatusLoopInv == StatusNotStarted \/ StatusScheduled \/ StatusRequesting

StatusInv == TypeInv /\ StatusLoopInv

LEMMA StatusInvInit == Init => StatusInv
<1> SUFFICES ASSUME Init PROVE StatusInv
  OBVIOUS
<1>1. TypeInv
  BY TypeInvInit
<1>2. StatusNotStarted
  BY Zenon DEF Init, StatusNotStarted
<1>3. QED
  BY <1>1, <1>2 DEF StatusInv, StatusLoopInv

\* A step that leaves the status variables and loaded alone keeps StatusLoopInv.
LEMMA StatusLoopInvUnchanged ==
    ASSUME StatusLoopInv, UNCHANGED <<loaded, statusVars>>
    PROVE  StatusLoopInv'
BY Zenon DEF StatusLoopInv, StatusNotStarted, StatusScheduled, StatusRequesting, statusVars

\* updateStatus() sending get-status leaves the loop in REQUEST_IN_FLIGHT.
LEMMA SendLeavesRequesting ==
    ASSUME statusInFlight = << >>, loaded', NEW t, NEW live,
           UpdateStatus(t, live), ~inUpdateStatus, (IF live THEN t - 1 ELSE t) = 0
    PROVE  StatusRequesting'
<1>0. /\ inUpdateStatus' = TRUE
      /\ statusTimers' = (IF live THEN t - 1 ELSE t)
      /\ statusHandleLive' = FALSE
      /\ statusInFlight' = Append(statusInFlight, srvVersion)
  BY Zenon DEF UpdateStatus
<1>1. /\ inUpdateStatus' = TRUE
      /\ statusTimers' = 0
      /\ statusHandleLive' = FALSE
      /\ statusInFlight' = Append(statusInFlight, srvVersion)
  BY <1>0
<1>2. Len(statusInFlight') = 1
  BY <1>1
<1>3. QED
  BY <1>1, <1>2, Zenon DEF StatusRequesting

LEMMA StatusLoopInvStep ==
    ASSUME WellFormedStatus, TypeInv, StatusLoopInv, [Next]_vars
    PROVE  StatusLoopInv'
<1>1. CASE Initialize
  <2>1. StatusNotStarted
    BY <1>1, Zenon DEF Initialize, StatusLoopInv, StatusScheduled, StatusRequesting
  <2>2. StatusRequesting'
    BY <1>1, <2>1, SendLeavesRequesting, Zenon DEF Initialize, StatusNotStarted
  <2>3. QED
    BY <2>2 DEF StatusLoopInv
<1>2. CASE StatusTimerFires
  <2>1. StatusScheduled
    <3>1. statusTimers > 0
      BY <1>2, Zenon DEF StatusTimerFires
    <3>2. statusTimers # 0
      BY <3>1 DEF TypeInv, DataOK
    <3>3. QED
      BY <3>2, Zenon DEF StatusLoopInv, StatusNotStarted, StatusRequesting
  <2>2. LiveAfterFire(statusTimers, statusHandleLive) = {FALSE}
    BY <2>1 DEF StatusScheduled, LiveAfterFire
  <2>3. UpdateStatus(0, FALSE) /\ loaded' = loaded
    <3>1. PICK live \in LiveAfterFire(statusTimers, statusHandleLive) :
                 UpdateStatus(statusTimers - 1, live)
      BY <1>2 DEF StatusTimerFires
    <3>2. live = FALSE
      BY <3>1, <2>2
    <3>3. statusTimers - 1 = 0
      BY <2>1 DEF StatusScheduled
    <3>4. loaded' = loaded
      BY <1>2, Zenon DEF StatusTimerFires
    <3>5. QED
      BY <3>1, <3>2, <3>3, <3>4, Zenon
  <2>4. StatusRequesting'
    BY <2>1, <2>3, SendLeavesRequesting DEF StatusScheduled
  <2>5. QED
    BY <2>4 DEF StatusLoopInv
<1>3. CASE PublicUpdateStatus
  <2>1. UpdateStatus(statusTimers, statusHandleLive) /\ loaded' = loaded /\ loaded
    BY <1>3, Zenon DEF PublicUpdateStatus
  <2>2. CASE StatusRequesting
    <3>1. /\ statusTimers' = statusTimers
          /\ statusHandleLive' = statusHandleLive
          /\ UNCHANGED <<inUpdateStatus, statusInFlight>>
      <4>1. inUpdateStatus
        BY <2>2 DEF StatusRequesting
      <4>2. QED
        BY <2>1, <4>1, Zenon DEF UpdateStatus
    <3>2. StatusRequesting'
      BY <2>1, <2>2, <3>1 DEF StatusRequesting
    <3>3. QED
      BY <3>2 DEF StatusLoopInv
  <2>3. CASE StatusScheduled
    <3>0. (IF statusHandleLive THEN statusTimers - 1 ELSE statusTimers) = 0
      BY <2>3 DEF StatusScheduled
    <3>1. StatusRequesting'
      <4>1. statusInFlight = << >> /\ ~inUpdateStatus
        BY <2>3, Zenon DEF StatusScheduled
      <4>2. QED
        BY <2>1, <3>0, <4>1, SendLeavesRequesting
    <3>2. QED
      BY <3>1 DEF StatusLoopInv
  <2>4. QED
    BY <2>1, <2>2, <2>3, Zenon DEF StatusLoopInv, StatusNotStarted
<1>4. CASE StatusResponse
  <2>0. PICK i \in DOMAIN statusInFlight, k \in StatusReplies :
           \E v \in statusInFlight[i]..srvVersion :
             /\ StatusReply(i, k, v)
             /\ UNCHANGED <<loaded, srvVersion, masterVars, publicCalls>>
    BY <1>4 DEF StatusResponse
  <2>1. PICK v \in statusInFlight[i]..srvVersion :
             /\ StatusReply(i, k, v)
             /\ UNCHANGED <<loaded, srvVersion, masterVars, publicCalls>>
    BY <2>0
  <2>2. k \notin {"noBricks", "nullBody"}
    BY <2>0, WellFormedStatus DEF WellFormedStatus
  <2>3. StatusRequesting
    <3>1. statusInFlight # << >>
      BY <2>0
    <3>2. QED
      BY <3>1, Zenon DEF StatusLoopInv, StatusNotStarted, StatusScheduled
  <2>4. i = 1
    BY <2>0, <2>3 DEF StatusRequesting, TypeInv, DataOK
  <2>5. statusInFlight' = << >>
    BY <2>1, <2>3, <2>4 DEF StatusReply, RemoveIdx, StatusRequesting, TypeInv, DataOK
  <2>6. /\ statusTimers' = 1
        /\ statusHandleLive' = TRUE
        /\ inUpdateStatus' = FALSE
    BY <2>1, <2>2, <2>3 DEF StatusReply, StatusRequesting
  <2>7. StatusScheduled'
    BY <2>1, <2>3, <2>5, <2>6, Zenon DEF StatusScheduled, StatusRequesting
  <2>8. QED
    BY <2>7 DEF StatusLoopInv
<1>5. CASE ServerChange \/ MasterTimerFires \/ PublicQueryMaster \/ MasterResponse \/ UNCHANGED vars
  <2>1. UNCHANGED <<loaded, statusVars>>
    BY <1>5 DEF ServerChange, MasterTimerFires, PublicQueryMaster, MasterResponse, vars
  <2>2. QED
    BY <2>1, StatusLoopInvUnchanged
<1>6. QED
  BY <1>1, <1>2, <1>3, <1>4, <1>5 DEF Next

LEMMA StatusInvStep == WellFormedStatus /\ StatusInv /\ [Next]_vars => StatusInv'
BY TypeInvStep, StatusLoopInvStep DEF StatusInv

(***************************************************************************)
(* With well-formed get-status replies, a loaded page always has exactly   *)
(* one status poll outstanding (updateStatus and its callbacks, egmiMain.js *)
(* 321-370), whatever the public calls of updateStatus and their timing.   *)
(***************************************************************************)
THEOREM StatusLoopSingleAndAlive ==
    ASSUME WellFormedStatus PROVE Spec => []StatusLoopExactlyOne
<1>1. StatusInv => StatusLoopExactlyOne
  <2> SUFFICES ASSUME StatusInv, loaded PROVE Len(statusInFlight) + statusTimers = 1
    BY DEF StatusLoopExactlyOne
  <2>1. CASE StatusScheduled
    BY <2>1 DEF StatusScheduled
  <2>2. CASE StatusRequesting
    BY <2>2 DEF StatusRequesting
  <2>3. QED
    BY <2>1, <2>2, Zenon DEF StatusInv, StatusLoopInv, StatusNotStarted
<1>2. QED
  BY StatusInvInit, StatusInvStep, <1>1, PTL DEF Spec

-----------------------------------------------------------------------------
(***************************************************************************)
(* The status loop implements PollLoop.  The refinement mapping is the one *)
(* of StatusLoop in EgmiMain; AbsPhase and AbsSentAt name its two          *)
(* computed components.  Every step is matched using the three states of  *)
(* StatusLoopInv before and after it: a send is a Poll, a completion a     *)
(* Complete, a public call while a request is pending a stutter.           *)
(***************************************************************************)
AbsPhase == IF ~loaded THEN "off" ELSE IF inUpdateStatus THEN "polling" ELSE "waiting"
AbsSentAt == IF statusInFlight = << >> THEN 0 ELSE Head(statusInFlight)

\* A step that sends the first get-status of a poll is an abstract Poll.
LEMMA PollMatches ==
    ASSUME AbsPhase \in {"off", "waiting"}, AbsPhase' = "polling",
           AbsSentAt' = srvVersion, shownVersion' = shownVersion,
           srvVersion' = srvVersion
    PROVE  StatusLoop!Next
BY Zenon DEF StatusLoop!Next, StatusLoop!Poll, AbsPhase, AbsSentAt

\* A step that completes the pending get-status is an abstract Complete.
LEMMA CompleteMatches ==
    ASSUME NEW v \in AbsSentAt..srvVersion,
           AbsPhase = "polling", AbsPhase' = "waiting", AbsSentAt' = 0,
           shownVersion' \in {shownVersion, v}, srvVersion' = srvVersion
    PROVE  StatusLoop!Next
BY Zenon DEF StatusLoop!Next, StatusLoop!Complete, AbsPhase, AbsSentAt

\* A step that leaves the mapped state alone is an abstract stutter.
LEMMA StutterMatches ==
    ASSUME AbsPhase' = AbsPhase, AbsSentAt' = AbsSentAt,
           shownVersion' = shownVersion, srvVersion' = srvVersion
    PROVE  UNCHANGED StatusLoop!vars
BY Zenon DEF StatusLoop!vars, AbsPhase, AbsSentAt

\* The mapped state in each of the three states of the loop.
LEMMA NotStartedMaps == StatusNotStarted => AbsPhase = "off"
BY Zenon DEF StatusNotStarted, AbsPhase

LEMMA ScheduledMaps == StatusScheduled => AbsPhase = "waiting" /\ AbsSentAt = 0
BY Zenon DEF StatusScheduled, AbsPhase, AbsSentAt

LEMMA RequestingMaps ==
    ASSUME TypeInv, StatusRequesting
    PROVE  AbsPhase = "polling" /\ AbsSentAt = statusInFlight[1]
<1>1. AbsPhase = "polling"
  BY Zenon DEF StatusRequesting, AbsPhase
<1>2. statusInFlight # << >> /\ Head(statusInFlight) = statusInFlight[1]
  BY DEF StatusRequesting, TypeInv, DataOK
<1>3. QED
  BY <1>1, <1>2, Zenon DEF AbsSentAt

\* updateStatus() on an idle loop appends the server's version.
LEMMA SendAppends ==
    ASSUME NEW t, NEW live, UpdateStatus(t, live), ~inUpdateStatus
    PROVE  statusInFlight' = Append(statusInFlight, srvVersion) /\ inUpdateStatus'
BY Zenon DEF UpdateStatus

\* A send from an idle loop, mapped: the pending poll was sent at srvVersion.
LEMMA SendMaps ==
    ASSUME TypeInv, statusInFlight = << >>, loaded',
           statusInFlight' = Append(statusInFlight, srvVersion), inUpdateStatus'
    PROVE  AbsPhase' = "polling" /\ AbsSentAt' = srvVersion
<1>1. AbsPhase' = "polling"
  BY Zenon DEF AbsPhase
<1>2. statusInFlight' # << >> /\ Head(statusInFlight') = srvVersion
  BY DEF TypeInv, DataOK
<1>3. QED
  BY <1>1, <1>2, Zenon DEF AbsSentAt

LEMMA StatusRefinementStep ==
    ASSUME WellFormedStatus, StatusInv, StatusInv', [Next]_vars
    PROVE  [StatusLoop!Next]_StatusLoop!vars
<1>0. TypeInv /\ TypeInv'
  BY DEF StatusInv
<1>1. CASE Initialize
  <2>1. StatusNotStarted
    BY <1>1, Zenon DEF Initialize, StatusInv, StatusLoopInv, StatusScheduled, StatusRequesting
  <2>2. UpdateStatus(statusTimers, statusHandleLive) /\ loaded'
        /\ shownVersion' = shownVersion /\ srvVersion' = srvVersion
    BY <1>1, Zenon DEF Initialize
  <2>3. statusInFlight' = Append(statusInFlight, srvVersion) /\ inUpdateStatus'
    BY <2>1, <2>2, SendAppends DEF StatusNotStarted
  <2>4. AbsPhase' = "polling" /\ AbsSentAt' = srvVersion
    BY <1>0, <2>1, <2>2, <2>3, SendMaps DEF StatusNotStarted
  <2>5. QED
    BY <2>1, <2>2, <2>4, NotStartedMaps, PollMatches
<1>2. CASE StatusTimerFires
  <2>1. StatusScheduled
    <3>1. statusTimers # 0
      BY <1>0, <1>2 DEF StatusTimerFires, TypeInv, DataOK
    <3>2. QED
      BY <3>1, Zenon DEF StatusInv, StatusLoopInv, StatusNotStarted, StatusRequesting
  <2>2. PICK live \in LiveAfterFire(statusTimers, statusHandleLive) :
             UpdateStatus(statusTimers - 1, live)
    BY <1>2 DEF StatusTimerFires
  <2>3. loaded' = loaded /\ shownVersion' = shownVersion /\ srvVersion' = srvVersion
    BY <1>2, Zenon DEF StatusTimerFires
  <2>4. statusInFlight' = Append(statusInFlight, srvVersion) /\ inUpdateStatus'
    BY <2>1, <2>2, SendAppends DEF StatusScheduled
  <2>5. AbsPhase' = "polling" /\ AbsSentAt' = srvVersion
    BY <1>0, <2>1, <2>3, <2>4, SendMaps DEF StatusScheduled
  <2>6. QED
    BY <2>1, <2>3, <2>5, ScheduledMaps, PollMatches
<1>3. CASE PublicUpdateStatus
  <2>1. /\ UpdateStatus(statusTimers, statusHandleLive)
        /\ loaded' = loaded /\ loaded
        /\ shownVersion' = shownVersion /\ srvVersion' = srvVersion
    BY <1>3, Zenon DEF PublicUpdateStatus
  <2>2. CASE StatusRequesting
    <3>1. inUpdateStatus' = inUpdateStatus /\ statusInFlight' = statusInFlight
      BY <2>1, <2>2, Zenon DEF UpdateStatus, StatusRequesting
    <3>2. AbsPhase' = AbsPhase /\ AbsSentAt' = AbsSentAt
      BY <2>1, <3>1, Zenon DEF AbsPhase, AbsSentAt
    <3>3. QED
      BY <2>1, <3>2, StutterMatches
  <2>3. CASE StatusScheduled
    <3>1. statusInFlight' = Append(statusInFlight, srvVersion) /\ inUpdateStatus'
      BY <2>1, <2>3, SendAppends DEF StatusScheduled
    <3>2. AbsPhase' = "polling" /\ AbsSentAt' = srvVersion
      BY <1>0, <2>1, <2>3, <3>1, SendMaps DEF StatusScheduled
    <3>3. QED
      BY <2>1, <2>3, <3>2, ScheduledMaps, PollMatches
  <2>4. QED
    BY <2>1, <2>2, <2>3, Zenon DEF StatusInv, StatusLoopInv, StatusNotStarted
<1>4. CASE StatusResponse
  <2>1. PICK i \in DOMAIN statusInFlight, k \in StatusReplies :
           \E v \in statusInFlight[i]..srvVersion :
             /\ StatusReply(i, k, v)
             /\ UNCHANGED <<loaded, srvVersion, masterVars, publicCalls>>
    BY <1>4 DEF StatusResponse
  <2>2. PICK v \in statusInFlight[i]..srvVersion :
             /\ StatusReply(i, k, v)
             /\ UNCHANGED <<loaded, srvVersion, masterVars, publicCalls>>
    BY <2>1
  <2>3. k \notin {"noBricks", "nullBody"}
    BY <2>1 DEF WellFormedStatus
  <2>4. StatusRequesting
    <3>1. statusInFlight # << >>
      BY <2>1
    <3>2. QED
      BY <3>1, Zenon DEF StatusInv, StatusLoopInv, StatusNotStarted, StatusScheduled
  <2>5. i = 1
    BY <1>0, <2>1, <2>4 DEF StatusRequesting, TypeInv, DataOK
  <2>6. /\ inUpdateStatus' = FALSE
        /\ shownVersion' \in {shownVersion, v}
        /\ loaded' = loaded /\ srvVersion' = srvVersion
    BY <2>2, <2>3, Zenon DEF StatusReply
  <2>7. StatusScheduled'
    BY <2>4, <2>6, Zenon DEF StatusInv, StatusLoopInv, StatusNotStarted, StatusRequesting
  <2>8. AbsPhase' = "waiting" /\ AbsSentAt' = 0
    BY <2>7, Zenon DEF StatusScheduled, AbsPhase, AbsSentAt
  <2>9. v \in AbsSentAt..srvVersion
    BY <1>0, <2>4, <2>5, RequestingMaps
  <2>10. QED
    BY <1>0, <2>4, <2>6, <2>8, <2>9, RequestingMaps, CompleteMatches
<1>5. CASE ServerChange
  <2>1. /\ srvVersion < MaxVersion /\ srvVersion' = srvVersion + 1
        /\ UNCHANGED <<loaded, statusVars>>
    BY <1>5 DEF ServerChange
  <2>2. AbsPhase' = AbsPhase /\ AbsSentAt' = AbsSentAt /\ shownVersion' = shownVersion
    BY <2>1, Zenon DEF AbsPhase, AbsSentAt, statusVars
  <2>3. StatusLoop!Next
    BY <2>1, <2>2 DEF StatusLoop!Next, StatusLoop!ServerChange, AbsPhase, AbsSentAt
  <2>4. QED
    BY <2>3
<1>6. CASE MasterTimerFires \/ PublicQueryMaster \/ MasterResponse \/ UNCHANGED vars
  <2>1. UNCHANGED <<loaded, srvVersion, statusVars>>
    BY <1>6 DEF MasterTimerFires, PublicQueryMaster, MasterResponse, vars
  <2>2. AbsPhase' = AbsPhase /\ AbsSentAt' = AbsSentAt
    BY <2>1, Zenon DEF AbsPhase, AbsSentAt, statusVars
  <2>3. QED
    BY <2>1, <2>2, StutterMatches DEF statusVars
<1>7. QED
  BY <1>1, <1>2, <1>3, <1>4, <1>5, <1>6 DEF Next

(***************************************************************************)
(* With well-formed get-status replies the status loop of egmiMain.js      *)
(* (updateStatus and its callbacks, lines 321-370) implements the abstract *)
(* poller PollLoop for every value of the constants: polls never overlap,  *)
(* and each redraw shows a state the server had while its poll pended.     *)
(***************************************************************************)
THEOREM StatusLoopRefinement ==
    ASSUME WellFormedStatus PROVE Spec => StatusLoopRefines
<1>1. Init => StatusLoop!Init
  BY Zenon DEF Init, StatusLoop!Init
<1>2. StatusInv /\ StatusInv' /\ [Next]_vars => [StatusLoop!Next]_StatusLoop!vars
  BY StatusRefinementStep
<1>3. QED
  BY <1>1, <1>2, StatusInvInit, StatusInvStep, PTL DEF Spec, StatusLoopRefines, StatusLoop!Spec

-----------------------------------------------------------------------------
(***************************************************************************)
(* The master loop.  It needs the get-master replies to be well formed: a  *)
(* null body makes the success callback throw before it reschedules.      *)
(* MasterLoopAlive is inductive relative to the type invariant: every      *)
(* queryMaster() sends a request, and every completion that does not throw *)
(* replaces the request by a timer.                                        *)
(***************************************************************************)
WellFormedMaster == "nullBody" \notin MasterReplies

\* A successor plus a natural number is at least one.
LEMMA SuccPlusNat ==
    ASSUME NEW a \in Nat, NEW b \in Nat, NEW c, c = a + 1 PROVE c + b >= 1
  OBVIOUS

LEMMA MasterAliveStep ==
    ASSUME WellFormedMaster, TypeInv, TypeInv', MasterLoopAlive, [Next]_vars
    PROVE  MasterLoopAlive'
<1>0. masterInFlight \in Nat /\ masterTimers' \in Nat /\ masterInFlight' \in Nat
  BY DEF TypeInv, DataOK
<1>1. CASE Initialize \/ PublicQueryMaster
  <2>1. QueryMaster(masterTimers, masterHandleLive)
    BY <1>1, Zenon DEF Initialize, PublicQueryMaster
  <2>2. masterInFlight' = masterInFlight + 1
    BY <2>1, Zenon DEF QueryMaster
  <2>4. masterInFlight' + masterTimers' >= 1
    BY <1>0, <2>2, SuccPlusNat
  <2>3. QED
    BY <2>4, Zenon DEF MasterLoopAlive
<1>2. CASE MasterTimerFires
  <2>1. PICK live \in LiveAfterFire(masterTimers, masterHandleLive) :
             QueryMaster(masterTimers - 1, live)
    BY <1>2 DEF MasterTimerFires
  <2>2. masterInFlight' = masterInFlight + 1
    BY <2>1, Zenon DEF QueryMaster
  <2>4. masterInFlight' + masterTimers' >= 1
    BY <1>0, <2>2, SuccPlusNat
  <2>3. QED
    BY <2>4, Zenon DEF MasterLoopAlive
<1>3. CASE MasterResponse
  <2>1. PICK k \in MasterReplies : MasterReply(k)
    BY <1>3 DEF MasterResponse
  <2>2. k # "nullBody"
    BY <2>1 DEF WellFormedMaster
  <2>3. masterInFlight' = masterInFlight - 1 /\ masterTimers' = masterTimers + 1
    BY <2>1, <2>2, Zenon DEF MasterReply
  <2>4. loaded' = loaded
    BY <1>3 DEF MasterResponse
  <2>5. loaded' => masterInFlight + masterTimers >= 1
    BY <2>4, Zenon DEF MasterLoopAlive
  <2>6. masterInFlight' + masterTimers' = masterInFlight + masterTimers
    BY <1>0, <2>3 DEF TypeInv, DataOK
  <2>7. QED
    BY <2>5, <2>6, Zenon DEF MasterLoopAlive
<1>4. CASE ServerChange \/ StatusTimerFires \/ PublicUpdateStatus \/ StatusResponse \/ UNCHANGED vars
  <2>1. UNCHANGED <<loaded, masterInFlight, masterTimers>>
    BY <1>4 DEF ServerChange, StatusTimerFires, PublicUpdateStatus, StatusResponse, vars, masterVars
  <2>2. QED
    BY <2>1 DEF MasterLoopAlive
<1>5. QED
  BY <1>1, <1>2, <1>3, <1>4 DEF Next

(***************************************************************************)
(* With well-formed get-master replies, a loaded page never stops checking *)
(* the master (queryMaster and its callbacks, egmiMain.js 373-426): a      *)
(* get-master is in flight or a queryMaster timer is pending, whatever the *)
(* public calls of queryMaster.                                            *)
(***************************************************************************)
THEOREM MasterLoopNeverStops ==
    ASSUME WellFormedMaster PROVE Spec => []MasterLoopAlive
<1>1. Init => MasterLoopAlive
  BY DEF Init, MasterLoopAlive
<1>2. TypeInv /\ MasterLoopAlive /\ [Next]_vars => TypeInv' /\ MasterLoopAlive'
  BY TypeInvStep, MasterAliveStep
<1>3. QED
  BY <1>1, <1>2, TypeInvInit, PTL DEF Spec


-----------------------------------------------------------------------------
(***************************************************************************)
(* The display of the status loop never regresses, carried over from the  *)
(* abstract poller: PollLoopProofs proves it of PollLoop, and the status   *)
(* loop implements PollLoop under the mapping of StatusLoop, which this    *)
(* instance repeats.                                                       *)
(***************************************************************************)
StatusLoopProofs == INSTANCE PollLoopProofs WITH
    phase  <- IF ~loaded THEN "off" ELSE IF inUpdateStatus THEN "polling" ELSE "waiting",
    sentAt <- IF statusInFlight = << >> THEN 0 ELSE Head(statusInFlight),
    shown  <- shownVersion,
    srv    <- srvVersion

\* A step that leaves the mapped state alone leaves shownVersion alone.
LEMMA MappedStutterKeepsShown ==
    ASSUME TypeOK, [shownVersion' >= shownVersion]_StatusLoop!vars
    PROVE  [shownVersion' >= shownVersion]_vars
<1>1. CASE shownVersion' >= shownVersion
  BY <1>1
<1>2. CASE UNCHANGED StatusLoop!vars
  <2>1. shownVersion' = shownVersion /\ shownVersion \in Nat
    BY <1>2 DEF StatusLoop!vars, TypeOK
  <2>2. QED
    BY <2>1
<1>3. QED
  BY <1>1, <1>2

(***************************************************************************)
(* With well-formed get-status replies the status tables of egmiMain.js    *)
(* never show an older server state than the one they show: updateStatus's *)
(* in-flight flag keeps get-status requests from overlapping, and a reply  *)
(* carries a state from after its request was sent.                        *)
(***************************************************************************)
THEOREM StatusNeverRegressesThm ==
    ASSUME WellFormedStatus PROVE Spec => StatusNeverRegresses
<1>1. Spec => StatusLoop!Spec
  BY StatusLoopRefinement DEF StatusLoopRefines
<1>2. StatusLoop!Spec => [][shownVersion' >= shownVersion]_StatusLoop!vars
  BY StatusLoopProofs!ShownMonotone DEF StatusLoopProofs!Spec, StatusLoop!Spec,
     StatusLoopProofs!Init, StatusLoop!Init, StatusLoopProofs!Next, StatusLoop!Next,
     StatusLoopProofs!vars, StatusLoop!vars, StatusLoopProofs!Poll, StatusLoop!Poll,
     StatusLoopProofs!Complete, StatusLoop!Complete,
     StatusLoopProofs!ServerChange, StatusLoop!ServerChange
<1>3. TypeOK /\ [shownVersion' >= shownVersion]_StatusLoop!vars
        => [shownVersion' >= shownVersion]_vars
  BY MappedStutterKeepsShown
<1>4. QED
  BY <1>1, <1>2, <1>3, TypeCorrect, PTL DEF StatusNeverRegresses

=============================================================================
