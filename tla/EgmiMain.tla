------------------------------ MODULE EgmiMain ------------------------------
(***************************************************************************)
(* The main controller of the console page (egmiMain.js, egmi.Main): the   *)
(* status polling loop (updateStatus) and the master polling loop          *)
(* (queryMaster).                                                          *)
(*                                                                         *)
(* Each loop is a chain "call -> HTTP request -> callback -> setTimeout -> *)
(* call".  The browser runs one callback at a time, so every action below  *)
(* is one whole callback (a timer firing, an HTTP completion, the page     *)
(* load callback, or a call of the public methods this.updateStatus and    *)
(* this.queryMaster made by another script of the page).                   *)
(*                                                                         *)
(* The server is abstracted to a version number of its cluster status; a   *)
(* get-status reply carries the version the server had at some moment      *)
(* between the request being sent and the reply being delivered.  Replies  *)
(* are abstracted to their kind: the branch of the callback they take.     *)
(***************************************************************************)
EXTENDS Naturals, Sequences

CONSTANTS
    MaxVersion,      \* bound on the number of server status changes
    MaxPublicCalls,  \* bound on calls of the public methods by other scripts
    StatusReplies,   \* kinds of get-status reply the server may send
    MasterReplies    \* kinds of get-master reply the server may send

(***************************************************************************)
(* Every way a get-status request can complete (updateStatus, lines        *)
(* 339-368):                                                               *)
(*   "ok"         data.clear falsy, well formed: tables rendered;          *)
(*   "clearInit"  data.clear is "init" or "initialzing": empty tables;     *)
(*   "clearOther" any other data.clear: tables left as they are;           *)
(*   "error"      the error callback (HTTP or JSON parse failure);         *)
(*   "noBricks"   a volume without a bricks array: renderVolumeStatus      *)
(*                throws at volume.bricks.length after the volume table    *)
(*                has been cleared;                                        *)
(*   "nullBody"   the JSON body null: data.clear throws at once.           *)
(***************************************************************************)
AllStatusReplies == {"ok", "clearInit", "clearOther", "error", "noBricks", "nullBody"}

(***************************************************************************)
(* Every way a get-master request can complete (queryMaster, 385-424):     *)
(*   "clear"       data.clear set;                                         *)
(*   "isMaster"    data.master true;                                       *)
(*   "otherMaster" not master, master_url set and not the page's href;     *)
(*   "sameUrl"     not master, master_url set and equal to the href;       *)
(*   "noUrl"       not master, master_url absent or blank;                 *)
(*   "error"       the error callback;                                     *)
(*   "nullBody"    the JSON body null: data.clear throws at once.          *)
(***************************************************************************)
AllMasterReplies == {"clear", "isMaster", "otherMaster", "sameUrl", "noUrl", "error", "nullBody"}

ASSUME BoundsAssumption ==
    /\ MaxVersion \in Nat
    /\ MaxPublicCalls \in Nat

ASSUME RepliesAssumption ==
    /\ StatusReplies \subseteq AllStatusReplies
    /\ MasterReplies \subseteq AllMasterReplies

VARIABLES
    loaded,            \* the load callback of initialize() has run
    srvVersion,        \* version of the cluster status on the server
    inUpdateStatus,    \* the in-flight flag of updateStatus
    statusInFlight,    \* server version at the sending of each pending get-status
    statusTimers,      \* number of pending updateStatus timers
    statusHandleLive,  \* statusUpdateTimeoutHandler names a pending timer
    tables,            \* what the node and volume tables show
    shownVersion,      \* server version of the status the tables were last drawn from
    masterInFlight,    \* number of pending get-master requests
    masterTimers,      \* number of pending queryMaster timers
    masterHandleLive,  \* masterQueryTimeoutHandler names a pending timer
    masterProblem,     \* #master-problem is displayed
    redirected,        \* window.location has been assigned a master URL
    publicCalls        \* calls of the public methods made so far

statusVars == <<inUpdateStatus, statusInFlight, statusTimers, statusHandleLive, tables, shownVersion>>
masterVars == <<masterInFlight, masterTimers, masterHandleLive, masterProblem, redirected>>
vars == <<loaded, srvVersion, publicCalls, statusVars, masterVars>>

TableStates == {"template", "empty", "data", "partial"}

TypeOK ==
    /\ loaded \in BOOLEAN
    /\ srvVersion \in 0..MaxVersion
    /\ inUpdateStatus \in BOOLEAN
    /\ statusInFlight \in Seq(0..MaxVersion)
    /\ statusTimers \in Nat
    /\ statusHandleLive \in BOOLEAN
    /\ tables \in TableStates
    /\ shownVersion \in 0..MaxVersion
    /\ masterInFlight \in Nat
    /\ masterTimers \in Nat
    /\ masterHandleLive \in BOOLEAN
    /\ masterProblem \in BOOLEAN
    /\ redirected \in BOOLEAN
    /\ publicCalls \in 0..MaxPublicCalls

\* The sequence s without its i-th element.
RemoveIdx(s, i) == [j \in 1..(Len(s) - 1) |-> IF j < i THEN s[j] ELSE s[j + 1]]

(***************************************************************************)
(* The page before the load callback of initialize() has run: no request,  *)
(* no timer, the tables as in the HTML template.                           *)
(***************************************************************************)
Init ==
    /\ loaded = FALSE
    /\ srvVersion = 0
    /\ inUpdateStatus = FALSE
    /\ statusInFlight = << >>
    /\ statusTimers = 0
    /\ statusHandleLive = FALSE
    /\ tables = "template"
    /\ shownVersion = 0
    /\ masterInFlight = 0
    /\ masterTimers = 0
    /\ masterHandleLive = FALSE
    /\ masterProblem = FALSE
    /\ redirected = FALSE
    /\ publicCalls = 0

\* Mutant: clearTimeout counted even when the handle names no pending timer.
UpdateStatusNoHandleCheck(t, live) ==
    \/ /\ inUpdateStatus
       /\ statusTimers' = t
       /\ statusHandleLive' = live
       /\ UNCHANGED <<inUpdateStatus, statusInFlight>>
    \/ /\ ~inUpdateStatus
       /\ inUpdateStatus' = TRUE
       /\ statusTimers' = t - 1
       /\ statusHandleLive' = FALSE
       /\ statusInFlight' = Append(statusInFlight, srvVersion)

\* Mutant: the in-flight flag is set but not tested.
UpdateStatusNoGuard(t, live) ==
    /\ inUpdateStatus' = TRUE
    /\ statusTimers' = IF live THEN t - 1 ELSE t
    /\ statusHandleLive' = FALSE
    /\ statusInFlight' = Append(statusInFlight, srvVersion)

(***************************************************************************)
(* updateStatus() called while t status timers are pending and the handle  *)
(* names a pending one iff live: dropped when a request is in flight;      *)
(* otherwise it sets the flag, clears the timer of the handle and sends    *)
(* get-status.                                                             *)
(***************************************************************************)
UpdateStatus(t, live) ==
    \/ /\ inUpdateStatus
       /\ statusTimers' = t
       /\ statusHandleLive' = live
       /\ UNCHANGED <<inUpdateStatus, statusInFlight>>
    \/ /\ ~inUpdateStatus
       /\ inUpdateStatus' = TRUE
       /\ statusTimers' = IF live THEN t - 1 ELSE t
       /\ statusHandleLive' = FALSE
       /\ statusInFlight' = Append(statusInFlight, srvVersion)

(***************************************************************************)
(* queryMaster() called while t master timers are pending: it clears the   *)
(* timer of the handle and sends get-master.  It has no in-flight flag.    *)
(***************************************************************************)
QueryMaster(t, live) ==
    /\ masterTimers' = IF live THEN t - 1 ELSE t
    /\ masterHandleLive' = FALSE
    /\ masterInFlight' = masterInFlight + 1

\* The handle liveness after one of t pending timers fires.
LiveAfterFire(t, live) == IF live /\ t > 1 THEN {TRUE, FALSE} ELSE {FALSE}

(***************************************************************************)
(* The load callback of initialize(): the sub-components are created (see  *)
(* the other modules), then updateStatus() and queryMaster() are called.   *)
(***************************************************************************)
Initialize ==
    /\ ~loaded
    /\ loaded' = TRUE
    /\ UpdateStatus(statusTimers, statusHandleLive)
    /\ QueryMaster(masterTimers, masterHandleLive)
    /\ UNCHANGED <<srvVersion, tables, shownVersion, masterProblem, redirected, publicCalls>>

\* The cluster status changes on the server.
ServerChange ==
    /\ srvVersion < MaxVersion
    /\ srvVersion' = srvVersion + 1
    /\ UNCHANGED <<loaded, publicCalls, statusVars, masterVars>>

\* Mutant: a timer fires only while another one is pending too.
StatusTimerFiresLate ==
    /\ statusTimers > 1
    /\ \E live \in LiveAfterFire(statusTimers, statusHandleLive) :
          UpdateStatus(statusTimers - 1, live)
    /\ UNCHANGED <<loaded, srvVersion, tables, shownVersion, masterVars, publicCalls>>

\* A pending updateStatus timer fires and runs updateStatus().
StatusTimerFires ==
    /\ statusTimers > 0
    /\ \E live \in LiveAfterFire(statusTimers, statusHandleLive) :
          UpdateStatus(statusTimers - 1, live)
    /\ UNCHANGED <<loaded, srvVersion, tables, shownVersion, masterVars, publicCalls>>

\* Another script of the page calls egmiMain.updateStatus().
PublicUpdateStatus ==
    /\ loaded
    /\ publicCalls < MaxPublicCalls
    /\ publicCalls' = publicCalls + 1
    /\ UpdateStatus(statusTimers, statusHandleLive)
    /\ UNCHANGED <<loaded, srvVersion, tables, shownVersion, masterVars>>

(***************************************************************************)
(* The i-th pending get-status completes with a reply of kind k computed   *)
(* by the server at version v.  Every branch but the two that throw sets   *)
(* a new timer and resets the in-flight flag.                              *)
(***************************************************************************)
StatusReply(i, k, v) ==
    /\ statusInFlight' = RemoveIdx(statusInFlight, i)
    /\ tables' = CASE k = "ok"       -> "data"
                   [] k = "clearInit" -> "empty"
                   [] k = "noBricks"  -> "partial"
                   [] OTHER           -> tables
    /\ shownVersion' = IF k \in {"ok", "clearInit"} THEN v ELSE shownVersion
    /\ IF k \in {"noBricks", "nullBody"}
          THEN UNCHANGED <<statusTimers, statusHandleLive, inUpdateStatus>>
          ELSE /\ statusTimers' = statusTimers + 1
               /\ statusHandleLive' = TRUE
               /\ inUpdateStatus' = FALSE

StatusResponse ==
    \E i \in DOMAIN statusInFlight, k \in StatusReplies :
       \E v \in statusInFlight[i]..srvVersion :
          /\ StatusReply(i, k, v)
          /\ UNCHANGED <<loaded, srvVersion, masterVars, publicCalls>>

\* A pending queryMaster timer fires and runs queryMaster().
MasterTimerFires ==
    /\ masterTimers > 0
    /\ \E live \in LiveAfterFire(masterTimers, masterHandleLive) :
          QueryMaster(masterTimers - 1, live)
    /\ UNCHANGED <<loaded, srvVersion, statusVars, masterProblem, redirected, publicCalls>>

\* Another script of the page calls egmiMain.queryMaster().
PublicQueryMaster ==
    /\ loaded
    /\ publicCalls < MaxPublicCalls
    /\ publicCalls' = publicCalls + 1
    /\ QueryMaster(masterTimers, masterHandleLive)
    /\ UNCHANGED <<loaded, srvVersion, statusVars, masterProblem, redirected>>

\* Mutant: the error callback of queryMaster does not reschedule.
MasterReplyNoRetryOnError(k) ==
    /\ masterInFlight' = masterInFlight - 1
    /\ masterProblem' = IF k = "nullBody" THEN masterProblem
                        ELSE k \in {"clear", "noUrl", "error"}
    /\ redirected' = (redirected \/ k = "otherMaster")
    /\ IF k \in {"nullBody", "error"}
          THEN UNCHANGED <<masterTimers, masterHandleLive>>
          ELSE /\ masterTimers' = masterTimers + 1
               /\ masterHandleLive' = TRUE

(***************************************************************************)
(* A pending get-master completes with a reply of kind k: #master-problem  *)
(* is shown or hidden, the page navigates to another master's URL, and a   *)
(* new timer is set unless the callback threw.                             *)
(***************************************************************************)
MasterReply(k) ==
    /\ masterInFlight' = masterInFlight - 1
    /\ masterProblem' = IF k = "nullBody" THEN masterProblem
                        ELSE k \in {"clear", "noUrl", "error"}
    /\ redirected' = (redirected \/ k = "otherMaster")
    /\ IF k = "nullBody"
          THEN UNCHANGED <<masterTimers, masterHandleLive>>
          ELSE /\ masterTimers' = masterTimers + 1
               /\ masterHandleLive' = TRUE

MasterResponse ==
    /\ masterInFlight > 0
    /\ \E k \in MasterReplies : MasterReply(k)
    /\ UNCHANGED <<loaded, srvVersion, statusVars, publicCalls>>

Next ==
    \/ Initialize
    \/ ServerChange
    \/ StatusTimerFires
    \/ PublicUpdateStatus
    \/ StatusResponse
    \/ MasterTimerFires
    \/ PublicQueryMaster
    \/ MasterResponse

Spec == Init /\ [][Next]_vars

(***************************************************************************)
(* The browser fires every pending timer and the template load completes.  *)
(* get-status and get-master are sent with a plain $.ajax, without a       *)
(* timeout: that they are answered is an assumption on the server and the  *)
(* network, not something the code enforces.  Under it those steps are     *)
(* weakly fair.  Server changes and public calls are never forced.         *)
(***************************************************************************)
Fairness ==
    /\ WF_vars(Initialize)
    /\ WF_vars(StatusTimerFires)
    /\ WF_vars(StatusResponse)
    /\ WF_vars(MasterTimerFires)
    /\ WF_vars(MasterResponse)

FairSpec == Spec /\ Fairness

(***************************************************************************)
(* The status loop seen as the poller of PollLoop: not started before the  *)
(* load callback, polling while the in-flight flag is set, waiting         *)
(* otherwise; the pending poll was sent at the version of the first        *)
(* pending get-status.  Timer counts and the handle are hidden.            *)
(***************************************************************************)
StatusLoop == INSTANCE PollLoop WITH
    phase  <- IF ~loaded THEN "off" ELSE IF inUpdateStatus THEN "polling" ELSE "waiting",
    sentAt <- IF statusInFlight = << >> THEN 0 ELSE Head(statusInFlight),
    shown  <- shownVersion,
    srv    <- srvVersion

-----------------------------------------------------------------------------
(***************************************************************************)
(* Properties.                                                             *)
(***************************************************************************)

(***************************************************************************)
(* Once the page is initialized there is exactly one status poll           *)
(* outstanding, a get-status in flight or an updateStatus timer pending:   *)
(* the in-flight flag and the clearTimeout of updateStatus keep calls of   *)
(* the public method from starting a second loop, and every completion of *)
(* the request reschedules it, so the loop neither doubles nor dies.       *)
(***************************************************************************)
StatusLoopExactlyOne ==
    loaded => Len(statusInFlight) + statusTimers = 1

(***************************************************************************)
(* The tables never go back to an older server status than the one they   *)
(* show: a get-status reply is never applied after a reply computed later.*)
(***************************************************************************)
StatusNeverRegresses ==
    [][shownVersion' >= shownVersion]_vars

(***************************************************************************)
(* Once the page is initialized the master poll never stops: a get-master  *)
(* is in flight or a queryMaster timer is pending, whatever well-formed    *)
(* replies arrive and whatever public calls are made.                      *)
(***************************************************************************)
MasterLoopAlive ==
    loaded => masterInFlight + masterTimers >= 1

(***************************************************************************)
(* The status loop implements the abstract poller: updateStatus, its flag  *)
(* and its two callbacks never let two polls overlap, never skip the       *)
(* reschedule, and every redraw shows a state the server had while the     *)
(* poll that drew it was pending.                                          *)
(***************************************************************************)
StatusLoopRefines == StatusLoop!Spec

(***************************************************************************)
(* Once loaded, the page sends get-status again and again: the timers fire *)
(* and each completion reschedules, so the status tables keep refreshing.  *)
(***************************************************************************)
StatusPollsForever ==
    []<>(statusInFlight # << >>)

(***************************************************************************)
(* The page sends get-master again and again: the master check never       *)
(* stops, so a change of master is always eventually followed.            *)
(***************************************************************************)
MasterPollsForever ==
    []<>(masterInFlight > 0)

=============================================================================
