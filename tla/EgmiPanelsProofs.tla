-------------------------- MODULE EgmiPanelsProofs --------------------------
(***************************************************************************)
(* Proofs about the node and volume panels (EgmiPanels), for every value   *)
(* of the constants.                                                       *)
(***************************************************************************)
EXTENDS EgmiPanels, TLAPS

\* The actions of Next, one panel or one reply at a time.
PanelAction(p) ==
    \/ TemplateLoad(p) \/ ShowEdition(p) \/ HideEdition(p)
    \/ \E v \in FieldValues : EditField(p, v)
    \/ Submit(p) \/ CreateResponse(p)

DialogAction ==
    ShowActionConfirm \/ CancelAction \/ ConfirmAction \/ ActionResponse \/ Reload

LEMMA NextSplit ==
    Next => (\E p \in Panels : PanelAction(p)) \/ DialogAction
BY DEF Next, PanelAction, DialogAction, NodeInitialize, VolumeInitialize,
       ShowNodeEdition, ShowVolumeEdition, SubmitNode, SubmitVolume,
       NodeCreateResponse, VolumeCreateResponse, Panels

-----------------------------------------------------------------------------
(***************************************************************************)
(* Type correctness.  TypeOK is inductive by itself: a completion is only  *)
(* taken with a request pending, so the counts stay natural numbers.       *)
(***************************************************************************)
LEMMA TypeInit == Init => TypeOK
<1> SUFFICES ASSUME Init PROVE TypeOK
  OBVIOUS
<1>1. /\ modalOpen \in [Panels -> BOOLEAN]
      /\ disabled \in [Panels -> BOOLEAN]
      /\ overlay \in [Panels -> BOOLEAN]
      /\ leaving \in BOOLEAN
  BY Zenon DEF Init
<1>2. /\ template \in [Panels -> {"loading", "loaded", "failed"}]
      /\ field \in [Panels -> FieldValues]
      /\ inFlight \in [Panels -> Nat]
      /\ dialog \in {"closed", "confirm", "running"}
      /\ actionInFlight \in Nat
      /\ sent \in 0..MaxRequests
  BY PanelsAssumption DEF Init, FieldValues
<1>3. QED
  BY <1>1, <1>2 DEF TypeOK

LEMMA TypePanelStep ==
    ASSUME TypeOK, NEW p \in Panels, PanelAction(p) PROVE TypeOK'
<1>1. CASE TemplateLoad(p)
  BY <1>1 DEF TemplateLoad, TypeOK
<1>2. CASE ShowEdition(p)
  BY <1>2 DEF ShowEdition, TypeOK, FieldValues
<1>3. CASE HideEdition(p)
  BY <1>3 DEF HideEdition, TypeOK
<1>4. CASE \E v \in FieldValues : EditField(p, v)
  BY <1>4 DEF EditField, TypeOK
<1>5. CASE Submit(p)
  BY <1>5, PanelsAssumption DEF Submit, TypeOK
<1>6. CASE CreateResponse(p)
  <2>1. PICK k \in Replies : CreateReply(p, k)
    BY <1>6 DEF CreateResponse
  <2>2. inFlight' \in [Panels -> Nat]
    BY <1>6, <2>1 DEF CreateResponse, CreateReply, TypeOK
  <2>3. leaving' \in BOOLEAN
    BY <2>1 DEF CreateReply, ErrorHandler, TypeOK
  <2>4. /\ modalOpen' \in [Panels -> BOOLEAN]
        /\ disabled' \in [Panels -> BOOLEAN]
        /\ overlay' \in [Panels -> BOOLEAN]
    BY <2>1 DEF CreateReply, TypeOK
  <2>5. QED
    BY <1>6, <2>2, <2>3, <2>4 DEF CreateResponse, TypeOK
<1>7. QED
  BY <1>1, <1>2, <1>3, <1>4, <1>5, <1>6 DEF PanelAction

LEMMA TypeDialogStep ==
    ASSUME TypeOK, DialogAction PROVE TypeOK'
<1>1. CASE ShowActionConfirm \/ CancelAction
  BY <1>1 DEF ShowActionConfirm, CancelAction, TypeOK
<1>2. CASE ConfirmAction
  BY <1>2, PanelsAssumption DEF ConfirmAction, TypeOK
<1>3. CASE ActionResponse
  BY <1>3 DEF ActionResponse, ActionReply, ErrorHandler, TypeOK
<1>4. CASE Reload
  BY <1>4 DEF Reload, TypeOK, FieldValues
<1>5. QED
  BY <1>1, <1>2, <1>3, <1>4 DEF DialogAction

LEMMA TypeStep == TypeOK /\ [Next]_vars => TypeOK'
<1> SUFFICES ASSUME TypeOK, [Next]_vars PROVE TypeOK'
  OBVIOUS
<1>1. CASE Next
  BY <1>1, NextSplit, TypePanelStep, TypeDialogStep
<1>2. CASE UNCHANGED vars
  BY <1>2 DEF vars, TypeOK
<1>3. QED
  BY <1>1, <1>2

(***************************************************************************)
(* Every state of the panels and the action dialog is well typed.          *)
(***************************************************************************)
THEOREM TypeCorrect == Spec => []TypeOK
BY TypeInit, TypeStep, PTL DEF Spec


-----------------------------------------------------------------------------
(***************************************************************************)
(* The overlay and the pending POSTs.  The result holds for both values of *)
(* InputUnderOverlay: the user may reach the form under the overlay, edit  *)
(* the field (which enables the button again) and submit a second time.    *)
(* It needs the replies to be well formed: a null body makes the success   *)
(* callback throw before it hides the overlay (run panels_nullbody).       *)
(* OverlayOnlyWhilePosting is inductive relative to TypeOK: submitX()      *)
(* shows the overlay and adds a POST, every other completion hides it, and *)
(* a reload resets both.                                                   *)
(***************************************************************************)
WellFormedReplies == "nullBody" \notin Replies

PanelOK(q) == overlay[q] => inFlight[q] > 0

PanelInv == TypeOK /\ \A q \in Panels : PanelOK(q)

LEMMA PanelInvInit == Init => PanelInv
<1> SUFFICES ASSUME Init PROVE PanelInv
  OBVIOUS
<1>1. \A q \in Panels : PanelOK(q)
  BY DEF Init, PanelOK
<1>2. QED
  BY <1>1, TypeInit DEF PanelInv

\* An action of panel p leaves the overlay and the POSTs of the other panel alone.
LEMMA OtherPanelUnchanged ==
    ASSUME TypeOK, NEW p \in Panels, NEW q \in Panels, q # p, PanelAction(p),
           PanelOK(q)
    PROVE  PanelOK(q)'
<1>1. overlay'[q] = overlay[q] /\ inFlight'[q] = inFlight[q]
  <2>1. CASE CreateResponse(p)
    <3>1. PICK k \in Replies : CreateReply(p, k)
      BY <2>1 DEF CreateResponse
    <3>2. QED
      BY <3>1 DEF CreateReply, TypeOK
  <2>2. CASE ~CreateResponse(p)
    BY <2>2 DEF PanelAction, TemplateLoad, ShowEdition, HideEdition, EditField,
                Submit, TypeOK
  <2>3. QED
    BY <2>1, <2>2
<1>2. QED
  BY <1>1 DEF PanelOK

LEMMA PanelOwnStep ==
    ASSUME WellFormedReplies, TypeOK, NEW p \in Panels,
           PanelOK(p), PanelAction(p)
    PROVE  PanelOK(p)'
<1>1. CASE Submit(p)
  <2>1. inFlight'[p] = inFlight[p] + 1
    BY <1>1 DEF Submit, TypeOK
  <2>2. QED
    BY <2>1 DEF PanelOK, TypeOK
<1>2. CASE CreateResponse(p)
  <2>1. PICK k \in Replies : CreateReply(p, k)
    BY <1>2 DEF CreateResponse
  <2>2. k # "nullBody"
    BY <2>1 DEF WellFormedReplies
  <2>3. ~overlay'[p]
    BY <2>1, <2>2 DEF CreateReply, TypeOK
  <2>4. QED
    BY <2>3 DEF PanelOK
<1>3. CASE ~Submit(p) /\ ~CreateResponse(p)
  <2>1. overlay' = overlay /\ inFlight' = inFlight
    BY <1>3 DEF PanelAction, TemplateLoad, ShowEdition, HideEdition, EditField
  <2>2. QED
    BY <2>1 DEF PanelOK
<1>4. QED
  BY <1>1, <1>2, <1>3

\* The dialog actions leave the panels alone, and a reload resets them.
LEMMA PanelDialogStep ==
    ASSUME TypeOK, NEW q \in Panels, PanelOK(q), DialogAction
    PROVE  PanelOK(q)'
<1>1. CASE Reload
  BY <1>1 DEF Reload, PanelOK
<1>2. CASE ~Reload
  <2>1. overlay' = overlay /\ inFlight' = inFlight
    BY <1>2 DEF DialogAction, ShowActionConfirm, CancelAction, ConfirmAction,
                ActionResponse
  <2>2. QED
    BY <2>1 DEF PanelOK
<1>3. QED
  BY <1>1, <1>2

LEMMA PanelInvStep ==
    ASSUME WellFormedReplies
    PROVE  PanelInv /\ [Next]_vars => PanelInv'
<1> SUFFICES ASSUME PanelInv, [Next]_vars PROVE PanelInv'
  OBVIOUS
<1>1. TypeOK'
  BY TypeStep DEF PanelInv
<1>2. ASSUME NEW q \in Panels PROVE PanelOK(q)'
  <2>1. TypeOK /\ PanelOK(q)
    BY DEF PanelInv
  <2>2. CASE \E p \in Panels : PanelAction(p)
    <3>1. PICK p \in Panels : PanelAction(p)
      BY <2>2
    <3>2. CASE p = q
      BY <2>1, <3>1, <3>2, PanelOwnStep
    <3>3. CASE p # q
      BY <2>1, <3>1, <3>3, OtherPanelUnchanged
    <3>4. QED
      BY <3>2, <3>3
  <2>3. CASE DialogAction
    BY <2>1, <2>3, PanelDialogStep
  <2>4. CASE UNCHANGED vars
    BY <2>1, <2>4 DEF vars, PanelOK
  <2>5. QED
    BY <2>2, <2>3, <2>4, NextSplit
<1>3. QED
  BY <1>1, <1>2 DEF PanelInv

(***************************************************************************)
(* With well-formed replies, and whether or not the user can reach the     *)
(* form under the overlay, a panel never displays its overlay with none of *)
(* its creation POSTs pending, for every value of the constants: the       *)
(* keypress handler may re-enable the button and a second submitX() may   *)
(* send again, but every completion hides the overlay and only a send      *)
(* shows it.                                                               *)
(***************************************************************************)
THEOREM OverlayNeverStranded ==
    ASSUME WellFormedReplies
    PROVE  Spec => []OverlayOnlyWhilePosting
<1>1. PanelInv => OverlayOnlyWhilePosting
  BY DEF PanelInv, PanelOK, OverlayOnlyWhilePosting
<1>2. QED
  BY <1>1, PanelInvInit, PanelInvStep, PTL DEF Spec

=====
