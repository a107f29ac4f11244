----------------------------- MODULE EgmiPanels -----------------------------
(***************************************************************************)
(* The administrative forms of the console: the node creation panel        *)
(* (egmiNode.js), the volume creation panel (egmiVolume.js), and the       *)
(* start/stop/remove actions of a volume row (volumeAction, egmiMain.js)   *)
(* with their confirmation dialog (egmi.Action, whose code is not in the   *)
(* repository: its behaviour is taken from the spec).                      *)
(*                                                                         *)
(* Both panels run the same code: a template loaded into the page, a modal *)
(* whose show handler clears the field and disables the create button,    *)
(* keypress and change handlers that enable it, and submitX(), which       *)
(* disables the button, displays an overlay and POSTs; both callbacks of   *)
(* the POST enable the button and hide the overlay again.  Every action is *)
(* one whole callback or one user gesture; user gestures are never forced  *)
(* to happen (no fairness), HTTP completions are (the requests carry a     *)
(* 120 s timeout, so $.ajax always ends in one of its callbacks).          *)
(***************************************************************************)
EXTENDS Naturals

CONSTANTS
    MaxRequests,        \* bound on the POSTs and action GETs sent
    Replies,            \* kinds of reply the server may send
    InputUnderOverlay   \* the user can still reach the form under the overlay

(***************************************************************************)
(* Every way a creation POST or a volume action GET can complete:          *)
(*   "ok"           a body without error;                                  *)
(*   "refused"      a body with data.error: alert(data.error);             *)
(*   "httpError"    the error callback, errorHandler without navigation;   *)
(*   "unauthorized" the error callback with status 401: errorHandler       *)
(*                  assigns window.location = "app.html";                  *)
(*   "nullBody"     the JSON body null: the "!data" branch is taken and    *)
(*                  console.error(data.error) throws at once.              *)
(***************************************************************************)
AllReplies == {"ok", "refused", "httpError", "unauthorized", "nullBody"}

Panels == {"node", "volume"}

\* What the text field holds: nothing, only white space, or a name.
FieldValues == {"empty", "blank", "text"}

ASSUME PanelsAssumption ==
    /\ MaxRequests \in Nat
    /\ Replies \subseteq AllReplies
    /\ InputUnderOverlay \in BOOLEAN

VARIABLES
    template,     \* template[p]: "loading", "loaded" or "failed"
    modalOpen,    \* modalOpen[p]: the modal of panel p is displayed
    field,        \* field[p]: the value of the text field of panel p
    disabled,     \* disabled[p]: the create button of panel p is disabled
    overlay,      \* overlay[p]: the overlay of panel p is displayed
    inFlight,     \* inFlight[p]: creation POSTs of panel p not completed
    dialog,       \* the action dialog: "closed", "confirm" or "running"
    actionInFlight, \* volume action GETs not completed
    leaving,      \* window.location has been assigned by errorHandler
    sent          \* requests sent so far

vars == <<template, modalOpen, field, disabled, overlay, inFlight,
          dialog, actionInFlight, leaving, sent>>

TypeOK ==
    /\ template \in [Panels -> {"loading", "loaded", "failed"}]
    /\ modalOpen \in [Panels -> BOOLEAN]
    /\ field \in [Panels -> FieldValues]
    /\ disabled \in [Panels -> BOOLEAN]
    /\ overlay \in [Panels -> BOOLEAN]
    /\ inFlight \in [Panels -> Nat]
    /\ dialog \in {"closed", "confirm", "running"}
    /\ actionInFlight \in Nat
    /\ leaving \in BOOLEAN
    /\ sent \in 0..MaxRequests

\* Templates requested, nothing displayed, nothing sent.
Init ==
    /\ template = [p \in Panels |-> "loading"]
    /\ modalOpen = [p \in Panels |-> FALSE]
    /\ field = [p \in Panels |-> "empty"]
    /\ disabled = [p \in Panels |-> TRUE]
    /\ overlay = [p \in Panels |-> FALSE]
    /\ inFlight = [p \in Panels |-> 0]
    /\ dialog = "closed"
    /\ actionInFlight = 0
    /\ leaving = FALSE
    /\ sent = 0

\* No modal or dialog covers the page: its buttons can be clicked.
PageReachable == dialog = "closed" /\ \A p \in Panels : ~modalOpen[p]

\* The form of panel p can be typed in and clicked.
FormReachable(p) == modalOpen[p] /\ (~overlay[p] \/ InputUnderOverlay)

\* errorHandler (utils.js): a 401 navigates to the login page.
ErrorHandler(k) == leaving' = (leaving \/ k = "unauthorized")

(***************************************************************************)
(* The load callback of the panel's template: on success the modal and     *)
(* form handlers are bound, on error an alert is shown and nothing is.     *)
(***************************************************************************)
TemplateLoad(p) ==
    /\ template[p] = "loading"
    /\ \E r \in {"loaded", "failed"} : template' = [template EXCEPT ![p] = r]
    /\ UNCHANGED <<modalOpen, field, disabled, overlay, inFlight, dialog,
                   actionInFlight, leaving, sent>>

(***************************************************************************)
(* The "add" button of the page opens the modal; its show.bs.modal         *)
(* handler empties the field and disables the create button.  Before the   *)
(* template has loaded the modal element does not exist and the click      *)
(* does nothing.                                                           *)
(***************************************************************************)
ShowEdition(p) ==
    /\ template[p] = "loaded"
    /\ PageReachable
    /\ modalOpen' = [modalOpen EXCEPT ![p] = TRUE]
    /\ field' = [field EXCEPT ![p] = "empty"]
    /\ disabled' = [disabled EXCEPT ![p] = TRUE]
    /\ UNCHANGED <<template, overlay, inFlight, dialog, actionInFlight, leaving, sent>>

\* The user dismisses the modal (close button, Escape, backdrop).
HideEdition(p) ==
    /\ FormReachable(p)
    /\ modalOpen' = [modalOpen EXCEPT ![p] = FALSE]
    /\ UNCHANGED <<template, field, disabled, overlay, inFlight, dialog,
                   actionInFlight, leaving, sent>>

(***************************************************************************)
(* The user edits the field to v: the keypress handler (a typed character) *)
(* or the change handler (any edit, on blur) enables the create button,    *)
(* whatever the field now holds and whatever is in flight.                 *)
(***************************************************************************)
EditField(p, v) ==
    /\ FormReachable(p)
    /\ field' = [field EXCEPT ![p] = v]
    /\ disabled' = [disabled EXCEPT ![p] = FALSE]
    /\ UNCHANGED <<template, modalOpen, overlay, inFlight, dialog,
                   actionInFlight, leaving, sent>>

(***************************************************************************)
(* A click on the enabled create button runs submitX(): with a name in the *)
(* field it disables the button, displays the overlay and POSTs; with an   *)
(* empty or blank field it does nothing.                                   *)
(***************************************************************************)
Submit(p) ==
    /\ FormReachable(p)
    /\ ~disabled[p]
    /\ field[p] = "text"
    /\ sent < MaxRequests
    /\ sent' = sent + 1
    /\ disabled' = [disabled EXCEPT ![p] = TRUE]
    /\ overlay' = [overlay EXCEPT ![p] = TRUE]
    /\ inFlight' = [inFlight EXCEPT ![p] = @ + 1]
    /\ UNCHANGED <<template, modalOpen, field, dialog, actionInFlight, leaving>>

\* Mutant: the error callback leaves the overlay displayed.
CreateReplyKeepsOverlay(p, k) ==
    /\ inFlight' = [inFlight EXCEPT ![p] = @ - 1]
    /\ ErrorHandler(k)
    /\ IF k = "nullBody"
          THEN UNCHANGED <<modalOpen, disabled, overlay>>
          ELSE /\ modalOpen' = IF k = "ok" THEN [modalOpen EXCEPT ![p] = FALSE] ELSE modalOpen
               /\ disabled' = [disabled EXCEPT ![p] = FALSE]
               /\ overlay' = IF k \in {"httpError", "unauthorized"}
                                THEN overlay ELSE [overlay EXCEPT ![p] = FALSE]

(***************************************************************************)
(* A creation POST of panel p completes with a reply of kind k: a success  *)
(* hides the modal, a refusal alerts, an error goes through errorHandler;  *)
(* then the button is enabled and the overlay hidden, unless the callback  *)
(* threw first.                                                            *)
(***************************************************************************)
CreateReply(p, k) ==
    /\ inFlight' = [inFlight EXCEPT ![p] = @ - 1]
    /\ ErrorHandler(k)
    /\ IF k = "nullBody"
          THEN UNCHANGED <<modalOpen, disabled, overlay>>
          ELSE /\ modalOpen' = IF k = "ok" THEN [modalOpen EXCEPT ![p] = FALSE] ELSE modalOpen
               /\ disabled' = [disabled EXCEPT ![p] = FALSE]
               /\ overlay' = [overlay EXCEPT ![p] = FALSE]

\* Mutant: a completion is taken without a POST pending.
CreateResponseNoGuard(p) ==
    /\ \E k \in Replies : CreateReply(p, k)
    /\ UNCHANGED <<template, field, dialog, actionInFlight, sent>>

CreateResponse(p) ==
    /\ inFlight[p] > 0
    /\ \E k \in Replies : CreateReply(p, k)
    /\ UNCHANGED <<template, field, dialog, actionInFlight, sent>>

\* The two panels, by the names of their code.
NodeInitialize == TemplateLoad("node")
ShowNodeEdition == ShowEdition("node")
SubmitNode == Submit("node")
NodeCreateResponse == CreateResponse("node")
VolumeInitialize == TemplateLoad("volume")
ShowVolumeEdition == ShowEdition("volume")
SubmitVolume == Submit("volume")
VolumeCreateResponse == CreateResponse("volume")

(***************************************************************************)
(* A start, stop or remove button of a volume row calls volumeAction(),    *)
(* which opens the confirmation dialog.                                    *)
(***************************************************************************)
ShowActionConfirm ==
    /\ PageReachable
    /\ dialog' = "confirm"
    /\ UNCHANGED <<template, modalOpen, field, disabled, overlay, inFlight,
                   actionInFlight, leaving, sent>>

\* The user declines: the dialog closes and the callback is never run.
CancelAction ==
    /\ dialog = "confirm"
    /\ dialog' = "closed"
    /\ UNCHANGED <<template, modalOpen, field, disabled, overlay, inFlight,
                   actionInFlight, leaving, sent>>

\* The user confirms: the dialog runs the callback, which sends the GET.
ConfirmAction ==
    /\ dialog = "confirm"
    /\ sent < MaxRequests
    /\ sent' = sent + 1
    /\ dialog' = "running"
    /\ actionInFlight' = actionInFlight + 1
    /\ UNCHANGED <<template, modalOpen, field, disabled, overlay, inFlight, leaving>>

\* Mutant: the error callback does not call completer().
ActionReplyNoCompleterOnError(k) ==
    /\ actionInFlight' = actionInFlight - 1
    /\ ErrorHandler(k)
    /\ dialog' = IF k \in {"nullBody", "httpError", "unauthorized"} THEN dialog ELSE "closed"

(***************************************************************************)
(* The action GET completes with a reply of kind k: the callbacks alert or *)
(* go through errorHandler, then call completer(), which closes the        *)
(* dialog, unless the success callback threw first.                        *)
(***************************************************************************)
ActionReply(k) ==
    /\ actionInFlight' = actionInFlight - 1
    /\ ErrorHandler(k)
    /\ dialog' = IF k = "nullBody" THEN dialog ELSE "closed"

ActionResponse ==
    /\ actionInFlight > 0
    /\ \E k \in Replies : ActionReply(k)
    /\ UNCHANGED <<template, modalOpen, field, disabled, overlay, inFlight, sent>>

(***************************************************************************)
(* The page is reloaded by the user, or replaced after errorHandler has    *)
(* assigned window.location: the callbacks of the old page never run, and  *)
(* the new page loads its templates again.                                 *)
(***************************************************************************)
Reload ==
    /\ template' = [p \in Panels |-> "loading"]
    /\ modalOpen' = [p \in Panels |-> FALSE]
    /\ field' = [p \in Panels |-> "empty"]
    /\ disabled' = [p \in Panels |-> TRUE]
    /\ overlay' = [p \in Panels |-> FALSE]
    /\ inFlight' = [p \in Panels |-> 0]
    /\ dialog' = "closed"
    /\ actionInFlight' = 0
    /\ leaving' = FALSE
    /\ UNCHANGED sent

Next ==
    \/ NodeInitialize \/ VolumeInitialize
    \/ ShowNodeEdition \/ ShowVolumeEdition
    \/ SubmitNode \/ SubmitVolume
    \/ NodeCreateResponse \/ VolumeCreateResponse
    \/ \E p \in Panels : HideEdition(p) \/ \E v \in FieldValues : EditField(p, v)
    \/ ShowActionConfirm \/ CancelAction \/ ConfirmAction \/ ActionResponse
    \/ Reload

Spec == Init /\ [][Next]_vars

(***************************************************************************)
(* The browser completes every template load and every request (the POSTs  *)
(* and GETs carry a 120 s timeout): those steps are weakly fair.  User gestures  *)
(* are not.                                                                *)
(***************************************************************************)
Fairness ==
    /\ \A p \in Panels : WF_vars(TemplateLoad(p)) /\ WF_vars(CreateResponse(p))
    /\ WF_vars(ActionResponse)

FairSpec == Spec /\ Fairness

-----------------------------------------------------------------------------
(***************************************************************************)
(* Properties.                                                             *)
(***************************************************************************)

(***************************************************************************)
(* The overlay of a panel is displayed exactly while one of its creation   *)
(* POSTs is pending: submitX() shows it when it sends, and every way the   *)
(* POST completes hides it.  This is the overlay's promise when the form   *)
(* cannot be reached under it (run panels; panels_keyboard when it can).   *)
(***************************************************************************)
OverlayIffPending ==
    \A p \in Panels : overlay[p] <=> inFlight[p] > 0

(***************************************************************************)
(* A panel never has two creation POSTs pending, so a node or volume is    *)
(* never created twice by one submission: the disabled button and the      *)
(* overlay of submitX() must hold the user off until the POST completes,   *)
(* although the keypress and change handlers enable the button again.      *)
(***************************************************************************)
SingleCreatePerPanel ==
    \A p \in Panels : inFlight[p] <= 1

(***************************************************************************)
(* The overlay of a panel is never displayed with none of its creation     *)
(* POSTs pending, even when the user reaches the form under it and submits *)
(* again: submitX() shows it only when it sends, and every completion that *)
(* does not throw hides it.  This is what keeps the panel from staying     *)
(* locked with nothing left to unlock it.                                  *)
(***************************************************************************)
OverlayOnlyWhilePosting ==
    \A p \in Panels : overlay[p] => inFlight[p] > 0

(***************************************************************************)
(* A panel that displays its overlay eventually hides it again: every      *)
(* completion of submitX()'s POST gives the form back to the user.         *)
(***************************************************************************)
PanelsUnlock ==
    \A p \in Panels : overlay[p] ~> ~overlay[p]

(***************************************************************************)
(* A confirmed volume action eventually closes its dialog: both callbacks  *)
(* of volumeAction's GET call completer().                                 *)
(***************************************************************************)
ActionDialogCloses ==
    (dialog = "running") ~> (dialog = "closed")

=============================================================================
