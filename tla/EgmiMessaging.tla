---------------------------- MODULE EgmiMessaging ----------------------------
(***************************************************************************)
(* The messaging poller of the console page (egmiMessaging.js,             *)
(* egmi.Messaging): the log panel fed from the server's message log.       *)
(*                                                                         *)
(* initialize() asks the server for the last line of its log               *)
(* (get-lastline-messaging) and, without waiting for the answer, sets a    *)
(* timer for fetchLastMessages(), which asks for the lines after the       *)
(* cursor lastLineMessaging (fetch-messaging), appends them to the panel,  *)
(* moves the cursor to the server's lastLine and sets the next timer.      *)
(* fetchLastMessages(callback) is public; called with a callback it is a  *)
(* one-shot fetch that does not reschedule.                                *)
(*                                                                         *)
(* The server log is abstracted to its number of lines; line j is the      *)
(* number j.  A reply carries the log length the server had at some moment *)
(* between the request being sent and the reply being delivered.  None of *)
(* the requests has a timeout, so replies of concurrent requests arrive in *)
(* any order.                                                              *)
(***************************************************************************)
EXTENDS Naturals, Sequences, FiniteSets

CONSTANTS
    MaxLines,          \* bound on the lines the server log grows to
    MaxMessagesCount,  \* MAX_MESSAGES_COUNT of the safety net
    MaxOneShot         \* bound on one-shot calls fetchLastMessages(callback)

ASSUME MessagingAssumption ==
    /\ MaxLines \in Nat
    /\ MaxMessagesCount \in Nat \ {0}
    /\ MaxOneShot \in Nat

(***************************************************************************)
(* How a request completes: "ok" is a reply with data.status true,         *)
(* "noStatus" a reply without it, "error" the error callback.              *)
(***************************************************************************)
ReplyKinds == {"ok", "noStatus", "error"}

VARIABLES
    loaded,             \* initialize() has run
    srvLines,           \* number of lines in the server's message log
    lastLineMessaging,  \* the cursor sent as last_line
    messagesCounter,    \* messagesCounter, saturated at MaxMessagesCount + 1
    panelCount,         \* chunks appended to #pending-message-content since it was emptied
    loadPending,        \* the get-lastline-messaging request is in flight
    loadSentAt,         \* server log length when it was sent
    fetches,            \* pending fetch-messaging requests
    pollTimers,         \* pending fetchLastMessages timers
    oneShotCalls,       \* one-shot calls made so far
    shown,              \* history: every line appended to the panel, in order
    started,            \* history: a fetch has been sent
    base,               \* history: the cursor when the first fetch was sent
    sequential          \* history: no two of the requests were ever in flight together

vars == <<loaded, srvLines, lastLineMessaging, messagesCounter, panelCount,
          loadPending, loadSentAt, fetches, pollTimers, oneShotCalls,
          shown, started, base, sequential>>

\* A pending fetch: the cursor it sent, the log length then, and whether it is one-shot.
Fetch == [cursor : 0..MaxLines, sentAt : 0..MaxLines, oneShot : BOOLEAN]

TypeOK ==
    /\ loaded \in BOOLEAN
    /\ srvLines \in 0..MaxLines
    /\ lastLineMessaging \in 0..MaxLines
    /\ messagesCounter \in 0..(MaxMessagesCount + 1)
    /\ panelCount \in Nat
    /\ loadPending \in BOOLEAN
    /\ loadSentAt \in 0..MaxLines
    /\ fetches \in Seq(Fetch)
    /\ pollTimers \in Nat
    /\ oneShotCalls \in 0..MaxOneShot
    /\ shown \in Seq(1..MaxLines)
    /\ started \in BOOLEAN
    /\ base \in 0..MaxLines
    /\ sequential \in BOOLEAN

\* Mutant: one line past the end.
LinesAfterPastEnd(a, b) == [j \in 1..(b - a + 1) |-> a + j]

\* The lines a + 1 .. b of the log, in order.
LinesAfter(a, b) == [j \in 1..(b - a) |-> a + j]

\* The sequence s without its i-th element.
RemoveIdx(s, i) == [j \in 1..(Len(s) - 1) |-> IF j < i THEN s[j] ELSE s[j + 1]]

\* The pending fetches of the polling loop.
LoopFetches == {i \in DOMAIN fetches : ~fetches[i].oneShot}

Init ==
    /\ loaded = FALSE
    /\ srvLines \in 0..MaxLines
    /\ lastLineMessaging = 0
    /\ messagesCounter = 0
    /\ panelCount = 0
    /\ loadPending = FALSE
    /\ loadSentAt = 0
    /\ fetches = << >>
    /\ pollTimers = 0
    /\ oneShotCalls = 0
    /\ shown = << >>
    /\ started = FALSE
    /\ base = 0
    /\ sequential = TRUE

(***************************************************************************)
(* initialize(): loadLastLine() sends get-lastline-messaging, the panel is *)
(* emptied and the first fetch timer is set.                               *)
(***************************************************************************)
Initialize ==
    /\ ~loaded
    /\ loaded' = TRUE
    /\ loadPending' = TRUE
    /\ loadSentAt' = srvLines
    /\ panelCount' = 0
    /\ pollTimers' = pollTimers + 1
    /\ UNCHANGED <<srvLines, lastLineMessaging, messagesCounter, fetches,
                   oneShotCalls, shown, started, base, sequential>>

\* A line is written to the server's message log.
ServerLogs ==
    /\ srvLines < MaxLines
    /\ srvLines' = srvLines + 1
    /\ UNCHANGED <<loaded, lastLineMessaging, messagesCounter, panelCount, loadPending,
                   loadSentAt, fetches, pollTimers, oneShotCalls, shown, started, base, sequential>>

(***************************************************************************)
(* The get-lastline-messaging reply of kind k, computed when the log had   *)
(* n lines: with data.status the cursor is set to data.lastLine.           *)
(***************************************************************************)
LoadReply(k, n) ==
    /\ loadPending' = FALSE
    /\ lastLineMessaging' = IF k = "ok" THEN n ELSE lastLineMessaging
    /\ sequential' = (sequential /\ ~started)

LoadResponse ==
    /\ loadPending
    /\ \E k \in ReplyKinds, n \in loadSentAt..srvLines : LoadReply(k, n)
    /\ UNCHANGED <<loaded, srvLines, loadSentAt, messagesCounter, panelCount, fetches,
                   pollTimers, oneShotCalls, shown, started, base>>

(***************************************************************************)
(* fetchLastMessages() sends fetch-messaging?last_line=lastLineMessaging.  *)
(***************************************************************************)
SendFetch(oneShot) ==
    /\ fetches' = Append(fetches, [cursor |-> lastLineMessaging, sentAt |-> srvLines,
                                   oneShot |-> oneShot])
    /\ started' = TRUE
    /\ base' = IF started THEN base ELSE lastLineMessaging
    /\ sequential' = (sequential /\ fetches = << >> /\ ~loadPending)

\* A fetch timer fires: fetchLastMessages() is called without a callback.
PollTimerFires ==
    /\ pollTimers > 0
    /\ pollTimers' = pollTimers - 1
    /\ SendFetch(FALSE)
    /\ UNCHANGED <<loaded, srvLines, lastLineMessaging, messagesCounter, panelCount,
                   loadPending, loadSentAt, oneShotCalls, shown>>

\* Another script of the page calls fetchLastMessages(callback).
OneShotFetch ==
    /\ loaded
    /\ oneShotCalls < MaxOneShot
    /\ oneShotCalls' = oneShotCalls + 1
    /\ SendFetch(TRUE)
    /\ UNCHANGED <<loaded, srvLines, lastLineMessaging, messagesCounter, panelCount,
                   loadPending, loadSentAt, pollTimers, shown>>

\* Mutant: no safety net.
AddMessageNoSafetyNet(lines) ==
    /\ messagesCounter' = IF messagesCounter > MaxMessagesCount
                             THEN messagesCounter ELSE messagesCounter + 1
    /\ panelCount' = panelCount + 1
    /\ shown' = shown \o lines

(***************************************************************************)
(* addMessage(atob(data.lines)): the counter is incremented and, above     *)
(* MAX_MESSAGES_COUNT, the panel is emptied before the chunk is appended.  *)
(* The chunk is appended even when it holds no line.                       *)
(***************************************************************************)
AddMessage(lines) ==
    /\ messagesCounter' = IF messagesCounter > MaxMessagesCount
                             THEN messagesCounter ELSE messagesCounter + 1
    /\ panelCount' = IF messagesCounter + 1 > MaxMessagesCount THEN 1 ELSE panelCount + 1
    /\ shown' = shown \o lines

\* Mutant: the cursor is not moved to data.lastLine.
FetchReplyNoAdvance(i, k, n) ==
    LET f == fetches[i] IN
    /\ fetches' = RemoveIdx(fetches, i)
    /\ IF k = "ok"
          THEN /\ AddMessage(LinesAfter(f.cursor, n))
               /\ UNCHANGED lastLineMessaging
          ELSE UNCHANGED <<messagesCounter, panelCount, shown, lastLineMessaging>>
    /\ pollTimers' = IF f.oneShot THEN pollTimers ELSE pollTimers + 1

\* Mutant: the timer is set again even after a one-shot call.
FetchReplyAlwaysReschedule(i, k, n) ==
    LET f == fetches[i] IN
    /\ fetches' = RemoveIdx(fetches, i)
    /\ IF k = "ok"
          THEN /\ AddMessage(LinesAfter(f.cursor, n))
               /\ lastLineMessaging' = n
          ELSE UNCHANGED <<messagesCounter, panelCount, shown, lastLineMessaging>>
    /\ pollTimers' = pollTimers + 1

(***************************************************************************)
(* The i-th pending fetch completes with a reply of kind k computed when   *)
(* the log had n lines.  With data.status the lines after the cursor that *)
(* was sent are appended and the cursor set to data.lastLine; the timer is *)
(* set again unless the call had a callback.                               *)
(***************************************************************************)
FetchReply(i, k, n) ==
    LET f == fetches[i] IN
    /\ fetches' = RemoveIdx(fetches, i)
    /\ IF k = "ok"
          THEN /\ AddMessage(LinesAfter(f.cursor, n))
               /\ lastLineMessaging' = n
          ELSE UNCHANGED <<messagesCounter, panelCount, shown, lastLineMessaging>>
    /\ pollTimers' = IF f.oneShot THEN pollTimers ELSE pollTimers + 1

FetchResponse ==
    \E i \in DOMAIN fetches, k \in ReplyKinds :
       \E n \in fetches[i].sentAt..srvLines :
          /\ FetchReply(i, k, n)
          /\ UNCHANGED <<loaded, srvLines, loadPending, loadSentAt, oneShotCalls,
                         started, base, sequential>>

\* The user clicks #clear-messages: the panel is emptied, the counter is not reset.
ClearMessages ==
    /\ loaded
    /\ panelCount' = 0
    /\ UNCHANGED <<loaded, srvLines, lastLineMessaging, messagesCounter, loadPending,
                   loadSentAt, fetches, pollTimers, oneShotCalls, shown, started, base, sequential>>

Next ==
    \/ Initialize
    \/ ServerLogs
    \/ LoadResponse
    \/ PollTimerFires
    \/ OneShotFetch
    \/ FetchResponse
    \/ ClearMessages

Spec == Init /\ [][Next]_vars

-----------------------------------------------------------------------------
(***************************************************************************)
(* Properties.                                                             *)
(***************************************************************************)

(***************************************************************************)
(* Once initialized, the polling loop has exactly one fetch outstanding:   *)
(* a fetch without callback in flight or a timer pending.  One-shot calls  *)
(* must neither stop the loop nor start a second one.                      *)
(***************************************************************************)
PollLoopExactlyOne ==
    loaded => Cardinality(LoopFetches) + pollTimers = 1

(***************************************************************************)
(* As long as no two requests of the poller were ever in flight together,  *)
(* the panel has been fed every line after the starting cursor up to the   *)
(* cursor, each exactly once and in order: the cursor is what keeps lines  *)
(* from being lost or shown twice.                                         *)
(***************************************************************************)
SequentialDisplayExact ==
    (started /\ sequential) => shown = LinesAfter(base, lastLineMessaging)

(***************************************************************************)
(* The safety net of addMessage keeps the panel at MAX_MESSAGES_COUNT      *)
(* chunks or fewer.                                                        *)
(***************************************************************************)
PanelBounded ==
    panelCount <= MaxMessagesCount

(***************************************************************************)
(* The cursor lastLineMessaging never moves backwards (spec, testable       *)
(* properties: "the last-line cursor is strictly non-decreasing").         *)
(***************************************************************************)
CursorNeverRegresses ==
    [][lastLineMessaging' >= lastLineMessaging]_vars

=============================================================================
