------------------------- MODULE EgmiMessagingProofs -------------------------
(***************************************************************************)
(* Proofs about the messaging poller (EgmiMessaging), for every value of   *)
(* the constants.                                                          *)
(***************************************************************************)
EXTENDS EgmiMessaging, SequenceTheorems, FiniteSetTheorems, TLAPS

(***************************************************************************)
(* The operators on sequences the poller is built from.                    *)
(***************************************************************************)

\* RemoveIdx, which takes a delivered fetch out of the pending ones.
LEMMA RemoveIdxProps ==
    ASSUME NEW S, NEW s \in Seq(S), NEW i \in 1..Len(s)
    PROVE  /\ RemoveIdx(s, i) \in Seq(S)
           /\ Len(RemoveIdx(s, i)) = Len(s) - 1
           /\ \A j \in 1..(Len(s) - 1) :
                 RemoveIdx(s, i)[j] = IF j < i THEN s[j] ELSE s[j + 1]
<1>1. Len(s) - 1 \in Nat
  OBVIOUS
<1>2. RemoveIdx(s, i) \in [1..(Len(s) - 1) -> S]
  BY DEF RemoveIdx
<1>3. QED
  BY <1>1, <1>2 DEF RemoveIdx

\* The lines a + 1 .. b are a sequence of log lines.
LEMMA LinesAfterType ==
    ASSUME NEW a \in Nat, NEW b \in Nat, a <= b
    PROVE  /\ LinesAfter(a, b) \in Seq(1..b)
           /\ Len(LinesAfter(a, b)) = b - a
<1>1. b - a \in Nat
  OBVIOUS
<1>2. LinesAfter(a, b) \in [1..(b - a) -> 1..b]
  BY DEF LinesAfter
<1>3. QED
  BY <1>1, <1>2 DEF LinesAfter

\* ConcatProperties, for two sequences of one set.
LEMMA ConcatOfSeqs ==
    ASSUME NEW S, NEW s1 \in Seq(S), NEW s2 \in Seq(S)
    PROVE  /\ s1 \o s2 \in Seq(S)
           /\ Len(s1 \o s2) = Len(s1) + Len(s2)
           /\ \A j \in 1 .. Len(s1) + Len(s2) :
                 (s1 \o s2)[j] = IF j <= Len(s1) THEN s1[j] ELSE s2[j - Len(s1)]
BY ConcatProperties

\* The lines a + 1 .. b are lines of any log of c >= b lines.
LEMMA LinesAfterWithin ==
    ASSUME NEW a \in Nat, NEW b \in Nat, NEW c \in Nat, a <= b, b <= c
    PROVE  LinesAfter(a, b) \in Seq(1..c)
<1>1. b - a \in Nat
  OBVIOUS
<1>2. LinesAfter(a, b) \in [1..(b - a) -> 1..c]
  BY DEF LinesAfter
<1>3. QED
  BY <1>1, <1>2 DEF LinesAfter

\* Appending the lines b + 1 .. c to the lines a + 1 .. b gives a + 1 .. c.
LEMMA LinesAfterConcat ==
    ASSUME NEW a \in Nat, NEW b \in Nat, NEW c \in Nat, a <= b, b <= c
    PROVE  LinesAfter(a, b) \o LinesAfter(b, c) = LinesAfter(a, c)
<1>1. /\ LinesAfter(a, b) \in Seq(1..c) /\ Len(LinesAfter(a, b)) = b - a
      /\ LinesAfter(b, c) \in Seq(1..c) /\ Len(LinesAfter(b, c)) = c - b
  BY LinesAfterType, LinesAfterWithin
<1> DEFINE s1 == LinesAfter(a, b)
<1> DEFINE s2 == LinesAfter(b, c)
<1>2. /\ s1 \o s2 \in Seq(1..c)
      /\ Len(s1 \o s2) = Len(s1) + Len(s2)
      /\ \A j \in 1 .. Len(s1) + Len(s2) :
            (s1 \o s2)[j] = IF j <= Len(s1) THEN s1[j] ELSE s2[j - Len(s1)]
  <2> HIDE DEF s1, s2
  <2>1. s1 \in Seq(1..c) /\ s2 \in Seq(1..c)
    BY <1>1 DEF s1, s2
  <2>2. QED
    BY <2>1, ConcatOfSeqs
<1>3. Len(s1) + Len(s2) = c - a
  BY <1>1
<1>4. \A j \in 1..(c - a) : (s1 \o s2)[j] = a + j
  BY <1>1, <1>2, <1>3 DEF LinesAfter
<1>5. QED
  BY <1>2, <1>3, <1>4 DEF LinesAfter

-----------------------------------------------------------------------------
(***************************************************************************)
(* Type correctness, with the bookkeeping it needs: a reply carries a log  *)
(* length between the one at sending and the current one, so the cursor   *)
(* never passes the log, and the lines a reply appends are lines of the    *)
(* log.  Nothing is sent or shown before initialize() has run.             *)
(***************************************************************************)
\* The bounds are natural numbers in every proof below.
USE MessagingAssumption

Bookkeeping ==
    /\ lastLineMessaging <= srvLines
    /\ loadSentAt <= srvLines
    /\ \A i \in DOMAIN fetches :
          fetches[i].cursor <= fetches[i].sentAt /\ fetches[i].sentAt <= srvLines
    /\ ~started => shown = << >> /\ fetches = << >>
    /\ ~loaded => ~loadPending /\ ~started /\ pollTimers = 0

\* The Boolean-valued part of TypeOK, for Zenon.
MsgFlags ==
    /\ loaded \in BOOLEAN
    /\ loadPending \in BOOLEAN
    /\ started \in BOOLEAN
    /\ sequential \in BOOLEAN

\* The rest of TypeOK, for SMT.
MsgData ==
    /\ srvLines \in 0..MaxLines
    /\ lastLineMessaging \in 0..MaxLines
    /\ messagesCounter \in 0..(MaxMessagesCount + 1)
    /\ panelCount \in Nat
    /\ loadSentAt \in 0..MaxLines
    /\ fetches \in Seq(Fetch)
    /\ pollTimers \in Nat
    /\ oneShotCalls \in 0..MaxOneShot
    /\ shown \in Seq(1..MaxLines)
    /\ base \in 0..MaxLines

MsgInv == MsgFlags /\ MsgData /\ Bookkeeping

LEMMA MsgInvTypeOK == MsgInv => TypeOK
BY Zenon DEF MsgInv, MsgFlags, MsgData, TypeOK

LEMMA MsgInvInit == Init => MsgInv
<1> SUFFICES ASSUME Init PROVE MsgInv
  OBVIOUS
<1>1. MsgFlags
  BY Zenon DEF Init, MsgFlags
<1>2. MsgData
  BY MessagingAssumption DEF Init, MsgData
<1>3. Bookkeeping
  BY MessagingAssumption DEF Init, Bookkeeping
<1>4. QED
  BY <1>1, <1>2, <1>3 DEF MsgInv

\* Every action keeps the flags Boolean.
LEMMA MsgFlagsStep == MsgFlags /\ [Next]_vars => MsgFlags'
<1> SUFFICES ASSUME MsgFlags, [Next]_vars PROVE MsgFlags'
  OBVIOUS
<1>1. CASE FetchResponse
  BY <1>1, Zenon DEF FetchResponse, MsgFlags
<1>2. CASE LoadResponse
  BY <1>2, Zenon DEF LoadResponse, LoadReply, MsgFlags
<1>3. QED
  BY <1>1, <1>2, Zenon DEF Next, Initialize, ServerLogs, PollTimerFires, OneShotFetch,
     SendFetch, ClearMessages, vars, MsgFlags

\* A fetch sent now records the cursor and the log length.
LEMMA SendFetchInv ==
    ASSUME MsgData, Bookkeeping, loaded, NEW o \in BOOLEAN, SendFetch(o),
           UNCHANGED <<loaded, srvLines, lastLineMessaging, messagesCounter,
                       panelCount, loadPending, loadSentAt, shown>>,
           pollTimers' \in Nat, oneShotCalls' \in 0..MaxOneShot
    PROVE  MsgData' /\ Bookkeeping'
<1> DEFINE f == [cursor |-> lastLineMessaging, sentAt |-> srvLines, oneShot |-> o]
<1>1. f \in Fetch /\ f.cursor <= f.sentAt /\ f.sentAt <= srvLines
  BY DEF MsgData, Bookkeeping, Fetch
<1>2. fetches' = Append(fetches, f) /\ started' = TRUE
  BY DEF SendFetch
<1>3. /\ fetches' \in Seq(Fetch)
      /\ Len(fetches') = Len(fetches) + 1
      /\ \A i \in 1..Len(fetches) : fetches'[i] = fetches[i]
      /\ fetches'[Len(fetches) + 1] = f
  BY <1>1, <1>2, AppendProperties DEF MsgData
<1>4. \A i \in DOMAIN fetches' :
         fetches'[i].cursor <= fetches'[i].sentAt /\ fetches'[i].sentAt <= srvLines'
  BY <1>1, <1>3 DEF MsgData, Bookkeeping
<1>5. base' \in 0..MaxLines
  BY DEF SendFetch, MsgData
<1>6. MsgData'
  BY <1>3, <1>5 DEF MsgData
<1>7. Bookkeeping'
  BY <1>2, <1>4 DEF Bookkeeping
<1>8. QED
  BY <1>6, <1>7

\* The delivery of the i-th pending fetch.
LEMMA FetchReplyInv ==
    ASSUME MsgData, Bookkeeping, NEW i \in DOMAIN fetches, NEW k \in ReplyKinds,
           NEW n \in fetches[i].sentAt..srvLines, FetchReply(i, k, n),
           UNCHANGED <<loaded, srvLines, loadPending, loadSentAt, oneShotCalls,
                       started, base, sequential>>
    PROVE  MsgData' /\ Bookkeeping'
<1>0. /\ fetches \in Seq(Fetch) /\ i \in 1..Len(fetches)
      /\ fetches[i] \in Fetch
      /\ fetches[i].cursor <= fetches[i].sentAt /\ fetches[i].sentAt <= srvLines
      /\ n \in 0..MaxLines
  <2>1. fetches \in Seq(Fetch) /\ i \in 1..Len(fetches)
    BY DEF MsgData
  <2>2. fetches[i] \in Fetch
    BY <2>1
  <2>3. fetches[i].cursor <= fetches[i].sentAt /\ fetches[i].sentAt <= srvLines
    BY DEF Bookkeeping
  <2>4. fetches[i].sentAt \in 0..MaxLines
    BY <2>2 DEF Fetch
  <2>6. n \in 0..MaxLines
    BY <2>4 DEF MsgData
  <2>5. QED
    BY <2>1, <2>2, <2>3, <2>6
<1>1. started
  BY <1>0 DEF Bookkeeping
<1>2. /\ fetches' = RemoveIdx(fetches, i)
      /\ RemoveIdx(fetches, i) \in Seq(Fetch)
      /\ Len(RemoveIdx(fetches, i)) = Len(fetches) - 1
      /\ \A j \in 1..(Len(fetches) - 1) :
            RemoveIdx(fetches, i)[j] = IF j < i THEN fetches[j] ELSE fetches[j + 1]
  BY <1>0, RemoveIdxProps DEF FetchReply
<1>3. \A j \in DOMAIN fetches' :
         fetches'[j].cursor <= fetches'[j].sentAt /\ fetches'[j].sentAt <= srvLines'
  BY <1>0, <1>2 DEF Bookkeeping
<1>4. pollTimers' \in Nat
  BY <1>0 DEF FetchReply, MsgData
<1>5. /\ messagesCounter' \in 0..(MaxMessagesCount + 1)
      /\ panelCount' \in Nat
      /\ shown' \in Seq(1..MaxLines)
      /\ lastLineMessaging' \in 0..MaxLines
      /\ lastLineMessaging' <= srvLines
  <2>1. CASE k = "ok"
    <3> DEFINE c == fetches[i].cursor
    <3>1. c \in Nat /\ c <= n /\ n <= MaxLines
      BY <1>0 DEF Fetch
    <3>2. LinesAfter(c, n) \in Seq(1..MaxLines)
      <4> HIDE DEF c
      <4>1. n \in Nat
        BY <1>0
      <4>2. QED
        BY <3>1, <4>1, LinesAfterWithin
    <3>3. shown' = shown \o LinesAfter(c, n) /\ lastLineMessaging' = n
      BY <2>1 DEF FetchReply, AddMessage
    <3>4. shown' \in Seq(1..MaxLines)
      <4> HIDE DEF c
      <4>1. shown \in Seq(1..MaxLines)
        BY DEF MsgData
      <4>2. QED
        BY <3>2, <3>3, <4>1, ConcatOfSeqs
    <3>5. /\ messagesCounter' \in 0..(MaxMessagesCount + 1)
          /\ panelCount' \in Nat
      BY <2>1, MessagingAssumption DEF FetchReply, AddMessage, MsgData
    <3>6. QED
      BY <1>0, <3>3, <3>4, <3>5
  <2>2. CASE k # "ok"
    BY <2>1, <2>2 DEF FetchReply, MsgData, Bookkeeping
  <2>3. QED
    BY <2>1, <2>2
<1>6. MsgData'
  BY <1>2, <1>4, <1>5 DEF MsgData
<1>7. Bookkeeping'
  BY <1>1, <1>3, <1>5 DEF Bookkeeping
<1>8. QED
  BY <1>6, <1>7

LEMMA MsgInvStep == MsgInv /\ [Next]_vars => MsgInv'
<1> SUFFICES ASSUME MsgInv, [Next]_vars PROVE MsgData' /\ Bookkeeping'
  BY MsgFlagsStep DEF MsgInv
<1>1. CASE Initialize
  BY <1>1 DEF Initialize, MsgInv, MsgData, Bookkeeping
<1>2. CASE ServerLogs
  <2>1. MsgData'
    BY <1>2 DEF ServerLogs, MsgInv, MsgData
  <2>2. /\ srvLines' = srvLines + 1
        /\ UNCHANGED <<loaded, lastLineMessaging, loadPending, loadSentAt, fetches,
                       pollTimers, shown, started>>
    BY <1>2 DEF ServerLogs
  <2>3. Bookkeeping'
    <3>1. srvLines \in Nat /\ srvLines' >= srvLines
      BY <2>2 DEF MsgInv, MsgData
    <3>2. \A i \in DOMAIN fetches' :
             fetches'[i].cursor <= fetches'[i].sentAt /\ fetches'[i].sentAt <= srvLines'
      <4>1. \A i \in DOMAIN fetches :
               fetches[i].cursor <= fetches[i].sentAt /\ fetches[i].sentAt <= srvLines
        BY DEF MsgInv, Bookkeeping
      <4>2. \A i \in DOMAIN fetches : fetches[i].sentAt \in Nat
        <5>1. \A i \in DOMAIN fetches : fetches[i] \in Fetch
          BY DEF MsgInv, MsgData
        <5>2. QED
          BY <5>1 DEF Fetch
      <4>3. QED
        BY <2>2, <3>1, <4>1, <4>2
    <3>3. lastLineMessaging' <= srvLines' /\ loadSentAt' <= srvLines'
      BY <2>2, <3>1 DEF MsgInv, MsgData, Bookkeeping
    <3>4. /\ ~started' => shown' = << >> /\ fetches' = << >>
          /\ ~loaded' => ~loadPending' /\ ~started' /\ pollTimers' = 0
      BY <2>2, Zenon DEF MsgInv, Bookkeeping
    <3>5. QED
      BY <3>2, <3>3, <3>4, Zenon DEF Bookkeeping
  <2>4. QED
    BY <2>1, <2>3
<1>3. CASE LoadResponse
  <2>1. PICK k \in ReplyKinds, n \in loadSentAt..srvLines : LoadReply(k, n)
    BY <1>3 DEF LoadResponse
  <2>2. n \in 0..MaxLines /\ n <= srvLines
    BY <2>1 DEF MsgInv, MsgData
  <2>3. lastLineMessaging' \in 0..MaxLines /\ lastLineMessaging' <= srvLines
    BY <2>1, <2>2 DEF LoadReply, MsgInv, MsgData, Bookkeeping
  <2>4. ~loadPending'
    BY <2>1 DEF LoadReply
  <2>5. QED
    BY <1>3, <2>3, <2>4 DEF LoadResponse, MsgInv, MsgData, Bookkeeping
<1>4. CASE PollTimerFires
  <2>1. loaded
    BY <1>4 DEF PollTimerFires, MsgInv, Bookkeeping
  <2>2. pollTimers' \in Nat
    BY <1>4 DEF PollTimerFires, MsgInv, MsgData
  <2>3. /\ SendFetch(FALSE)
        /\ UNCHANGED <<loaded, srvLines, lastLineMessaging, messagesCounter,
                       panelCount, loadPending, loadSentAt, shown>>
        /\ oneShotCalls' \in 0..MaxOneShot
    BY <1>4 DEF PollTimerFires, MsgInv, MsgData
  <2>4. QED
    BY <2>1, <2>2, <2>3, SendFetchInv DEF MsgInv
<1>5. CASE OneShotFetch
  <2>1. oneShotCalls' \in 0..MaxOneShot
    BY <1>5, MessagingAssumption DEF OneShotFetch, MsgInv, MsgData
  <2>2. /\ SendFetch(TRUE) /\ loaded
        /\ UNCHANGED <<loaded, srvLines, lastLineMessaging, messagesCounter,
                       panelCount, loadPending, loadSentAt, shown>>
        /\ pollTimers' \in Nat
    BY <1>5 DEF OneShotFetch, MsgInv, MsgData
  <2>3. QED
    BY <2>1, <2>2, SendFetchInv DEF MsgInv
<1>6. CASE FetchResponse
  BY <1>6, FetchReplyInv DEF FetchResponse, MsgInv
<1>7. CASE ClearMessages
  BY <1>7 DEF ClearMessages, MsgInv, MsgData, Bookkeeping
<1>8. CASE UNCHANGED vars
  BY <1>8 DEF vars, MsgInv, MsgData, Bookkeeping
<1>9. QED
  BY <1>1, <1>2, <1>3, <1>4, <1>5, <1>6, <1>7, <1>8 DEF Next

(***************************************************************************)
(* Every state of the messaging poller is well typed: the cursor and the   *)
(* lines shown stay within the server's log.                               *)
(***************************************************************************)
THEOREM TypeCorrect == Spec => []TypeOK
BY MsgInvTypeOK, MsgInvInit, MsgInvStep, PTL DEF Spec


-----------------------------------------------------------------------------
(***************************************************************************)
(* The safety net of addMessage.  PanelBounded alone is not inductive: a   *)
(* chunk appended below MAX_MESSAGES_COUNT adds one to panelCount, and     *)
(* only the counter, which counts every chunk since the page was loaded    *)
(* while the panel counts those since it was last emptied, bounds it.      *)
(***************************************************************************)
PanelCap ==
    /\ panelCount <= messagesCounter
    /\ panelCount <= MaxMessagesCount

\* addMessage keeps the panel under the counter and the cap.
LEMMA AddMessageCap ==
    ASSUME MsgData, PanelCap, NEW lines, AddMessage(lines)
    PROVE  PanelCap'
BY DEF AddMessage, MsgData, PanelCap

LEMMA PanelCapStep == MsgInv /\ PanelCap /\ [Next]_vars => PanelCap'
<1> SUFFICES ASSUME MsgInv, PanelCap, [Next]_vars PROVE PanelCap'
  OBVIOUS
<1>1. CASE Initialize \/ ClearMessages
  BY <1>1 DEF Initialize, ClearMessages, MsgInv, MsgData, PanelCap
<1>2. CASE FetchResponse
  <2>0. PICK i \in DOMAIN fetches, k \in ReplyKinds : \E n : FetchReply(i, k, n)
    BY <1>2 DEF FetchResponse
  <2>1. PICK n : FetchReply(i, k, n)
    BY <2>0
  <2>2. CASE k = "ok"
    <3>1. AddMessage(LinesAfter(fetches[i].cursor, n))
      BY <2>1, <2>2 DEF FetchReply
    <3>2. QED
      BY <3>1, AddMessageCap DEF MsgInv
  <2>3. CASE k # "ok"
    BY <2>1, <2>3 DEF FetchReply, PanelCap
  <2>4. QED
    BY <2>2, <2>3
<1>3. CASE ServerLogs \/ LoadResponse \/ PollTimerFires \/ OneShotFetch
  BY <1>3 DEF ServerLogs, LoadResponse, PollTimerFires, OneShotFetch, PanelCap
<1>4. CASE UNCHANGED vars
  BY <1>4 DEF vars, PanelCap
<1>5. QED
  BY <1>1, <1>2, <1>3, <1>4 DEF Next

(***************************************************************************)
(* For every MAX_MESSAGES_COUNT of at least one, the safety net of         *)
(* addMessage keeps #pending-message-content at MAX_MESSAGES_COUNT chunks  *)
(* or fewer, whatever the order in which fetch replies and clicks on       *)
(* #clear-messages arrive.                                                 *)
(***************************************************************************)
THEOREM PanelStaysBounded == Spec => []PanelBounded
<1>1. Init => MsgInv /\ PanelCap
  BY MsgInvInit DEF Init, PanelCap
<1>2. MsgInv /\ PanelCap /\ [Next]_vars => MsgInv' /\ PanelCap'
  BY MsgInvStep, PanelCapStep
<1>3. MsgInv /\ PanelCap => PanelBounded
  BY DEF PanelCap, PanelBounded
<1>4. QED
  BY <1>1, <1>2, <1>3, PTL DEF Spec


-----------------------------------------------------------------------------
(***************************************************************************)
(* The cursor and the lines shown.  SequentialDisplayExact is not          *)
(* inductive as it stands: a reply appends the lines after the cursor it   *)
(* was sent with, so the cursor of the pending fetch must be the current   *)
(* one, and as long as requests never overlapped there is at most one      *)
(* fetch and no get-lastline-messaging in flight.                          *)
(***************************************************************************)
SeqInv ==
    started /\ sequential =>
       /\ base <= lastLineMessaging
       /\ shown = LinesAfter(base, lastLineMessaging)
       /\ ~loadPending
       /\ Len(fetches) <= 1
       /\ \A i \in DOMAIN fetches : fetches[i].cursor = lastLineMessaging

\* No line lies after the cursor and up to it.
LEMMA LinesAfterEmpty ==
    ASSUME NEW a \in Nat PROVE LinesAfter(a, a) = << >>
BY DEF LinesAfter

\* A fetch sent with no other request in flight carries the current cursor.
LEMMA SendFetchSeq ==
    ASSUME MsgInv, SeqInv, NEW o \in BOOLEAN, SendFetch(o),
           UNCHANGED <<lastLineMessaging, loadPending, shown>>,
           started', sequential'
    PROVE  SeqInv'
<1> DEFINE f == [cursor |-> lastLineMessaging, sentAt |-> srvLines, oneShot |-> o]
<1>1. sequential /\ fetches = << >> /\ ~loadPending
  BY Zenon DEF SendFetch
<1>2. fetches' = << f >>
  BY <1>1 DEF SendFetch
<1>3. Len(fetches') <= 1 /\ \A i \in DOMAIN fetches' : fetches'[i].cursor = lastLineMessaging'
  BY <1>2
<1>4. base' <= lastLineMessaging' /\ shown' = LinesAfter(base', lastLineMessaging')
  <2>1. CASE started
    BY <1>1, <2>1 DEF SendFetch, SeqInv
  <2>2. CASE ~started
    <3>1. shown = << >> /\ base' = lastLineMessaging /\ lastLineMessaging \in Nat
      BY <2>2 DEF SendFetch, MsgInv, Bookkeeping, MsgData
    <3>2. QED
      BY <3>1, LinesAfterEmpty
  <2>3. QED
    BY <2>1, <2>2 DEF MsgInv, MsgFlags
<1>5. QED
  BY <1>1, <1>3, <1>4 DEF SeqInv

\* A reply to the one pending fetch appends exactly the lines after the cursor.
LEMMA FetchReplySeq ==
    ASSUME MsgInv, SeqInv, started, sequential,
           NEW i \in DOMAIN fetches, NEW k \in ReplyKinds,
           NEW n \in fetches[i].sentAt..srvLines, FetchReply(i, k, n),
           UNCHANGED <<loadPending, started, base, sequential>>
    PROVE  SeqInv'
<1>1. /\ fetches \in Seq(Fetch) /\ Len(fetches) = 1 /\ i = 1
      /\ fetches[i] \in Fetch
      /\ fetches[i].cursor = lastLineMessaging
      /\ fetches[i].cursor <= fetches[i].sentAt
      /\ base <= lastLineMessaging /\ shown = LinesAfter(base, lastLineMessaging)
      /\ ~loadPending
  <2>1. fetches \in Seq(Fetch)
    BY DEF MsgInv, MsgData
  <2>2. /\ base <= lastLineMessaging /\ shown = LinesAfter(base, lastLineMessaging)
        /\ ~loadPending /\ Len(fetches) <= 1
        /\ fetches[i].cursor = lastLineMessaging
    BY DEF SeqInv
  <2>3. fetches[i].cursor <= fetches[i].sentAt
    BY DEF MsgInv, Bookkeeping
  <2>4. Len(fetches) = 1 /\ i = 1 /\ fetches[i] \in Fetch
    <3>1. Len(fetches) \in Nat /\ DOMAIN fetches = 1..Len(fetches)
      BY <2>1
    <3>2. i \in 1..Len(fetches)
      BY <3>1
    <3>3. Len(fetches) = 1 /\ i = 1
      BY <2>2, <3>1, <3>2
    <3>4. fetches[i] \in Fetch
      BY <2>1, <3>2
    <3>5. QED
      BY <3>3, <3>4
  <2>5. QED
    BY <2>1, <2>2, <2>3, <2>4, Zenon
<1>2. Len(fetches') = 0 /\ fetches' \in Seq(Fetch)
  <2>1. fetches' = RemoveIdx(fetches, i)
    BY DEF FetchReply
  <2>2. i \in 1..Len(fetches)
    BY <1>1
  <2>3. /\ RemoveIdx(fetches, i) \in Seq(Fetch)
        /\ Len(RemoveIdx(fetches, i)) = Len(fetches) - 1
    <3>1. fetches \in Seq(Fetch)
      BY <1>1
    <3>2. QED
      BY <2>2, <3>1, RemoveIdxProps
  <2>4. QED
    BY <1>1, <2>1, <2>3
<1>3. DOMAIN fetches' = {}
  BY <1>2
<1>4. base' <= lastLineMessaging' /\ shown' = LinesAfter(base', lastLineMessaging')
  <2>1. CASE k = "ok"
    <3>1. /\ shown' = shown \o LinesAfter(lastLineMessaging, n)
          /\ lastLineMessaging' = n
      BY <1>1, <2>1 DEF FetchReply, AddMessage
    <3>2. /\ base \in Nat /\ lastLineMessaging \in Nat /\ n \in Nat
          /\ lastLineMessaging <= n
      <4>1. fetches[i].sentAt \in Nat /\ srvLines \in Nat
        BY <1>1 DEF MsgInv, MsgData, Fetch
      <4>2. QED
        BY <1>1, <4>1 DEF MsgInv, MsgData
    <3>3. LinesAfter(base, lastLineMessaging) \o LinesAfter(lastLineMessaging, n)
            = LinesAfter(base, n)
      BY <1>1, <3>2, LinesAfterConcat
    <3>4. base' = base
      OBVIOUS
    <3>5. QED
      BY <1>1, <3>1, <3>2, <3>3, <3>4
  <2>2. CASE k # "ok"
    BY <1>1, <2>2 DEF FetchReply
  <2>3. QED
    BY <2>1, <2>2
<1>5. QED
  BY <1>1, <1>2, <1>3, <1>4 DEF SeqInv

LEMMA SeqInvStep == MsgInv /\ SeqInv /\ [Next]_vars => SeqInv'
<1> SUFFICES ASSUME MsgInv, SeqInv, [Next]_vars PROVE SeqInv'
  OBVIOUS
<1>1. CASE Initialize
  BY <1>1 DEF Initialize, MsgInv, Bookkeeping, SeqInv
<1>2. CASE ServerLogs \/ ClearMessages
  BY <1>2 DEF ServerLogs, ClearMessages, SeqInv
<1>3. CASE LoadResponse
  BY <1>3, Zenon DEF LoadResponse, LoadReply, SeqInv
<1>4. CASE PollTimerFires \/ OneShotFetch
  <2>1. SUFFICES ASSUME started', sequential' PROVE SeqInv'
    BY DEF SeqInv
  <2>2. \E o \in BOOLEAN :
           /\ SendFetch(o)
           /\ UNCHANGED <<lastLineMessaging, loadPending, shown>>
    BY <1>4 DEF PollTimerFires, OneShotFetch
  <2>3. QED
    BY <2>1, <2>2, SendFetchSeq
<1>5. CASE FetchResponse
  <2>1. PICK i \in DOMAIN fetches, k \in ReplyKinds :
           \E n \in fetches[i].sentAt..srvLines :
              /\ FetchReply(i, k, n)
              /\ UNCHANGED <<loaded, srvLines, loadPending, loadSentAt, oneShotCalls,
                             started, base, sequential>>
    BY <1>5 DEF FetchResponse
  <2>2. PICK n \in fetches[i].sentAt..srvLines :
           /\ FetchReply(i, k, n)
           /\ UNCHANGED <<loaded, srvLines, loadPending, loadSentAt, oneShotCalls,
                          started, base, sequential>>
    BY <2>1
  <2>3. CASE started /\ sequential
    BY <2>2, <2>3, FetchReplySeq
  <2>4. CASE ~(started /\ sequential)
    BY <2>2, <2>4 DEF SeqInv
  <2>5. QED
    BY <2>3, <2>4
<1>6. CASE UNCHANGED vars
  BY <1>6 DEF vars, SeqInv
<1>7. QED
  BY <1>1, <1>2, <1>3, <1>4, <1>5, <1>6 DEF Next

(***************************************************************************)
(* For every log length and every interleaving of timers, one-shot calls,  *)
(* replies and log writes: as long as no two requests of the poller were   *)
(* ever in flight together, the panel has received every line after the    *)
(* starting cursor up to lastLineMessaging, each once and in order.        *)
(***************************************************************************)
THEOREM SequentialDisplayCorrect == Spec => []SequentialDisplayExact
<1>1. Init => MsgInv /\ SeqInv
  BY MsgInvInit DEF Init, SeqInv
<1>2. MsgInv /\ SeqInv /\ [Next]_vars => MsgInv' /\ SeqInv'
  BY MsgInvStep, SeqInvStep
<1>3. SeqInv => SequentialDisplayExact
  BY DEF SeqInv, SequentialDisplayExact
<1>4. QED
  BY <1>1, <1>2, <1>3, PTL DEF Spec


-----------------------------------------------------------------------------
(***************************************************************************)
(* The polling loop.  PollLoopExactlyOne counts the loop's fetches with    *)
(* Cardinality; the inductive form says which fetches they are: with the  *)
(* timer set every pending fetch is a one-shot call, and with no timer     *)
(* exactly one pending fetch is not.  A one-shot reply then removes a      *)
(* fetch that is not the loop's, and the loop's reply sets the timer.      *)
(***************************************************************************)
LoopOK ==
    loaded =>
       \/ pollTimers = 1 /\ \A j \in DOMAIN fetches : fetches[j].oneShot
       \/ pollTimers = 0 /\ \E i \in DOMAIN fetches :
                               \A j \in DOMAIN fetches : ~fetches[j].oneShot <=> j = i

\* Appending a fetch keeps the pending ones at their indices.
LEMMA AppendFetch ==
    ASSUME NEW s \in Seq(Fetch), NEW f \in Fetch
    PROVE  /\ Append(s, f) \in Seq(Fetch)
           /\ DOMAIN Append(s, f) = 1..(Len(s) + 1)
           /\ \A j \in 1..Len(s) : Append(s, f)[j] = s[j]
           /\ Append(s, f)[Len(s) + 1] = f
BY AppendProperties

\* A timer or a one-shot call sends a fetch of the loop or not.
LEMMA SendFetchLoop ==
    ASSUME MsgInv, LoopOK, loaded, NEW o \in BOOLEAN, SendFetch(o),
           loaded' = loaded,
           pollTimers' = IF o THEN pollTimers ELSE pollTimers - 1,
           ~o => pollTimers > 0
    PROVE  LoopOK'
<1> DEFINE f == [cursor |-> lastLineMessaging, sentAt |-> srvLines, oneShot |-> o]
<1> DEFINE L == Len(fetches)
<1>1. /\ fetches \in Seq(Fetch) /\ DOMAIN fetches = 1..L /\ L \in Nat
      /\ pollTimers \in Nat /\ f \in Fetch
  BY DEF MsgInv, MsgData, Fetch
<1>2. /\ fetches' = Append(fetches, f)
      /\ DOMAIN fetches' = 1..(L + 1)
      /\ \A j \in 1..L : fetches'[j] = fetches[j]
      /\ fetches'[L + 1] = f
  <2>1. fetches' = Append(fetches, f)
    BY DEF SendFetch
  <2> HIDE DEF f, L
  <2>2. QED
    BY <1>1, <2>1, AppendFetch DEF L
<1>3. CASE ~o
  <2>1. pollTimers = 1 /\ \A j \in 1..L : fetches[j].oneShot
    BY <1>1, <1>3 DEF LoopOK
  <2>2. pollTimers' = 0
    BY <1>3, <2>1
  <2>3. \A j \in 1..(L + 1) : ~fetches'[j].oneShot <=> j = L + 1
    BY <1>2, <1>3, <2>1
  <2>4. QED
    BY <1>2, <2>2, <2>3 DEF LoopOK
<1>4. CASE o
  <2>1. pollTimers' = pollTimers /\ fetches'[L + 1].oneShot
    BY <1>2, <1>4
  <2>2. CASE pollTimers = 1 /\ \A j \in DOMAIN fetches : fetches[j].oneShot
    BY <1>1, <1>2, <2>1, <2>2 DEF LoopOK
  <2>3. CASE pollTimers = 0 /\ \E i \in DOMAIN fetches :
                                 \A j \in DOMAIN fetches : ~fetches[j].oneShot <=> j = i
    <3>1. PICK i \in DOMAIN fetches : \A j \in DOMAIN fetches : ~fetches[j].oneShot <=> j = i
      BY <2>3
    <3>2. \A j \in 1..(L + 1) : ~fetches'[j].oneShot <=> j = i
      BY <1>1, <1>2, <2>1, <3>1
    <3>3. \E m \in DOMAIN fetches' :
             \A j \in DOMAIN fetches' : ~fetches'[j].oneShot <=> j = m
      <4>1. i \in DOMAIN fetches'
        BY <1>1, <1>2
      <4>2. QED
        BY <1>2, <3>2, <4>1
    <3>4. pollTimers' = 0
      BY <2>1, <2>3
    <3>5. QED
      BY <3>3, <3>4 DEF LoopOK
  <2>4. QED
    BY <2>2, <2>3 DEF LoopOK
<1>5. QED
  BY <1>3, <1>4

\* A reply takes its fetch out; the timer is set again only for the loop's own.
LEMMA FetchReplyLoop ==
    ASSUME MsgInv, LoopOK, NEW i \in DOMAIN fetches, NEW k, NEW n,
           FetchReply(i, k, n), loaded' = loaded
    PROVE  LoopOK'
<1> DEFINE L == Len(fetches)
<1> DEFINE g(j) == IF j < i THEN j ELSE j + 1
<1>1. /\ fetches \in Seq(Fetch) /\ DOMAIN fetches = 1..L /\ L \in Nat
      /\ i \in 1..L /\ pollTimers \in Nat
      /\ \A j \in 1..L : fetches[j].oneShot \in BOOLEAN
  <2>1. fetches \in Seq(Fetch) /\ pollTimers \in Nat
    BY DEF MsgInv, MsgData
  <2>2. \A j \in 1..L : fetches[j] \in Fetch
    BY <2>1
  <2>3. QED
    BY <2>1, <2>2 DEF Fetch
<1>2. loaded
  <2>1. fetches # << >>
    BY <1>1
  <2>2. QED
    BY <2>1, Zenon DEF MsgInv, Bookkeeping
<1>3. /\ DOMAIN fetches' = 1..(L - 1)
      /\ \A j \in 1..(L - 1) : fetches'[j] = fetches[g(j)] /\ g(j) \in 1..L
  <2>1. fetches' = RemoveIdx(fetches, i)
    BY DEF FetchReply
  <2>2. /\ RemoveIdx(fetches, i) \in Seq(Fetch)
        /\ Len(RemoveIdx(fetches, i)) = L - 1
        /\ \A j \in 1..(L - 1) :
              RemoveIdx(fetches, i)[j] = IF j < i THEN fetches[j] ELSE fetches[j + 1]
    BY <1>1, RemoveIdxProps
  <2>3. QED
    BY <1>1, <2>1, <2>2
<1>4. pollTimers' = IF fetches[i].oneShot THEN pollTimers ELSE pollTimers + 1
  BY DEF FetchReply
<1>5. CASE fetches[i].oneShot
  <2>1. CASE pollTimers = 1 /\ \A j \in DOMAIN fetches : fetches[j].oneShot
    BY <1>1, <1>3, <1>4, <1>5, <2>1 DEF LoopOK
  <2>2. CASE pollTimers = 0 /\ \E m \in DOMAIN fetches :
                                 \A j \in DOMAIN fetches : ~fetches[j].oneShot <=> j = m
    <3>1. PICK m \in DOMAIN fetches : \A j \in DOMAIN fetches : ~fetches[j].oneShot <=> j = m
      BY <2>2
    <3>2. m # i
      BY <1>5, <3>1
    <3> DEFINE mm == IF m < i THEN m ELSE m - 1
    <3>3. mm \in 1..(L - 1) /\ \A j \in 1..(L - 1) : g(j) = m <=> j = mm
      BY <1>1, <3>2
    <3>4. \A j \in 1..(L - 1) : ~fetches'[j].oneShot <=> j = mm
      BY <1>1, <1>3, <3>1, <3>3
    <3>5. \E m2 \in DOMAIN fetches' :
             \A j \in DOMAIN fetches' : ~fetches'[j].oneShot <=> j = m2
      BY <1>3, <3>3, <3>4
    <3>6. QED
      BY <1>4, <1>5, <2>2, <3>5 DEF LoopOK
  <2>3. QED
    BY <1>2, <2>1, <2>2 DEF LoopOK
<1>6. CASE ~fetches[i].oneShot
  <2>1. pollTimers = 0 /\ \A j \in DOMAIN fetches : ~fetches[j].oneShot <=> j = i
    BY <1>1, <1>2, <1>6 DEF LoopOK
  <2>2. \A j \in 1..(L - 1) : fetches'[j].oneShot
    BY <1>1, <1>3, <2>1
  <2>3. QED
    BY <1>3, <1>4, <1>6, <2>1, <2>2 DEF LoopOK
<1>7. QED
  BY <1>5, <1>6

LEMMA LoopOKStep == MsgInv /\ LoopOK /\ [Next]_vars => LoopOK'
<1> SUFFICES ASSUME MsgInv, LoopOK, [Next]_vars PROVE LoopOK'
  OBVIOUS
<1>1. CASE Initialize
  <2>1. fetches = << >> /\ fetches' = fetches /\ pollTimers' = 1
    <3>1. pollTimers = 0 /\ fetches = << >>
      BY <1>1, Zenon DEF Initialize, MsgInv, Bookkeeping
    <3>2. QED
      BY <1>1, <3>1 DEF Initialize
  <2>2. QED
    BY <2>1 DEF LoopOK
<1>2. CASE ServerLogs \/ LoadResponse \/ ClearMessages
  <2>1. UNCHANGED <<loaded, pollTimers, fetches>>
    BY <1>2 DEF ServerLogs, LoadResponse, ClearMessages
  <2>2. QED
    BY <2>1 DEF LoopOK
<1>3. CASE PollTimerFires
  <2>1. loaded
    <3>1. pollTimers > 0
      BY <1>3 DEF PollTimerFires
    <3>2. ~loaded => pollTimers = 0
      BY DEF MsgInv, Bookkeeping
    <3>3. QED
      BY <3>1, <3>2
  <2>2. pollTimers > 0 /\ pollTimers' = pollTimers - 1 /\ SendFetch(FALSE)
        /\ loaded' = loaded
    BY <1>3 DEF PollTimerFires
  <2>3. QED
    BY <2>1, <2>2, SendFetchLoop
<1>4. CASE OneShotFetch
  <2>1. loaded /\ pollTimers' = pollTimers /\ SendFetch(TRUE) /\ loaded' = loaded
    BY <1>4 DEF OneShotFetch
  <2>2. QED
    BY <2>1, SendFetchLoop
<1>5. CASE FetchResponse
  <2>0. PICK i \in DOMAIN fetches, k \in ReplyKinds :
           \E n : FetchReply(i, k, n) /\ loaded' = loaded
    BY <1>5 DEF FetchResponse
  <2>1. PICK n : FetchReply(i, k, n) /\ loaded' = loaded
    BY <2>0
  <2>2. QED
    BY <2>1, FetchReplyLoop
<1>6. CASE UNCHANGED vars
  BY <1>6 DEF vars, LoopOK
<1>7. QED
  BY <1>1, <1>2, <1>3, <1>4, <1>5, <1>6 DEF Next

\* The cardinality form: no loop fetch with the timer set, one without it.
LEMMA LoopOKCount == MsgInv /\ LoopOK => PollLoopExactlyOne
<1> SUFFICES ASSUME MsgInv, LoopOK, loaded
             PROVE  Cardinality(LoopFetches) + pollTimers = 1
  BY DEF PollLoopExactlyOne
<1>1. CASE pollTimers = 1 /\ \A j \in DOMAIN fetches : fetches[j].oneShot
  <2>1. LoopFetches = {}
    BY <1>1 DEF LoopFetches
  <2>2. QED
    BY <1>1, <2>1, FS_EmptySet
<1>2. CASE pollTimers = 0 /\ \E i \in DOMAIN fetches :
                               \A j \in DOMAIN fetches : ~fetches[j].oneShot <=> j = i
  <2>1. PICK i \in DOMAIN fetches : \A j \in DOMAIN fetches : ~fetches[j].oneShot <=> j = i
    BY <1>2
  <2>2. LoopFetches = {i}
    <3>1. \A j : j \in LoopFetches <=> j = i
      BY <2>1 DEF LoopFetches
    <3>2. QED
      BY <3>1
  <2>3. Cardinality({i}) = 1
    BY FS_Singleton
  <2>4. pollTimers = 0
    BY <1>2
  <2>5. QED
    BY <2>2, <2>3, <2>4
<1>3. QED
  BY <1>1, <1>2 DEF LoopOK

(***************************************************************************)
(* For every number of log lines and of one-shot calls: once initialize()  *)
(* has run, the polling loop has exactly one fetch outstanding, a timer    *)
(* or a fetch without callback in flight.  fetchLastMessages(callback)     *)
(* neither stops the loop nor starts a second one, in whatever order its   *)
(* reply and the loop's arrive.                                            *)
(***************************************************************************)
THEOREM PollLoopOne == Spec => []PollLoopExactlyOne
<1>1. Init => MsgInv /\ LoopOK
  BY MsgInvInit DEF Init, LoopOK
<1>2. MsgInv /\ LoopOK /\ [Next]_vars => MsgInv' /\ LoopOK'
  BY MsgInvStep, LoopOKStep
<1>3. QED
  BY <1>1, <1>2, LoopOKCount, PTL DEF Spec

=============================================================================
