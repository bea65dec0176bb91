-------------------------- MODULE DashboardProofs --------------------------
(* What is proved about the dashboard of a workspace: about a conversation's *)
(* thread for any sends, other messages, tries and mishaps, about the        *)
(* realtime connection for any slots, changes, drops and online events, and  *)
(* about the session for any tabs, refreshes, tokens, logins and faults.     *)
EXTENDS MCDashboard, SequenceTheorems, FiniteSetTheorems, TLAPS

ThreadFrames == [message : Messages, status : Shown]

(* A frame that makes the tab show message m as it is. *)
Brings(frame, m) == frame.message = m /\ frame.status \in {"none", rows[m]}
OnItsWay(m) == \E frame \in frames : Brings(frame, m)

WillBeShown(m) ==
  \/ OnItsWay(m) \/ fetch.pc = "asked"
  \/ fetch.pc = "read" /\ fetch.page[m] = rows[m]
  \/ fetch.pc = "none" /\ thread[m] = rows[m]

RowsStored == \A s \in Sends : stored[s] = IF rows[s] = "none" THEN 0 ELSE 1
TriesCounted == \A s \in Sends : outbox[s] = "sending" => tries[s] \in Tries
AnswersAreRows ==
  \A s \in Sends, k \in Tries : request[s][k].pc = "answered" =>
    rows[s] # "none" /\ request[s][k].status # "none"
PageIsRows == \A m \in Messages : fetch.page[m] # "none" => rows[m] # "none"
SentIsShown ==
  \A s \in Sends : outbox[s] \in {"sent", "dropped"} =>
    thread[s] # "none" /\ (fetch.pc = "read" => fetch.page[s] # "none")
KeptIsShown == \A m \in Messages \ behind : WillBeShown(m)

RowsInv == RowsStored /\ TriesCounted /\ AnswersAreRows /\ PageIsRows
ThreadInv == ThreadTypeOK /\ RowsInv /\ SentIsShown /\ KeptIsShown

-----------------------------------------------------------------------------
(* Types, and what the rows, the answers and the fetched page have to do    *)
(* with each other.                                                         *)

BasicInv == ThreadTypeOK /\ RowsInv /\ SentIsShown
RequestType == [pc : {"unused", "sent", "checked", "answered", "refused"}, status : Shown]

LEMMA InvalidateIsTyped ==
  ASSUME Invalidate
  PROVE  /\ fetch' \in [pc : {"none", "asked", "read"}, page : [Messages -> Shown]]
         /\ fetch'.pc = "asked" /\ \A m \in Messages : fetch'.page[m] = "none"
         /\ behind' = {}
BY DEF Invalidate, NoFetch, Nothing, Shown

LEMMA SendingStep ==
  ASSUME BasicInv, NEW s \in Sends, Send(s) \/ Retry(s) \/ Discard(s) \/ DropEntry(s)
  PROVE  BasicInv'
<1>1. CASE Send(s) \/ Retry(s)
  <2>1. /\ tries[s] + 1 \in Tries /\ tries[s] \in Nat /\ outbox[s] \in {"none", "failed"}
        /\ tries' = [tries EXCEPT ![s] = tries[s] + 1]
        /\ outbox' = [outbox EXCEPT ![s] = "sending"]
        /\ UNCHANGED <<rows, stored, frames, thread, fetch, mishaps, behind>>
    BY <1>1, ThreadAssumption
       DEF Send, Retry, Run, BasicInv, ThreadTypeOK, Tries, server, cache
  <2>2. PICK new \in RequestType : /\ new.pc = "sent"
                                   /\ request' = [request EXCEPT ![s][tries[s] + 1] = new]
    BY <1>1 DEF Send, Retry, Run, Unused, RequestType, Shown
  <2>3. request' \in [Sends -> [Tries -> RequestType]]
    BY <2>1, <2>2 DEF BasicInv, ThreadTypeOK, RequestType
  <2>4. /\ tries' \in [Sends -> 0 .. MaxTries] /\ tries'[s] \in Tries
        /\ outbox' \in [Sends -> {"none", "sending", "sent", "failed", "dropped", "discarded"}]
        /\ \A q \in Sends : outbox'[q] \in {"sent", "dropped"} => rows[q] # "none"
    BY <2>1, ThreadAssumption DEF BasicInv, ThreadTypeOK, Tries
  <2>7. ThreadTypeOK'
    BY <2>1, <2>3, <2>4 DEF BasicInv, ThreadTypeOK, RequestType
  <2>5. RowsInv'
    BY <2>1, <2>2 DEF BasicInv, ThreadTypeOK, RowsInv, RowsStored, TriesCounted, AnswersAreRows, PageIsRows
  <2>6. SentIsShown'
    BY <2>1 DEF BasicInv, ThreadTypeOK, SentIsShown
  <2> QED
    BY <2>5, <2>6, <2>7 DEF BasicInv
<1>2. CASE Discard(s) \/ DropEntry(s)
  <2>1. /\ UNCHANGED <<rows, stored, request, tries, frames, thread, fetch, mishaps, behind>>
        /\ \/ outbox' = [outbox EXCEPT ![s] = "discarded"]
           \/ outbox[s] = "sent" /\ outbox' = [outbox EXCEPT ![s] = "dropped"]
    BY <1>2 DEF Discard, DropEntry, server, requests, cache
  <2>2. /\ outbox' \in [Sends -> {"none", "sending", "sent", "failed", "dropped", "discarded"}]
        /\ \A q \in Sends : outbox'[q] \in {"sent", "dropped"} => outbox[q] \in {"sent", "dropped"}
        /\ \A q \in Sends : outbox'[q] = "sending" => outbox[q] = "sending"
    BY <2>1 DEF BasicInv, ThreadTypeOK
  <2>3. ThreadTypeOK'
    BY <2>1, <2>2 DEF BasicInv, ThreadTypeOK
  <2>4. RowsInv' /\ SentIsShown'
    BY <2>1, <2>2 DEF BasicInv, RowsInv, RowsStored, TriesCounted, AnswersAreRows, PageIsRows, SentIsShown
  <2> QED
    BY <2>3, <2>4 DEF BasicInv
<1> QED
  BY <1>1, <1>2

LEMMA RequestStep ==
  ASSUME BasicInv, NEW s \in Sends, NEW k \in Tries,
         FindExisting(s, k) \/ StoreMessage(s, k) \/ PolicyForbids(s, k)
  PROVE  BasicInv'
<1>0. /\ request \in [Sends -> [Tries -> RequestType]] /\ rows \in [Messages -> Shown]
      /\ s \in Messages /\ request[s][k] \in RequestType
  BY DEF BasicInv, ThreadTypeOK, RequestType, Messages
<1>1. CASE FindExisting(s, k)
  <2>1. PICK new \in RequestType :
          /\ request' = [request EXCEPT ![s][k] = new]
          /\ new.pc = "answered" => rows[s] # "none" /\ new.status # "none"
    <3>1. CASE rows[s] # "none"
      <4>1. [pc |-> "answered", status |-> rows[s]] \in RequestType
        BY <1>0 DEF RequestType
      <4> WITNESS [pc |-> "answered", status |-> rows[s]] \in RequestType
      <4> QED
        BY <1>1, <3>1 DEF FindExisting
    <3>2. CASE rows[s] = "none"
      <4>1. [request[s][k] EXCEPT !.pc = "checked"] \in RequestType
        BY <1>0 DEF RequestType
      <4> WITNESS [request[s][k] EXCEPT !.pc = "checked"] \in RequestType
      <4> QED
        BY <1>0, <1>1, <3>2 DEF FindExisting, RequestType
    <3> QED
      BY <3>1, <3>2
  <2>2. request' \in [Sends -> [Tries -> RequestType]]
    BY <1>0, <2>1
  <2> QED
    BY <1>0, <1>1, <2>1, <2>2
       DEF FindExisting, BasicInv, ThreadTypeOK, RowsInv, RowsStored, TriesCounted, AnswersAreRows,
           PageIsRows, SentIsShown, RequestType, server, cache
<1>2. CASE StoreMessage(s, k)
  <2>1. /\ rows' \in [Messages -> Shown] /\ rows'[s] # "none"
        /\ \A m \in Messages : rows[m] # "none" => rows'[m] # "none"
    BY <1>0, <1>2 DEF StoreMessage, server, Shown, RowStatuses
  <2>2. PICK new \in RequestType :
          /\ request' = [request EXCEPT ![s][k] = new]
          /\ new.status # "none"
    <3>1. [pc |-> "answered", status |-> rows'[s]] \in RequestType
      BY <1>0, <2>1 DEF RequestType
    <3> WITNESS [pc |-> "answered", status |-> rows'[s]] \in RequestType
    <3> QED
      BY <1>2, <2>1 DEF StoreMessage
  <2>3. request' \in [Sends -> [Tries -> RequestType]]
    BY <1>0, <2>2
  <2>4. frames' \subseteq [message : Messages, status : Shown]
    <3>1. frames \subseteq [message : Messages, status : Shown]
          /\ Frame(s, "none") \in [message : Messages, status : Shown]
      BY <1>0 DEF BasicInv, ThreadTypeOK, Frame, Shown
    <3>2. frames' = frames \/ frames' = frames \cup {Frame(s, "none")}
      BY <1>2 DEF StoreMessage, server
    <3> QED
      BY <3>1, <3>2
  <2>5. /\ stored' \in [Sends -> Nat]
        /\ \A q \in Sends : stored'[q] = IF rows'[q] = "none" THEN 0 ELSE 1
    <3>1. CASE rows[s] = "none"
      <4>1. stored' = [stored EXCEPT ![s] = stored[s] + 1] /\ rows' = [rows EXCEPT ![s] = "queued"]
        BY <1>2, <3>1 DEF StoreMessage
      <4>2. stored \in [Sends -> Nat] /\ \A q \in Sends : stored[q] = IF rows[q] = "none" THEN 0 ELSE 1
        BY DEF BasicInv, ThreadTypeOK, RowsInv, RowsStored
      <4>3. Sends \subseteq Messages
        BY DEF Messages
      <4> QED
        BY <1>0, <3>1, <4>1, <4>2, <4>3
    <3>2. CASE rows[s] # "none"
      <4>1. UNCHANGED <<rows, stored>>
        BY <1>2, <3>2 DEF StoreMessage, server
      <4> QED
        BY <4>1 DEF BasicInv, ThreadTypeOK, RowsInv, RowsStored
    <3> QED
      BY <3>1, <3>2
  <2>6. UNCHANGED <<tries, thread, fetch, outbox, mishaps, behind>>
    BY <1>2 DEF StoreMessage, cache
  <2>7. ThreadTypeOK'
    BY <2>1, <2>3, <2>4, <2>5, <2>6 DEF BasicInv, ThreadTypeOK, RequestType, Messages
  <2>8. RowsInv'
    BY <1>0, <2>1, <2>2, <2>5, <2>6
       DEF BasicInv, ThreadTypeOK, RowsInv, RowsStored, TriesCounted, AnswersAreRows, PageIsRows, Messages
  <2>9. SentIsShown'
    BY <2>6 DEF BasicInv, SentIsShown
  <2> QED
    BY <2>7, <2>8, <2>9 DEF BasicInv
<1>3. CASE PolicyForbids(s, k)
  <2>1. PICK new \in RequestType : request' = [request EXCEPT ![s][k] = new] /\ new.pc = "refused"
    <3>1. [request[s][k] EXCEPT !.pc = "refused"] \in RequestType
      BY <1>0 DEF RequestType
    <3> WITNESS [request[s][k] EXCEPT !.pc = "refused"] \in RequestType
    <3> QED
      BY <1>0, <1>3 DEF PolicyForbids, RequestType
  <2>2. request' \in [Sends -> [Tries -> RequestType]]
    BY <1>0, <2>1
  <2> QED
    BY <1>0, <1>3, <2>1, <2>2, ThreadAssumption
       DEF PolicyForbids, BasicInv, ThreadTypeOK, RowsInv, RowsStored, TriesCounted, AnswersAreRows,
           PageIsRows, SentIsShown, RequestType, server, cache
<1> QED
  BY <1>1, <1>2, <1>3

LEMMA AnswerStep ==
  ASSUME BasicInv, NEW s \in Sends, SendAnswered(s) \/ SendRefused(s) \/ SendLost(s)
  PROVE  BasicInv'
<1>0. /\ request \in [Sends -> [Tries -> RequestType]] /\ s \in Messages
      /\ outbox[s] = "sending" /\ tries[s] \in Tries /\ request[s][tries[s]] \in RequestType
  BY DEF BasicInv, ThreadTypeOK, RowsInv, TriesCounted, RequestType, Messages, SendAnswered, SendRefused,
         SendLost, Awaited
<1>1. CASE SendAnswered(s)
  <2>1. /\ request[s][tries[s]].status \in RowStatuses /\ rows[s] # "none"
    BY <1>0, <1>1 DEF SendAnswered, Awaited, BasicInv, RowsInv, AnswersAreRows, RequestType, Shown
  <2>2. /\ thread' \in [Messages -> Shown] /\ thread'[s] # "none"
        /\ \A m \in Messages \ {s} : thread'[m] = thread[m]
    BY <1>0, <1>1, <2>1 DEF SendAnswered, BasicInv, ThreadTypeOK, Shown, RowStatuses
  <2>3. /\ outbox' = [outbox EXCEPT ![s] = "sent"] /\ Invalidate
        /\ UNCHANGED <<rows, stored, request, tries, frames, mishaps>>
    BY <1>1 DEF SendAnswered, server, requests
  <2>4. ThreadTypeOK'
    BY <2>1, <2>2, <2>3, InvalidateIsTyped DEF BasicInv, ThreadTypeOK
  <2>5. RowsInv'
    BY <2>3, InvalidateIsTyped
       DEF BasicInv, ThreadTypeOK, RowsInv, RowsStored, TriesCounted, AnswersAreRows, PageIsRows
  <2>6. SentIsShown'
    BY <2>2, <2>3, InvalidateIsTyped DEF BasicInv, ThreadTypeOK, SentIsShown, Messages
  <2> QED
    BY <2>4, <2>5, <2>6 DEF BasicInv
<1>2. CASE SendRefused(s) \/ SendLost(s)
  <2>1. /\ outbox' = [outbox EXCEPT ![s] = "failed"] /\ mishaps' \in 0 .. MaxMishaps
        /\ UNCHANGED <<rows, stored, tries, frames, thread, fetch, behind>>
    BY <1>2, ThreadAssumption
       DEF SendRefused, SendLost, SendFails, BasicInv, ThreadTypeOK, server, cache, requests
  <2>2. /\ request' \in [Sends -> [Tries -> RequestType]]
        /\ \A q \in Sends, k \in Tries : request'[q][k].pc = "answered" => request'[q][k] = request[q][k]
    <3>1. Unused \in RequestType /\ Unused.pc # "answered"
      BY DEF Unused, RequestType, Shown
    <3>2. CASE UNCHANGED request
      BY <1>0, <3>2
    <3>3. CASE request' = [request EXCEPT ![s][tries[s]] = Unused]
      BY <1>0, <3>1, <3>3
    <3> QED
      BY <1>2, <3>2, <3>3 DEF SendRefused, SendLost, requests
  <2>3. /\ outbox' \in [Sends -> {"none", "sending", "sent", "failed", "dropped", "discarded"}]
        /\ \A q \in Sends : outbox'[q] \in {"sent", "dropped"} => outbox[q] \in {"sent", "dropped"}
        /\ \A q \in Sends : outbox'[q] = "sending" => outbox[q] = "sending"
    BY <2>1 DEF BasicInv, ThreadTypeOK
  <2>4. ThreadTypeOK'
    BY <2>1, <2>2, <2>3 DEF BasicInv, ThreadTypeOK, RequestType
  <2>5. RowsInv' /\ SentIsShown'
    BY <2>1, <2>2, <2>3
       DEF BasicInv, RowsInv, RowsStored, TriesCounted, AnswersAreRows, PageIsRows, SentIsShown
  <2> QED
    BY <2>4, <2>5 DEF BasicInv
<1> QED
  BY <1>1, <1>2

LEMMA ElsewhereStep ==
  ASSUME BasicInv, (\E m \in Others : OtherMessage(m)) \/ \E m \in Messages : StatusUpdated(m)
  PROVE  BasicInv'
<1>1. PICK m \in Messages, v \in RowStatuses, status \in Shown :
        /\ rows' = [rows EXCEPT ![m] = v] /\ frames' = frames \cup {Frame(m, status)}
        /\ m \in Others \/ rows[m] # "none"
        /\ UNCHANGED <<stored, requests, cache, outbox, mishaps, behind>>
  <2>1. CASE \E m \in Others : OtherMessage(m)
    BY <2>1 DEF OtherMessage, Messages, RowStatuses, Shown
  <2>2. ASSUME NEW m \in Messages, StatusUpdated(m)
        PROVE  \E v \in RowStatuses :
                 /\ rows' = [rows EXCEPT ![m] = v] /\ frames' = frames \cup {Frame(m, v)}
                 /\ rows[m] # "none"
                 /\ UNCHANGED <<stored, requests, cache, outbox, mishaps, behind>>
    <3>1. Reports \subseteq RowStatuses
      BY ThreadAssumption DEF RowStatuses
    <3> QED
      BY <2>2, <3>1 DEF StatusUpdated, StatusMoves
  <2> QED
    BY <2>1, <2>2 DEF Shown
<1>2. rows \in [Messages -> Shown] /\ Frame(m, status) \in ThreadFrames /\ frames \subseteq ThreadFrames
  BY DEF BasicInv, ThreadTypeOK, Frame, ThreadFrames
<1>3. /\ rows' \in [Messages -> Shown] /\ frames' \subseteq ThreadFrames
      /\ \A q \in Messages : rows[q] # "none" => rows'[q] # "none"
      /\ \A q \in Sends : rows'[q] = "none" <=> rows[q] = "none"
  BY <1>1, <1>2, ThreadAssumption DEF Shown, RowStatuses, Messages
<1> QED
  BY <1>1, <1>3
     DEF BasicInv, ThreadTypeOK, RowsInv, RowsStored, TriesCounted, AnswersAreRows, PageIsRows,
         SentIsShown, requests, cache, ThreadFrames, Messages

LEMMA BroadcastStep ==
  ASSUME BasicInv, NEW frame \in frames, AnnouncedAnew(frame) \/ FrameLost(frame)
  PROVE  BasicInv'
<1>1. /\ frames \subseteq ThreadFrames /\ frame \in ThreadFrames /\ frame.message \in Messages
      /\ Frame(frame.message, rows[frame.message]) \in ThreadFrames
  BY DEF BasicInv, ThreadTypeOK, ThreadFrames, Frame
<1>2. /\ frames' \subseteq ThreadFrames /\ mishaps' \in 0 .. MaxMishaps /\ behind' \subseteq Messages
      /\ UNCHANGED <<server, requests, cache, outbox>>
  BY <1>1, ThreadAssumption DEF AnnouncedAnew, FrameLost, BasicInv, ThreadTypeOK
<1> QED
  BY <1>2
     DEF BasicInv, ThreadTypeOK, RowsInv, RowsStored, TriesCounted, AnswersAreRows, PageIsRows,
         SentIsShown, server, requests, cache, ThreadFrames

LEMMA FetchStep ==
  ASSUME BasicInv, FetchRead \/ FetchArrives \/ FetchFails
  PROVE  BasicInv'
<1>1. CASE FetchRead
  BY <1>1 DEF FetchRead, BasicInv, ThreadTypeOK, RowsInv, RowsStored, TriesCounted, AnswersAreRows,
              PageIsRows, SentIsShown, server, requests, Messages
<1>2. NoFetch \in [pc : {"none", "asked", "read"}, page : [Messages -> Shown]]
      /\ NoFetch.pc = "none" /\ \A m \in Messages : NoFetch.page[m] = "none"
  BY DEF NoFetch, Nothing, Shown
<1>3. CASE FetchArrives
  BY <1>2, <1>3
     DEF FetchArrives, BasicInv, ThreadTypeOK, RowsInv, RowsStored, TriesCounted, AnswersAreRows,
         PageIsRows, SentIsShown, server, requests, Messages
<1>4. CASE FetchFails
  <2>1. mishaps' \in 0 .. MaxMishaps /\ behind' \subseteq Messages /\ fetch' = NoFetch
        /\ UNCHANGED <<server, requests, frames, thread, outbox>>
    BY <1>4, ThreadAssumption DEF FetchFails, BasicInv, ThreadTypeOK
  <2> QED
    BY <1>2, <2>1
       DEF BasicInv, ThreadTypeOK, RowsInv, RowsStored, TriesCounted, AnswersAreRows,
           PageIsRows, SentIsShown, server, requests
<1> QED
  BY <1>1, <1>3, <1>4

LEMMA FrameStep ==
  ASSUME BasicInv, NEW frame \in frames, HandleFrame(frame)
  PROVE  BasicInv'
<1>1. /\ frames' \subseteq frames /\ UNCHANGED <<rows, stored, request, tries, outbox, mishaps>>
      /\ frame.message \in Messages /\ frame.status \in Shown
  BY DEF HandleFrame, server, requests, BasicInv, ThreadTypeOK
<1>2. /\ thread' \in [Messages -> Shown]
      /\ \A m \in Messages : (thread'[m] = "none" <=> thread[m] = "none")
  BY <1>1 DEF HandleFrame, MessageStatus, BasicInv, ThreadTypeOK
<1>3. Invalidate \/ (UNCHANGED fetch /\ behind' \subseteq Messages)
  BY <1>1 DEF HandleFrame, MessageCreated, MessageStatus, BasicInv, ThreadTypeOK
<1>4. /\ fetch' \in [pc : {"none", "asked", "read"}, page : [Messages -> Shown]]
      /\ behind' \subseteq Messages
      /\ fetch' = fetch \/ (fetch'.pc = "asked" /\ \A m \in Messages : fetch'.page[m] = "none")
  BY <1>3, InvalidateIsTyped DEF BasicInv, ThreadTypeOK
<1>5. ThreadTypeOK'
  BY <1>1, <1>2, <1>4 DEF BasicInv, ThreadTypeOK
<1>6. RowsInv'
  BY <1>1, <1>4 DEF BasicInv, RowsInv, RowsStored, TriesCounted, AnswersAreRows, PageIsRows
<1>7. SentIsShown'
  BY <1>1, <1>2, <1>4 DEF BasicInv, ThreadTypeOK, SentIsShown, Messages
<1> QED
  BY <1>5, <1>6, <1>7 DEF BasicInv

LEMMA BasicStep ==
  ASSUME BasicInv, [ThreadNext]_threadVars
  PROVE  BasicInv'
<1>1. CASE UNCHANGED threadVars
  BY <1>1 DEF threadVars, server, requests, cache, BasicInv, ThreadTypeOK, RowsInv, RowsStored,
              TriesCounted, AnswersAreRows, PageIsRows, SentIsShown
<1> QED
  BY <1>1, SendingStep, RequestStep, AnswerStep, ElsewhereStep, BroadcastStep, FetchStep, FrameStep
     DEF ThreadNext, SendGoes

-----------------------------------------------------------------------------
(* The messages and the frames on their way.                                *)

(* Steps of the tab and of requests that store nothing.                     *)
LEMMA QuietStepShows ==
  ASSUME KeptIsShown, UNCHANGED <<rows, frames, thread, fetch, behind>>
  PROVE  KeptIsShown'
BY DEF KeptIsShown, WillBeShown, OnItsWay, Brings

LEMMA FrameBrings ==
  ASSUME NEW m, NEW status, Frame(m, status) \in frames', status \in {"none", rows'[m]}
  PROVE  OnItsWay(m)'
<1>1. Frame(m, status).message = m /\ Frame(m, status).status = status
  BY DEF Frame
<1>2. \E frame \in frames' : frame.message = m /\ frame.status \in {"none", rows'[m]}
  BY <1>1
<1> QED
  BY <1>2 DEF OnItsWay, Brings

(* A message is stored or gets a status, and its frame is due.              *)
LEMMA NewFrameShows ==
  ASSUME BasicInv, KeptIsShown, NEW m \in Messages, NEW v \in RowStatuses,
         NEW status \in {"none", v},
         rows' = [rows EXCEPT ![m] = v], frames' = frames \cup {Frame(m, status)},
         UNCHANGED <<thread, fetch, behind>>
  PROVE  KeptIsShown'
<1>1. rows'[m] = v /\ \A other \in Messages \ {m} : rows'[other] = rows[other]
  BY DEF BasicInv, ThreadTypeOK
<1>2. OnItsWay(m)'
  BY <1>1, FrameBrings
<1>3. \A other \in Messages \ {m} : OnItsWay(other) => OnItsWay(other)'
  BY <1>1 DEF OnItsWay, Brings
<1>4. ASSUME NEW other \in Messages \ behind
      PROVE  WillBeShown(other)'
  BY <1>1, <1>2, <1>3 DEF KeptIsShown, WillBeShown
<1> QED
  BY <1>4 DEF KeptIsShown

LEMMA BroadcastShows ==
  ASSUME BasicInv, KeptIsShown, NEW frame \in frames, AnnouncedAnew(frame) \/ FrameLost(frame)
  PROVE  KeptIsShown'
<1>1. UNCHANGED <<rows, thread, fetch>> /\ behind \subseteq behind' /\ frame.message \in Messages
  BY DEF AnnouncedAnew, FrameLost, server, cache, BasicInv, ThreadTypeOK
<1>2. ASSUME NEW m \in Messages \ behind', OnItsWay(m)
      PROVE  OnItsWay(m)'
  <2>1. PICK bringer \in frames : Brings(bringer, m)
    BY <1>2 DEF OnItsWay
  <2>2. CASE bringer # frame
    BY <1>1, <2>1, <2>2 DEF OnItsWay, Brings, AnnouncedAnew, FrameLost
  <2>3. CASE bringer = frame
    <3>1. AnnouncedAnew(frame) /\ frame.message = m
      BY <1>2, <2>1, <2>3 DEF Brings, FrameLost
    <3>2. Frame(m, rows[m]) \in frames' /\ rows[m] \in {"none", rows'[m]}
      BY <1>1, <3>1 DEF AnnouncedAnew
    <3> QED
      BY <3>2, FrameBrings
  <2> QED
    BY <2>2, <2>3
<1> QED
  BY <1>1, <1>2 DEF KeptIsShown, WillBeShown

LEMMA FetchShows ==
  ASSUME BasicInv, KeptIsShown, FetchRead \/ FetchArrives \/ FetchFails
  PROVE  KeptIsShown'
<1>1. UNCHANGED <<rows, frames>>
  BY DEF FetchRead, FetchArrives, FetchFails, server
<1>2. \A m \in Messages : OnItsWay(m) => OnItsWay(m)'
  BY <1>1 DEF OnItsWay, Brings
<1>3. CASE FetchRead
  BY <1>1, <1>3 DEF FetchRead, KeptIsShown, WillBeShown
<1>4. CASE FetchArrives
  <2>1. fetch.pc = "read" /\ thread' = fetch.page /\ fetch'.pc = "none" /\ UNCHANGED behind
    BY <1>4 DEF FetchArrives, NoFetch
  <2> QED
    BY <1>1, <1>2, <2>1 DEF KeptIsShown, WillBeShown
<1>5. CASE FetchFails
  BY <1>5 DEF FetchFails, KeptIsShown
<1> QED
  BY <1>3, <1>4, <1>5

(* A frame that changes a shown status sets the message right, leaves what  *)
(* will to the row's own frame, or leaves the message behind.               *)
LEMMA PatchShows ==
  ASSUME BasicInv, KeptIsShown, NEW frame \in frames, HandleFrame(frame), fetch'.pc # "asked",
         frame.status # "none"
  PROVE  KeptIsShown'
<1> DEFINE at == frame.message
<1>1. at \in Messages /\ frames' = frames \ {frame} /\ UNCHANGED rows
  BY DEF HandleFrame, server, BasicInv, ThreadTypeOK
<1>2. /\ thread' = [thread EXCEPT ![at] = IF @ = "none" THEN @ ELSE frame.status]
      /\ Patched(at) /\ UNCHANGED fetch
      /\ behind' = IF SetBack(at, frame.status) THEN behind \cup {at} ELSE behind
  BY InvalidateIsTyped DEF HandleFrame, MessageStatus
<1>3. thread[at] # "none"
  BY <1>1, <1>2 DEF Patched, BasicInv, SentIsShown
<1>4. thread'[at] = frame.status /\ \A m \in Messages \ {at} : thread'[m] = thread[m]
  BY <1>1, <1>2, <1>3 DEF BasicInv, ThreadTypeOK
<1>5. ASSUME NEW m \in Messages \ behind', m # at
      PROVE  WillBeShown(m)'
  <2>1. OnItsWay(m) => OnItsWay(m)'
    BY <1>1, <1>5 DEF OnItsWay, Brings
  <2> QED
    BY <1>1, <1>2, <1>4, <1>5, <2>1 DEF KeptIsShown, WillBeShown
<1>6. ASSUME at \notin behind'
      PROVE  WillBeShown(at)'
  <2>1. ~SetBack(at, frame.status)
    BY <1>2, <1>6
  <2>2. CASE frame.status # rows[at]
    <3>1. Frame(at, rows[at]) \in frames
      BY <2>1, <2>2 DEF SetBack
    <3>2. Frame(at, rows[at]) # frame
      BY <2>2 DEF Frame
    <3>3. Frame(at, rows[at]) \in frames' /\ rows[at] \in {"none", rows'[at]}
      BY <1>1, <3>1, <3>2
    <3>4. OnItsWay(at)'
      BY <3>3, FrameBrings
    <3> QED
      BY <3>4 DEF WillBeShown
  <2>3. CASE frame.status = rows[at]
    <3>1. fetch.pc = "read" => fetch.page[at] = rows[at]
      BY <2>1, <2>3 DEF SetBack
    <3>2. fetch.pc \in {"none", "read"}
      BY <1>2 DEF BasicInv, ThreadTypeOK
    <3> QED
      BY <1>1, <1>2, <1>4, <2>3, <3>1, <3>2 DEF WillBeShown
  <2> QED
    BY <2>2, <2>3
<1> QED
  BY <1>5, <1>6 DEF KeptIsShown

LEMMA FrameShows ==
  ASSUME BasicInv, KeptIsShown, NEW frame \in frames, HandleFrame(frame)
  PROVE  KeptIsShown'
<1>1. CASE fetch'.pc = "asked"
  BY <1>1 DEF KeptIsShown, WillBeShown
<1>2. CASE fetch'.pc # "asked" /\ frame.status = "none"
  <2>1. /\ UNCHANGED <<rows, thread, fetch>> /\ behind' = behind \cup {frame.message}
        /\ frames' = frames \ {frame}
    BY <1>2, InvalidateIsTyped DEF HandleFrame, MessageCreated, server
  <2>2. ASSUME NEW m \in Messages \ behind'
        PROVE  WillBeShown(m)'
    <3>1. OnItsWay(m) => OnItsWay(m)'
      BY <2>1, <2>2 DEF OnItsWay, Brings
    <3> QED
      BY <2>1, <2>2, <3>1 DEF KeptIsShown, WillBeShown
  <2> QED
    BY <2>2 DEF KeptIsShown
<1>3. CASE fetch'.pc # "asked" /\ frame.status # "none"
  BY <1>3, PatchShows
<1> QED
  BY <1>1, <1>2, <1>3

LEMMA ShownStep ==
  ASSUME BasicInv, KeptIsShown, [ThreadNext]_threadVars
  PROVE  KeptIsShown'
<1>1. ASSUME NEW s \in Sends,
             \/ Send(s) \/ Retry(s) \/ Discard(s) \/ DropEntry(s) \/ SendRefused(s) \/ SendLost(s)
             \/ \E k \in Tries : FindExisting(s, k) \/ PolicyForbids(s, k)
      PROVE  KeptIsShown'
  <2>1. UNCHANGED <<rows, frames, thread, fetch, behind>>
    BY <1>1 DEF Send, Retry, Run, Discard, DropEntry, SendRefused, SendLost, SendFails, FindExisting,
                PolicyForbids, server, cache
  <2> QED
    BY <2>1, QuietStepShows
<1>2. ASSUME NEW s \in Sends, SendAnswered(s)
      PROVE  KeptIsShown'
  BY <1>2, InvalidateIsTyped DEF SendAnswered, KeptIsShown, WillBeShown
<1>3. ASSUME NEW s \in Sends, NEW k \in Tries, StoreMessage(s, k)
      PROVE  KeptIsShown'
  <2>1. UNCHANGED <<thread, fetch, behind>> /\ s \in Messages
    BY <1>3 DEF StoreMessage, cache, Messages
  <2>2. CASE rows[s] = "none"
    <3>1. rows' = [rows EXCEPT ![s] = "queued"] /\ frames' = frames \cup {Frame(s, "none")}
      BY <1>3, <2>2 DEF StoreMessage
    <3>2. "queued" \in RowStatuses /\ "none" \in {"none", "queued"}
      BY DEF RowStatuses
    <3> QED
      BY <2>1, <3>1, <3>2, NewFrameShows
  <2>3. CASE rows[s] # "none"
    <3>1. UNCHANGED <<rows, frames>>
      BY <1>3, <2>3 DEF StoreMessage, server
    <3> QED
      BY <2>1, <3>1, QuietStepShows
  <2> QED
    BY <2>2, <2>3
<1>4. ASSUME NEW m \in Others, OtherMessage(m)
      PROVE  KeptIsShown'
  <2>1. PICK v \in {"received", "queued"} :
          /\ rows' = [rows EXCEPT ![m] = v] /\ frames' = frames \cup {Frame(m, "none")}
          /\ UNCHANGED <<thread, fetch, behind>>
    BY <1>4 DEF OtherMessage, cache
  <2>2. v \in RowStatuses /\ "none" \in {"none", v} /\ m \in Messages
    BY DEF RowStatuses, Messages
  <2> QED
    BY <2>1, <2>2, NewFrameShows
<1>5. ASSUME NEW m \in Messages, StatusUpdated(m)
      PROVE  KeptIsShown'
  <2>1. PICK status \in RowStatuses :
          /\ rows' = [rows EXCEPT ![m] = status] /\ frames' = frames \cup {Frame(m, status)}
          /\ UNCHANGED <<thread, fetch, behind>>
    BY <1>5, ThreadAssumption DEF StatusUpdated, cache, RowStatuses
  <2>2. status \in {"none", status}
    OBVIOUS
  <2> QED
    BY <2>1, <2>2, NewFrameShows
<1>6. CASE UNCHANGED threadVars
  BY <1>6, QuietStepShows DEF threadVars, server, requests, cache
<1> QED
  BY <1>1, <1>2, <1>3, <1>4, <1>5, <1>6, BroadcastShows, FetchShows, FrameShows DEF ThreadNext, SendGoes

-----------------------------------------------------------------------------
LEMMA ThreadInvInit ==
  ASSUME ThreadInit
  PROVE  ThreadInv
<1>1. /\ rows \in [Messages -> Shown] /\ \A m \in Messages : rows[m] = "none"
      /\ thread = rows /\ fetch.pc = "none" /\ fetch.page = rows
      /\ fetch \in [pc : {"none", "asked", "read"}, page : [Messages -> Shown]]
  BY DEF ThreadInit, Nothing, NoFetch, Shown
<1>2. request \in [Sends -> [Tries -> RequestType]] /\ \A s \in Sends, k \in Tries : request[s][k].pc = "unused"
  <2>1. Unused \in RequestType /\ Unused.pc = "unused"
    BY DEF Unused, RequestType, Shown
  <2> QED
    BY <2>1 DEF ThreadInit
<1>3. ThreadTypeOK
  BY <1>1, <1>2, ThreadAssumption DEF ThreadInit, ThreadTypeOK, RequestType
<1>4. RowsInv /\ SentIsShown
  BY <1>1, <1>2
     DEF ThreadInit, RowsInv, RowsStored, TriesCounted, AnswersAreRows, PageIsRows, SentIsShown, Messages
<1>5. KeptIsShown
  BY <1>1 DEF KeptIsShown, WillBeShown
<1> QED
  BY <1>3, <1>4, <1>5 DEF ThreadInv

LEMMA ThreadInvStep ==
  ASSUME ThreadInv, [ThreadNext]_threadVars
  PROVE  ThreadInv'
<1>1. BasicInv /\ KeptIsShown
  BY DEF ThreadInv, BasicInv
<1> QED
  BY <1>1, BasicStep, ShownStep DEF ThreadInv, BasicInv

\* A message the tab does not show as it is will be put right by a frame that is due or
\* by a refetch, or is one that was left behind, whatever order the frames come in and
\* whichever are lost; and the types, the rows and the answers agree.
THEOREM ThreadInvariant == ThreadSpec => []ThreadInv
<1>1. ThreadInit => ThreadInv
  BY ThreadInvInit
<1>2. ThreadInv /\ [ThreadNext]_threadVars => ThreadInv'
  BY ThreadInvStep
<1> QED
  BY <1>1, <1>2, PTL DEF ThreadSpec

\* Thread's variables keep their types, and what is shown has a row.
THEOREM ThreadTypeCorrect == ThreadSpec => []ThreadTypeOK
<1>1. ThreadInv => ThreadTypeOK
  BY DEF ThreadInv
<1> QED
  BY <1>1, ThreadInvariant, PTL

\* The Idempotency-Key stores a send once, for any number of retries and of
\* requests that are still at work after the tab gave them up.
THEOREM ThreadStoredOnce == ThreadSpec => []StoredOnce
<1>1. ASSUME ThreadInv
      PROVE  StoredOnce
  <2>1. ASSUME NEW s \in Sends
        PROVE  stored[s] <= 1
    <3>1. stored[s] \in {0, 1}
      BY <1>1 DEF ThreadInv, RowsInv, RowsStored
    <3>2. \A n \in {0, 1} : n <= 1
      OBVIOUS
    <3> QED
      BY <3>1, <3>2
  <2> QED
    BY <2>1 DEF StoredOnce
<1> QED
  BY <1>1, ThreadInvariant, PTL

\* No message disappears when its optimistic bubble does, and a quiet thread is current
\* but for the messages left behind (QuietThreadIsCurrent names how), whichever frames
\* and refetches cross, come in any order, are lost or fail.
THEOREM ThreadMissesNothing == ThreadSpec => []ThreadShowsAll
<1>1. ASSUME ThreadInv
      PROVE  ThreadShowsAll
  <2>1. SentStaysVisible
    BY <1>1 DEF ThreadInv, SentIsShown, SentStaysVisible
  <2>2. ASSUME Quiet, NEW m \in Messages \ behind
        PROVE  thread[m] = rows[m]
    BY <1>1, <2>2 DEF ThreadInv, KeptIsShown, WillBeShown, OnItsWay, Quiet
  <2> QED
    BY <2>1, <2>2 DEF ThreadShowsAll, QuietThreadIsCurrent
<1> QED
  BY <1>1, ThreadInvariant, PTL

-----------------------------------------------------------------------------
(* The realtime connection.                                                 *)
InUse(c) == chain[c] # "unused"
Idling(c) == chain[c] \in {"unused", "ticket"}

(* One chain or one timer, and this.socket names what stop() has to close.  *)
Single ==
  /\ strays = 0
  /\ timer => \A c \in Slots : ~InUse(c)
  /\ \A c, d \in Slots : InUse(c) /\ InUse(d) => c = d
  /\ \A c \in Slots : ~stopped /\ ~Idling(c) => socket = c
  /\ stopped => ~timer /\ \A c \in Slots : Idling(c)

NotBegun == stopped /\ ~timer /\ strays = 0 /\ \A c \in Slots : ~InUse(c)

RealtimeInv ==
  /\ RealtimeTypeOK
  /\ connStatus = "idle" => NotBegun
  /\ ~overlapped => Single

ChainPlaces == {"unused", "ticket", "connecting", "checked", "joined", "open", "dropped"}

ConnectionTypes ==
  /\ stopped \in BOOLEAN /\ hasOpened \in BOOLEAN /\ member \in BOOLEAN /\ overlapped \in BOOLEAN
  /\ connStatus \in {"idle", "connecting", "open", "reconnecting", "closed"}
  /\ socket \in Slots \cup {NoSocket}
  /\ timer \in BOOLEAN /\ strays \in Nat
  /\ chain \in [Slots -> ChainPlaces]
  /\ socket # NoSocket => ~Idling(socket)
QueryTypes ==
  /\ version \in 0 .. MaxEvents /\ shown \in 0 .. version /\ promised \in 0 .. version
  /\ refetch \in [pc : {"none", "asked", "read"}, got : 0 .. version]
  /\ drops \in 0 .. MaxDrops /\ onlines \in 0 .. MaxOnline
PipeTypes == pipe \in [Slots -> Seq({"changed", "revoked"})]

LEMMA RealtimeByPart == RealtimeTypeOK <=> ConnectionTypes /\ QueryTypes /\ PipeTypes
BY DEF RealtimeTypeOK, ConnectionTypes, QueryTypes, PipeTypes, ChainPlaces, Idling, Frames

LEMMA PipeStep ==
  ASSUME PipeTypes, [RealtimeNext]_realtimeVars
  PROVE  PipeTypes'
<1> DEFINE F == {"changed", "revoked"}
<1> USE DEF PipeTypes
<1>1. CASE UNCHANGED pipe
  BY <1>1
<1>2. ASSUME NEW frame \in F, ToGroup(frame)
      PROVE  PipeTypes'
  BY <1>2 DEF ToGroup
<1>3. ASSUME NEW chains, NEW pipes \in [Slots -> Seq(F)], Stop(chains, pipes)
      PROVE  PipeTypes'
  <2>1. <<>> \in Seq(F)
    OBVIOUS
  <2> QED
    BY <1>3, <2>1 DEF Stop
<1>4. ASSUME NEW c \in Slots, FrameArrives(c)
      PROVE  PipeTypes'
  <2>1. Tail(pipe[c]) \in Seq(F)
    BY <1>4 DEF FrameArrives
  <2>2. [pipe EXCEPT ![c] = Tail(@)] \in [Slots -> Seq(F)]
    BY <2>1
  <2> QED
    BY <1>3, <1>4, <2>2 DEF FrameArrives
<1>5. ASSUME NEW c \in Slots, Cut(c)
      PROVE  PipeTypes'
  <2>1. ASSUME NEW n \in 0 .. Len(pipe[c])
        PROVE  SubSeq(pipe[c], 1, n) \in Seq(F)
    <3>1. pipe[c] \in Seq(F) /\ Len(pipe[c]) \in Nat
      OBVIOUS
    <3>2. \A i \in 1 .. n : pipe[c][i] \in F
      BY <3>1
    <3> QED
      BY <3>1, <3>2, SubSeqProperties
  <2>2. <<>> \in Seq(F)
    OBVIOUS
  <2> QED
    BY <1>5, <2>1, <2>2 DEF Cut
<1>6. Leave => Stop(chain, pipe)
  BY DEF Leave
<1>7. \/ UNCHANGED pipe \/ Leave \/ Change \/ RevokeMembership \/ RevokeSession
      \/ \E c \in Slots : FrameArrives(c) \/ Cut(c)
  BY Zenon
     DEF RealtimeNext, realtimeVars, Start, TimerFires, HandleOnline, ChainGoes, TicketArrives, TicketFails,
         CheckMembership, Join, SocketOpens, SocketCloses, ChangeUnheard, RefetchRead, RefetchArrives
<1> QED
  BY <1>1, <1>2, <1>3, <1>4, <1>5, <1>6, <1>7 DEF Change, RevokeMembership, RevokeSession

LEMMA QueryStep ==
  ASSUME QueryTypes, [RealtimeNext]_realtimeVars
  PROVE  QueryTypes'
<1> USE RealtimeAssumption DEF QueryTypes
<1>1. CASE UNCHANGED <<version, queries, promised, drops, onlines>>
  BY <1>1 DEF queries
<1>2. CASE Start \/ Leave \/ TimerFires \/ RevokeMembership \/ RevokeSession
  BY <1>2 DEF Start, Leave, TimerFires, RevokeMembership, RevokeSession, queries
<1>3. CASE HandleOnline
  BY <1>3 DEF HandleOnline, queries
<1>4. ASSUME NEW c \in Slots, \/ TicketArrives(c) \/ TicketFails(c) \/ CheckMembership(c) \/ Join(c)
                                 \/ SocketCloses(c) \/ Cut(c)
      PROVE  QueryTypes'
  BY <1>4 DEF TicketArrives, TicketFails, CheckMembership, Join, SocketCloses, Cut, queries
<1>5. ASSUME NEW c \in Slots, SocketOpens(c) \/ FrameArrives(c)
      PROVE  QueryTypes'
  <2>1. UNCHANGED <<version, shown, promised, drops, onlines>> /\ (Refetch \/ UNCHANGED refetch)
    BY <1>5 DEF SocketOpens, Opens, FrameArrives
  <2> QED
    BY <2>1 DEF Refetch
<1>6. CASE Change \/ ChangeUnheard
  <2>1. /\ version' = version + 1 /\ version' \in 0 .. MaxEvents /\ UNCHANGED <<queries, onlines>>
        /\ promised' \in {promised, version'} /\ drops' \in 0 .. MaxDrops
    BY <1>6 DEF Change, ChangeUnheard
  <2> QED
    BY <2>1 DEF queries
<1>7. CASE RefetchRead \/ RefetchArrives
  BY <1>7 DEF RefetchRead, RefetchArrives, Idle
<1> QED
  BY <1>1, <1>2, <1>3, <1>4, <1>5, <1>6, <1>7 DEF RealtimeNext, ChainGoes, realtimeVars, queries

(* What a step may do to the connection.                                    *)
ConnectionInv ==
  ConnectionTypes /\ (connStatus = "idle" => NotBegun) /\ (~overlapped => Single)

LEMMA ConnectKeeps ==
  ASSUME ConnectionInv, timer' = FALSE, strays' \in Nat, strays' <= strays, UNCHANGED <<stopped, hasOpened, socket, member>>,
         overlapped' \in BOOLEAN, ~overlapped' => ~overlapped,
         ~overlapped' /\ ~stopped => \A c \in Slots : ~InUse(c),
         connStatus # "idle", Connect
  PROVE  ConnectionInv'
<1> USE SlotAssumption DEF ConnectionInv, ConnectionTypes
<1>1. CASE stopped
  <2>1. UNCHANGED <<connStatus, chain>>
    BY <1>1 DEF Connect
  <2>2. ConnectionTypes'
    BY <2>1 DEF Idling
  <2>3. strays = 0 => strays' = 0
    OBVIOUS
  <2>4. ~overlapped' => Single'
    BY <1>1, <2>1, <2>3, Zenon DEF Single, Idling, InUse
  <2> QED
    BY <2>1, <2>2, <2>4
<1>2. CASE ~stopped
  <2>1. PICK c \in Slots : chain[c] = "unused" /\ chain' = [chain EXCEPT ![c] = "ticket"]
    BY <1>2 DEF Connect
  <2>2. connStatus' \in {"connecting", "reconnecting"}
    BY <1>2 DEF Connect
  <2>3. chain' \in [Slots -> ChainPlaces] /\ (socket' # NoSocket => ~Idling(socket)')
    BY <2>1 DEF ChainPlaces, Idling
  <2>4. ASSUME ~overlapped' PROVE Single'
    <3>1. \A d \in Slots : ~InUse(d) /\ (chain'[d] # "unused" => d = c)
      BY <1>2, <2>1, <2>4 DEF InUse
    <3> QED
      BY <1>2, <2>1, <2>4, <3>1 DEF Single, InUse, Idling
  <2> QED
    BY <2>2, <2>3, <2>4
<1> QED
  BY <1>1, <1>2

(* A chain ends: the next one waits for its timer, unless stop() was called.*)
LEMMA EndKeeps ==
  ASSUME ConnectionInv, NEW c \in Slots, InUse(c), chain' = [chain EXCEPT ![c] = "unused"],
         socket' = IF socket = c THEN NoSocket ELSE socket, ScheduleReconnect,
         UNCHANGED <<stopped, hasOpened, member, overlapped>>
  PROVE  ConnectionInv'
<1> USE SlotAssumption DEF ConnectionInv, ConnectionTypes
<1>0. connStatus # "idle"
  BY DEF NotBegun, InUse
<1>1. chain' \in [Slots -> ChainPlaces] /\ (socket' # NoSocket => ~Idling(socket)')
  BY DEF ChainPlaces, Idling
<1>2. CASE stopped
  <2>1. UNCHANGED <<connStatus, timer, strays>>
    BY <1>2 DEF ScheduleReconnect
  <2>2. ~overlapped' => Single'
    BY <1>2, <2>1 DEF Single, InUse, Idling
  <2> QED
    BY <1>0, <1>1, <2>1, <2>2
<1>3. CASE ~stopped
  <2>1. connStatus' = "reconnecting" /\ timer' = TRUE /\ strays' = IF timer THEN strays + 1 ELSE strays
    BY <1>3 DEF ScheduleReconnect
  <2>2. ASSUME ~overlapped PROVE Single'
    <3>1. ~timer /\ strays' = 0
      BY <2>1, <2>2 DEF Single
    <3>2. \A d \in Slots : chain'[d] = "unused"
      BY <2>2 DEF Single, InUse
    <3> QED
      BY <1>3, <3>1, <3>2 DEF Single, InUse, Idling
  <2>3. strays' \in Nat
    BY <2>1
  <2> QED
    BY <1>1, <2>1, <2>2, <2>3
<1> QED
  BY <1>2, <1>3

LEMMA StopKeeps ==
  ASSUME ConnectionInv, NEW chains \in [Slots -> ChainPlaces], NEW pipes, Stop(chains, pipes),
         \A c \in Slots : chains[c] = chain[c] \/ (~Idling(c) /\ chains[c] = "dropped"),
         connStatus # "idle", UNCHANGED <<hasOpened, strays, member, overlapped>>
  PROVE  ConnectionInv'
<1> USE SlotAssumption DEF ConnectionInv, ConnectionTypes
<1>1. /\ stopped' = TRUE /\ connStatus' = "closed" /\ socket' = NoSocket /\ timer' = FALSE
      /\ chain' = [c \in Slots |-> IF c = socket THEN "unused" ELSE chains[c]]
  BY DEF Stop
<1>2. chain' \in [Slots -> ChainPlaces]
  BY <1>1 DEF ChainPlaces
<1>3. ASSUME ~overlapped PROVE Single'
  <2>1. \A c \in Slots : chain'[c] # "unused" => InUse(c)
    BY <1>1 DEF InUse, Idling
  <2>2. \A c \in Slots : Idling(c)'
    BY <1>1, <1>3 DEF Single, Idling
  <2> QED
    BY <1>1, <1>3, <2>1, <2>2 DEF Single, InUse, Idling
<1> QED
  BY <1>1, <1>2, <1>3

LEMMA ConnectionStep ==
  ASSUME ConnectionInv, [RealtimeNext]_realtimeVars
  PROVE  ConnectionInv'
<1> USE SlotAssumption
<1> ConnectionTypes
  BY DEF ConnectionInv
<1>1. CASE UNCHANGED <<connection, chain, member, overlapped>>
  BY <1>1 DEF ConnectionInv, ConnectionTypes, NotBegun, Single, Idling, InUse, connection
<1>2. CASE Start
  <2>1. PICK c \in Slots : chain[c] = "unused" /\ chain' = [chain EXCEPT ![c] = "ticket"]
    BY <1>2 DEF Start, Connect
  <2>2. connStatus' \in {"connecting", "reconnecting"} /\ stopped' = FALSE
    BY <1>2 DEF Start, Connect
  <2>3. NotBegun /\ UNCHANGED <<hasOpened, socket, timer, strays, member, overlapped>>
    BY <1>2 DEF Start, ConnectionInv
  <2>4. ConnectionTypes'
    BY <2>1, <2>2, <2>3 DEF ConnectionTypes, ChainPlaces, Idling
  <2>5. Single'
    BY <2>1, <2>2, <2>3 DEF ConnectionTypes, NotBegun, Single, InUse, Idling
  <2> QED
    BY <2>2, <2>4, <2>5 DEF ConnectionInv
<1>3. CASE Leave
  BY <1>3, StopKeeps DEF Leave, ConnectionInv, ConnectionTypes, NotBegun
<1>4. CASE TimerFires
  <2>1. connStatus # "idle"
    BY <1>4 DEF TimerFires, ConnectionInv, NotBegun
  <2>2. strays' \in Nat /\ strays' <= strays /\ timer' = FALSE
    BY <1>4 DEF TimerFires, ConnectionTypes
  <2>3. ~overlapped => \A c \in Slots : ~InUse(c)
    BY <1>4 DEF TimerFires, ConnectionInv, Single
  <2>4. UNCHANGED <<stopped, hasOpened, socket, member, overlapped>> /\ Connect
    BY <1>4 DEF TimerFires
  <2> QED
    BY <2>1, <2>2, <2>3, <2>4, ConnectKeeps DEF ConnectionTypes
<1>5. CASE HandleOnline
  <2>1. connStatus # "idle"
    BY <1>5 DEF HandleOnline, ConnectionInv, NotBegun
  <2>2. overlapped' = (overlapped \/ UnderWay)
    BY <1>5 DEF HandleOnline
  <2>3. overlapped' \in BOOLEAN /\ (~overlapped' => ~overlapped /\ \A c \in Slots : ~InUse(c))
    BY <2>2, Zenon DEF UnderWay, InUse
  <2>4. /\ UNCHANGED <<stopped, hasOpened, socket, strays, member>> /\ timer' = FALSE /\ Connect
    BY <1>5 DEF HandleOnline
  <2>5. strays' \in Nat /\ strays' <= strays
    BY <2>4 DEF ConnectionTypes
  <2> QED
    BY <2>1, <2>3, <2>4, <2>5, ConnectKeeps
<1>6. ASSUME NEW c \in Slots, TicketArrives(c)
      PROVE  ConnectionInv'
  <2>1. /\ chain[c] = "ticket"
        /\ UNCHANGED <<stopped, connStatus, hasOpened, timer, strays, member, overlapped>>
    BY <1>6 DEF TicketArrives
  <2>2. CASE stopped
    <3>1. chain' = [chain EXCEPT ![c] = "unused"] /\ UNCHANGED socket
      BY <1>6, <2>2 DEF TicketArrives
    <3> QED
      BY <2>1, <2>2, <3>1
         DEF ConnectionInv, ConnectionTypes, ChainPlaces, NotBegun, Single, InUse, Idling
  <2>3. CASE ~stopped
    <3>1. chain' = [chain EXCEPT ![c] = "connecting"] /\ socket' = c
      BY <1>6, <2>3 DEF TicketArrives
    <3> QED
      BY <2>1, <2>3, <3>1
         DEF ConnectionInv, ConnectionTypes, ChainPlaces, NotBegun, Single, InUse, Idling
  <2> QED
    BY <2>2, <2>3
<1>7. ASSUME NEW c \in Slots, TicketFails(c)
      PROVE  ConnectionInv'
  <2>1. chain[c] = "ticket" /\ socket # c
    BY <1>7 DEF TicketFails, ConnectionTypes, Idling
  <2> QED
    BY <1>7, <2>1, EndKeeps DEF TicketFails, InUse
<1>8. ASSUME NEW c \in Slots, SocketCloses(c)
      PROVE  ConnectionInv'
  BY <1>8, EndKeeps DEF SocketCloses, InUse
<1>9. ASSUME NEW c \in Slots, CheckMembership(c) \/ Join(c) \/ SocketOpens(c) \/ Cut(c)
      PROVE  ConnectionInv'
  <2>1. PICK place \in {"checked", "joined", "open", "dropped"} : chain' = [chain EXCEPT ![c] = place]
    BY <1>9 DEF CheckMembership, Join, SocketOpens, Cut
  <2>2. /\ UNCHANGED <<stopped, socket, timer, strays, member, overlapped>>
        /\ (hasOpened' = TRUE /\ connStatus' = "open") \/ UNCHANGED <<hasOpened, connStatus>>
    BY <1>9 DEF CheckMembership, Join, SocketOpens, Cut, connection
  <2>3. chain[c] \in {"connecting", "checked", "joined", "open"}
    BY <1>9 DEF CheckMembership, Join, SocketOpens, Cut
  <2>4. ConnectionTypes'
    BY <2>1, <2>2, <2>3 DEF ConnectionTypes, ChainPlaces, Idling
  <2>5. connStatus' # "idle"
    BY <2>2, <2>3 DEF ConnectionInv, NotBegun, InUse
  <2>6. ~overlapped => Single'
    BY <2>1, <2>2, <2>3 DEF ConnectionInv, ConnectionTypes, Single, InUse, Idling
  <2> QED
    BY <2>2, <2>4, <2>5, <2>6 DEF ConnectionInv
<1>10. ASSUME NEW c \in Slots, FrameArrives(c)
       PROVE  ConnectionInv'
  <2>1. CASE Stop([chain EXCEPT ![c] = "dropped"], [pipe EXCEPT ![c] = Tail(@)])
    <3>1. chain[c] \in {"open", "dropped"} /\ UNCHANGED <<hasOpened, strays, member, overlapped>>
      BY <1>10 DEF FrameArrives
    <3>2. connStatus # "idle"
      BY <3>1 DEF ConnectionInv, NotBegun, InUse
    <3>3. [chain EXCEPT ![c] = "dropped"] \in [Slots -> ChainPlaces]
      BY DEF ConnectionTypes, ChainPlaces
    <3> QED
      BY <2>1, <3>1, <3>2, <3>3, StopKeeps DEF ConnectionTypes, Idling
  <2> QED
    BY <1>1, <1>10, <2>1 DEF FrameArrives, connection
<1>11. CASE Change \/ ChangeUnheard \/ RevokeMembership \/ RevokeSession \/ RefetchRead \/ RefetchArrives
  <2>1. UNCHANGED <<connection, chain, overlapped>> /\ member' \in {member, FALSE}
    BY <1>11 DEF Change, ChangeUnheard, RevokeMembership, RevokeSession, RefetchRead, RefetchArrives
  <2> QED
    BY <2>1 DEF ConnectionInv, ConnectionTypes, NotBegun, Single, Idling, InUse, connection
<1> QED
  BY <1>1, <1>2, <1>3, <1>4, <1>5, <1>6, <1>7, <1>8, <1>9, <1>10, <1>11
     DEF RealtimeNext, ChainGoes, realtimeVars

\* For any number of slots, cuts, changes and online events: unless 'online' came
\* while a connect() was under way, there is one chain or one timer, this.socket names
\* the socket that stop() has to close, and no stray timer is left.
THEOREM RealtimeInvariant == RealtimeSpec => []RealtimeInv
<1>1. RealtimeInit => RealtimeInv
  <2> SUFFICES ASSUME RealtimeInit PROVE RealtimeInv
    OBVIOUS
  <2>1. ConnectionTypes /\ NotBegun /\ Single
    BY SlotAssumption DEF RealtimeInit, ConnectionTypes, ChainPlaces, NotBegun, Single, InUse, Idling
  <2>2. QueryTypes
    BY RealtimeAssumption DEF RealtimeInit, QueryTypes, Idle
  <2>3. PipeTypes
    BY DEF RealtimeInit, PipeTypes
  <2> QED
    BY <2>1, <2>2, <2>3, RealtimeByPart DEF RealtimeInv
<1>2. RealtimeInv /\ [RealtimeNext]_realtimeVars => RealtimeInv'
  <2> SUFFICES ASSUME RealtimeInv, [RealtimeNext]_realtimeVars PROVE RealtimeInv'
    OBVIOUS
  <2>1. ConnectionInv /\ QueryTypes /\ PipeTypes
    BY RealtimeByPart DEF RealtimeInv, ConnectionInv
  <2>2. ConnectionInv' /\ QueryTypes' /\ PipeTypes'
    BY <2>1, ConnectionStep, QueryStep, PipeStep
  <2> QED
    BY <2>2 DEF RealtimeInv, ConnectionInv, RealtimeTypeOK, ConnectionTypes, QueryTypes, PipeTypes,
                ChainPlaces, Idling, Frames
<1> QED
  BY <1>1, <1>2, PTL DEF RealtimeSpec

\* Every variable of the connection keeps its type.
THEOREM RealtimeTypeCorrect == RealtimeSpec => []RealtimeTypeOK
<1>1. RealtimeInv => RealtimeTypeOK
  BY DEF RealtimeInv
<1> QED
  BY <1>1, RealtimeInvariant, PTL

\* "One WebSocket per workspace", and none, nor a timer that makes one, after stop():
\* as long as 'online' never came while a connect() was under way.
THEOREM RealtimeOneConnection == RealtimeSpec => []OneConnection
<1>1. RealtimeInv => OneSocketUnlessOverlapped
  <2> SUFFICES ASSUME RealtimeTypeOK, Single PROVE OneSocket
    BY DEF RealtimeInv, OneSocketUnlessOverlapped
  <2>1. Waiting = IF timer THEN 1 ELSE 0
    BY DEF Single, Waiting
  <2>2. CASE Sockets = {}
    <3>1. Cardinality(Sockets) = 0
      BY <2>2, FS_EmptySet
    <3> QED
      BY <2>1, <3>1 DEF OneSocket
  <2>3. CASE Sockets # {}
    <3>1. PICK c \in Slots : InUse(c)
      BY <2>3 DEF Sockets, InUse
    <3>2. Sockets = {c} /\ ~timer
      BY <3>1 DEF Single, Sockets, InUse
    <3>3. Cardinality(Sockets) = 1
      BY <3>2, FS_Singleton
    <3> QED
      BY <2>1, <3>2, <3>3 DEF OneSocket
  <2> QED
    BY <2>2, <2>3
<1>2. RealtimeInv => StopIsFinal
  BY DEF RealtimeInv, StopIsFinal, Single, Waiting, Idling
<1> QED
  BY <1>1, <1>2, RealtimeInvariant, PTL DEF OneConnection

-----------------------------------------------------------------------------
(* The session.                                                             *)
RunTable == [Tabs -> [RunIds -> RunRecord]]
Statuses == {"unissued", "live", "rotated", "ended"}

TokenTypes ==
  /\ locks \in BOOLEAN /\ marker \in BOOLEAN
  /\ cookie \in Tokens \cup {NoToken}
  /\ token \in [Tokens -> Statuses]
  /\ lost \subseteq Tokens
  /\ ending \in BOOLEAN /\ loggedOut \in BOOLEAN
RunTypes ==
  /\ holder \in [tab : Tabs, run : RunIds] \cup {Free}
  /\ run \in RunTable
  /\ inFlight \in [Tabs -> RunIds \cup {NoRun}]
  /\ \A t \in Tabs : inFlight[t] # NoRun => run[t][inFlight[t]] # IdleRun
TabTypes ==
  /\ access \in [Tabs -> Tokens \cup {NoToken}]
  /\ leaving \in [Tabs -> BOOLEAN]
  /\ channel \in [Tabs -> Seq(Message)]
  /\ storage \in [Tabs -> Seq({"removed"})]
  /\ logins \in Nat /\ logouts \in Nat /\ faults \in Nat

LEMMA SessionByPart == SessionTypeOK <=> TokenTypes /\ RunTypes /\ TabTypes
BY DEF SessionTypeOK, TokenTypes, RunTypes, TabTypes, RunTable, Statuses

(* A refresh that was answered with a token was sent with one.              *)
Answered(x) == x.pc = "granted" => x.sent # NoToken /\ x.got # NoToken
AnswersFit == \A t \in Tabs, r \in RunIds : Answered(run[t][r])

(* Refresh r of tab t becomes x, and no other changes.                      *)
RunBecomes(t, r, x) ==
  /\ x \in RunRecord /\ run' \in RunTable
  /\ run'[t][r] = x
  /\ \A u \in Tabs, s \in RunIds : u # t \/ s # r => run'[u][s] = run[u][s]

LEMMA RunSet ==
  ASSUME run \in RunTable, NEW t \in Tabs, NEW r \in RunIds, NEW x \in RunRecord,
         run' = [run EXCEPT ![t][r] = x]
  PROVE  RunBecomes(t, r, x)
BY DEF RunBecomes, RunTable

LEMMA RunsOfNothing == IdleRun \in RunRecord /\ IdleRun.pc = "idle" /\ Answered(IdleRun)
BY DEF IdleRun, RunRecord, RunStates, Answered

LEMMA PerformedRun ==
  ASSUME TokenTypes, NEW t \in Tabs, NEW stale \in Tokens \cup {NoToken}
  PROVE  /\ Performed(t, stale) \in RunRecord
         /\ \/ Performed(t, stale).pc = "reuse"
            \/ Performed(t, stale).pc = "sent" /\ Performed(t, stale).sent = cookie
BY DEF Performed, IdleRun, RunRecord, RunStates, TokenTypes

(* What each step does to the refreshes.                                    *)
LEMMA BegunRun ==
  ASSUME TokenTypes, RunTypes, NEW t \in Tabs, NEW stale \in Tokens \cup {NoToken},
         RefreshAccessToken(t, stale)
  PROVE  \E r \in RunIds, x \in RunRecord :
           /\ run[t][r] = IdleRun /\ RunBecomes(t, r, x)
           /\ inFlight' = [inFlight EXCEPT ![t] = r]
           /\ x.pc \in {"lock", "reuse", "sent"}
           /\ locks => x.pc = "lock"
<1>1. PICK r \in RunIds :
        /\ run[t][r] = IdleRun
        /\ run' = [run EXCEPT ![t][r] = Begun(t, stale)]
        /\ inFlight' = [inFlight EXCEPT ![t] = r]
  BY DEF RefreshAccessToken
<1>2. /\ Begun(t, stale) \in RunRecord
      /\ Begun(t, stale).pc \in {"lock", "reuse", "sent"}
      /\ locks => Begun(t, stale).pc = "lock"
  <2>1. CASE locks
    BY <2>1 DEF Begun, IdleRun, RunRecord, RunStates
  <2>2. CASE ~locks
    BY <2>2, PerformedRun DEF Begun
  <2> QED
    BY <2>1, <2>2
<1>3. RunBecomes(t, r, Begun(t, stale))
  BY <1>1, <1>2, RunSet DEF RunTypes
<1> QED
  BY <1>1, <1>2, <1>3

LEMMA GrantedRun ==
  ASSUME TokenTypes, RunTypes, NEW t \in Tabs, NEW r \in RunIds, GrantLock(t, r)
  PROVE  \E x \in RunRecord :
           /\ run[t][r].pc = "lock" /\ holder = Free
           /\ RunBecomes(t, r, x) /\ holder' = [tab |-> t, run |-> r]
           /\ x.pc = "reuse" \/ (x.pc = "sent" /\ x.sent = cookie)
<1>1. run[t][r].stale \in Tokens \cup {NoToken}
  BY DEF RunTypes, RunTable, RunRecord
<1>2. run' = [run EXCEPT ![t][r] = Performed(t, run[t][r].stale)]
  BY DEF GrantLock
<1>3. RunBecomes(t, r, Performed(t, run[t][r].stale))
  BY <1>1, <1>2, RunSet, PerformedRun DEF RunTypes
<1> QED
  BY <1>1, <1>3, PerformedRun DEF GrantLock

LEMMA SettledRun ==
  ASSUME RunTypes, NEW t \in Tabs, NEW r \in RunIds, Settle(t, r)
  PROVE  RunBecomes(t, r, IdleRun)
BY RunSet, RunsOfNothing DEF Settle, RunTypes

(* The API's answer: rotated, refused, or ended with the bound on tokens.   *)
Rotates(t, r, n) ==
  /\ Accepted(run[t][r].sent) /\ n \in Tokens /\ NextToken(n)
  /\ token' = [token EXCEPT ![run[t][r].sent] = "rotated", ![n] = "live"]
  /\ RunBecomes(t, r, [run[t][r] EXCEPT !.pc = "granted", !.got = n])
  /\ UNCHANGED ending
Refuses(t, r) ==
  /\ RunBecomes(t, r, [run[t][r] EXCEPT !.pc = "refused"])
  /\ \/ ~Accepted(run[t][r].sent) /\ UNCHANGED <<token, ending>>
     \/ /\ Accepted(run[t][r].sent)
        /\ token' = [token EXCEPT ![run[t][r].sent] = "ended"] /\ ending' = TRUE

LEMMA RunRecords ==
  ASSUME run \in RunTable, NEW t \in Tabs, NEW r \in RunIds
  PROVE  /\ \A n \in Tokens : [run[t][r] EXCEPT !.pc = "granted", !.got = n] \in RunRecord
         /\ [run[t][r] EXCEPT !.pc = "refused"] \in RunRecord
         /\ [run[t][r] EXCEPT !.pc = "throttled"] \in RunRecord
<1>1. run[t][r] \in RunRecord
  BY DEF RunTable
<1> QED
  BY <1>1 DEF RunRecord, RunStates

LEMMA ServedRun ==
  ASSUME RunTypes, NEW t \in Tabs, NEW r \in RunIds, ServeRefresh(t, r)
  PROVE  run[t][r].pc = "sent" /\ (Refuses(t, r) \/ \E n \in Tokens : Rotates(t, r, n))
<1> run \in RunTable
  BY DEF RunTypes
<1>1. ASSUME NEW n \in Tokens, run' = [run EXCEPT ![t][r].pc = "granted", ![t][r].got = n]
      PROVE  RunBecomes(t, r, [run[t][r] EXCEPT !.pc = "granted", !.got = n])
  <2> DEFINE x == [run[t][r] EXCEPT !.pc = "granted", !.got = n]
  <2>1. x \in RunRecord /\ run[t][r] \in RunRecord
    BY RunRecords DEF RunTable
  <2>2. run'[t][r] = x
    BY <1>1 DEF RunTable, RunRecord
  <2>3. \A u \in Tabs, s \in RunIds : u # t \/ s # r => run'[u][s] = run[u][s]
    BY <1>1 DEF RunTable, RunRecord
  <2>4. run' \in RunTable
    <3>1. run' = [run EXCEPT ![t] = [run[t] EXCEPT ![r] = x]]
      BY <1>1 DEF RunTable, RunRecord
    <3>2. [run[t] EXCEPT ![r] = x] \in [RunIds -> RunRecord]
      BY <2>1 DEF RunTable
    <3> QED
      BY <3>1, <3>2 DEF RunTable
  <2> QED
    BY <2>1, <2>2, <2>3, <2>4 DEF RunBecomes
<1>2. ASSUME run' = [run EXCEPT ![t][r].pc = "refused"]
      PROVE  RunBecomes(t, r, [run[t][r] EXCEPT !.pc = "refused"])
  <2>1. run' = [run EXCEPT ![t][r] = [run[t][r] EXCEPT !.pc = "refused"]]
    BY <1>2 DEF RunTable, RunRecord
  <2> QED
    BY <2>1, RunRecords, RunSet
<1> QED
  BY <1>1, <1>2 DEF ServeRefresh, Refuses, Rotates

LEMMA ThrottledRun ==
  ASSUME RunTypes, NEW t \in Tabs, NEW r \in RunIds, ThrottleRefresh(t, r)
  PROVE  RunBecomes(t, r, [run[t][r] EXCEPT !.pc = "throttled"])
<1> run \in RunTable
  BY DEF RunTypes
<1>0. run' = [run EXCEPT ![t][r].pc = "throttled"]
  BY DEF ThrottleRefresh
<1>1. run' = [run EXCEPT ![t][r] = [run[t][r] EXCEPT !.pc = "throttled"]]
  BY <1>0 DEF RunTable, RunRecord
<1> QED
  BY <1>1, RunRecords, RunSet

(* The session's types, part by part.                                       *)
SessionBase == SessionTypeOK /\ AnswersFit

LEMMA QueuesStay ==
  ASSUME NEW M, NEW queue \in [Tabs -> Seq(M)], NEW t \in Tabs, NEW entry \in M
  PROVE  /\ ToOthers(t, queue, entry) \in [Tabs -> Seq(M)]
         /\ queue[t] # <<>> => Taken(t, queue) \in [Tabs -> Seq(M)]
<1>1. ASSUME NEW u \in Tabs PROVE Append(queue[u], entry) \in Seq(M)
  OBVIOUS
<1>2. ToOthers(t, queue, entry) \in [Tabs -> Seq(M)]
  BY <1>1 DEF ToOthers
<1>3. ASSUME queue[t] # <<>> PROVE Taken(t, queue) \in [Tabs -> Seq(M)]
  <2>1. Tail(queue[t]) \in Seq(M)
    BY <1>3
  <2> QED
    BY <2>1 DEF Taken
<1> QED
  BY <1>2, <1>3

LEMMA MarkerWritten ==
  ASSUME NEW t \in Tabs, NEW queue \in [Tabs -> Seq({"removed"})], NEW present \in BOOLEAN,
         WriteMarker(t, queue, present)
  PROVE  marker' = present /\ storage' \in [Tabs -> Seq({"removed"})]
BY QueuesStay DEF WriteMarker

LEMMA StoreCleared ==
  ASSUME TabTypes, NEW t \in Tabs, NEW had, NEW messages \in [Tabs -> Seq(Message)],
         NEW events \in [Tabs -> Seq({"removed"})], ClearStore(t, had, messages, events)
  PROVE  /\ marker' = FALSE /\ storage' \in [Tabs -> Seq({"removed"})]
         /\ channel' \in [Tabs -> Seq(Message)]
         /\ access' \in [Tabs -> Tokens \cup {NoToken}]
<1>1. marker' = FALSE /\ storage' \in [Tabs -> Seq({"removed"})]
  BY MarkerWritten DEF ClearStore
<1>2. LogoutMessage \in Message
  BY DEF LogoutMessage, Message
<1>3. channel' \in [Tabs -> Seq(Message)]
  <2>1. ToOthers(t, messages, LogoutMessage) \in [Tabs -> Seq(Message)]
    BY <1>2, QueuesStay
  <2> QED
    BY <2>1 DEF ClearStore, Post
<1>4. access' \in [Tabs -> Tokens \cup {NoToken}]
  BY DEF ClearStore, TabTypes
<1> QED
  BY <1>1, <1>3, <1>4

LEMMA RunsStayTyped ==
  ASSUME RunTypes, NEW t \in Tabs, NEW r \in RunIds, NEW x, RunBecomes(t, r, x), x.pc # "idle",
         UNCHANGED inFlight, holder' \in [tab : Tabs, run : RunIds] \cup {Free}
  PROVE  RunTypes'
<1>1. x # IdleRun
  BY RunsOfNothing
<1>2. \A u \in Tabs : inFlight'[u] # NoRun => run'[u][inFlight'[u]] # IdleRun
  <2> SUFFICES ASSUME NEW u \in Tabs, inFlight[u] # NoRun PROVE run'[u][inFlight[u]] # IdleRun
    OBVIOUS
  <2>1. inFlight[u] \in RunIds /\ run[u][inFlight[u]] # IdleRun
    BY DEF RunTypes
  <2> QED
    BY <1>1, <2>1 DEF RunBecomes
<1> QED
  BY <1>2 DEF RunTypes, RunBecomes

LEMMA SettledTypes ==
  ASSUME RunTypes, NEW t \in Tabs, NEW r \in RunIds, Settle(t, r)
  PROVE  RunTypes'
<1>1. RunBecomes(t, r, IdleRun)
  BY SettledRun
<1>2. holder' \in [tab : Tabs, run : RunIds] \cup {Free}
  BY DEF RunTypes, Settle
<1>3. inFlight' \in [Tabs -> RunIds \cup {NoRun}]
  BY DEF RunTypes, Settle
<1>4. \A u \in Tabs : inFlight'[u] # NoRun => run'[u][inFlight'[u]] # IdleRun
  <2> SUFFICES ASSUME NEW u \in Tabs, inFlight'[u] # NoRun PROVE run'[u][inFlight'[u]] # IdleRun
    OBVIOUS
  <2>1. u # t /\ inFlight'[u] = inFlight[u]
    BY DEF RunTypes, Settle
  <2>2. inFlight[u] \in RunIds /\ run[u][inFlight[u]] # IdleRun
    BY <2>1 DEF RunTypes
  <2> QED
    BY <1>1, <2>1, <2>2 DEF RunBecomes
<1> QED
  BY <1>1, <1>2, <1>3, <1>4 DEF RunTypes, RunBecomes

LEMMA AnswersStay ==
  ASSUME AnswersFit, NEW t \in Tabs, NEW r \in RunIds, NEW x, RunBecomes(t, r, x), Answered(x)
  PROVE  AnswersFit'
BY DEF AnswersFit, RunBecomes

(* What becomes of the refresh that a step is about.                        *)
LEMMA RunPieces ==
  ASSUME run \in RunTable, NEW t \in Tabs, NEW r \in RunIds
  PROVE  /\ run[t][r] \in RunRecord /\ run[t][r].pc \in RunStates
         /\ run[t][r].sent \in Tokens \cup {NoToken} /\ run[t][r].got \in Tokens \cup {NoToken}
         /\ run[t][r].stale \in Tokens \cup {NoToken}
         /\ \A n \in Tokens :
              LET x == [run[t][r] EXCEPT !.pc = "granted", !.got = n] IN
              x.pc = "granted" /\ x.sent = run[t][r].sent /\ x.got = n
         /\ \A s \in {"refused", "throttled"} :
              LET x == [run[t][r] EXCEPT !.pc = s] IN
              x.pc = s /\ x.sent = run[t][r].sent /\ x.got = run[t][r].got
<1>1. run[t][r] \in RunRecord
  BY DEF RunTable
<1> QED
  BY <1>1 DEF RunRecord

LEMMA TokensAreNotNone == NoToken \notin Tokens /\ Tokens \subseteq Nat
BY SessionAssumption DEF NoToken, Tokens

LEMMA RefreshSteps ==
  ASSUME SessionBase, NEW t \in Tabs, NEW r \in RunIds,
         GrantLock(t, r) \/ ServeRefresh(t, r) \/ ThrottleRefresh(t, r)
  PROVE  SessionBase'
<1> TokenTypes /\ RunTypes /\ TabTypes /\ AnswersFit
  BY SessionByPart DEF SessionBase
<1> SUFFICES TokenTypes' /\ RunTypes' /\ TabTypes' /\ AnswersFit'
  BY SessionByPart DEF SessionBase, SessionTypeOK, TokenTypes, RunTypes, TabTypes, RunTable, Statuses
<1>r. run \in RunTable
  BY DEF RunTypes
<1>1. CASE GrantLock(t, r)
  <2>1. PICK x \in RunRecord :
           /\ RunBecomes(t, r, x) /\ holder' = [tab |-> t, run |-> r]
           /\ x.pc = "reuse" \/ (x.pc = "sent" /\ x.sent = cookie)
    BY <1>1, GrantedRun
  <2>2. AnswersFit'
    BY <2>1, AnswersStay DEF Answered
  <2>3. RunTypes'
    BY <1>1, <2>1, RunsStayTyped DEF GrantLock, tabVars
  <2>4. TokenTypes' /\ TabTypes'
    BY <1>1 DEF GrantLock, TokenTypes, TabTypes, tabVars, queueVars, counters, observers
  <2> QED
    BY <2>2, <2>3, <2>4
<1>2. CASE ServeRefresh(t, r)
  <2>1. TabTypes'
    BY <1>2 DEF ServeRefresh, TabTypes, tabVars, queueVars, counters
  <2>2. UNCHANGED inFlight /\ holder' \in [tab : Tabs, run : RunIds] \cup {Free}
    BY <1>2 DEF ServeRefresh, RunTypes, tabVars
  <2>3. UNCHANGED <<locks, marker, cookie, lost, loggedOut>>
    BY <1>2 DEF ServeRefresh
  <2>4. CASE Refuses(t, r)
    <3>1. RunBecomes(t, r, [run[t][r] EXCEPT !.pc = "refused"])
      BY <2>4 DEF Refuses
    <3>2. [run[t][r] EXCEPT !.pc = "refused"].pc = "refused"
      BY <1>r, RunPieces
    <3>3. RunTypes' /\ AnswersFit'
      BY <2>2, <3>1, <3>2, RunsStayTyped, AnswersStay DEF Answered
    <3>4. token' \in [Tokens -> Statuses] /\ ending' \in BOOLEAN
      BY <2>4 DEF Refuses, TokenTypes, Statuses
    <3> QED
      BY <2>1, <2>3, <3>3, <3>4 DEF TokenTypes
  <2>5. ASSUME NEW n \in Tokens, Rotates(t, r, n) PROVE TokenTypes' /\ RunTypes' /\ AnswersFit'
    <3> DEFINE x == [run[t][r] EXCEPT !.pc = "granted", !.got = n]
    <3>1. RunBecomes(t, r, x) /\ run[t][r].sent # NoToken
      BY <2>5 DEF Rotates, Accepted
    <3>2. x.pc = "granted" /\ x.sent = run[t][r].sent /\ x.got = n
      BY <1>r, RunPieces
    <3>3. Answered(x)
      BY <3>1, <3>2, TokensAreNotNone DEF Answered
    <3>4. RunTypes' /\ AnswersFit'
      BY <2>2, <3>1, <3>2, <3>3, RunsStayTyped, AnswersStay
    <3>5. token' \in [Tokens -> Statuses] /\ ending' \in BOOLEAN
      BY <2>5 DEF Rotates, TokenTypes, Statuses
    <3> QED
      BY <2>3, <3>4, <3>5 DEF TokenTypes
  <2> QED
    BY <1>2, <2>1, <2>4, <2>5, ServedRun DEF Refuses
<1>3. CASE ThrottleRefresh(t, r)
  <2>1. RunBecomes(t, r, [run[t][r] EXCEPT !.pc = "throttled"])
    BY <1>3, ThrottledRun
  <2>2. [run[t][r] EXCEPT !.pc = "throttled"].pc = "throttled"
    BY <1>r, RunPieces
  <2>3. UNCHANGED inFlight /\ holder' \in [tab : Tabs, run : RunIds] \cup {Free}
    BY <1>3 DEF ThrottleRefresh, RunTypes, tabVars
  <2>4. RunTypes' /\ AnswersFit'
    BY <2>1, <2>2, <2>3, RunsStayTyped, AnswersStay DEF Answered
  <2>5. TokenTypes'
    BY <1>3 DEF ThrottleRefresh, TokenTypes
  <2>6. TabTypes'
    BY <1>3 DEF ThrottleRefresh, TabTypes, tabVars, queueVars
  <2> QED
    BY <2>4, <2>5, <2>6
<1> QED
  BY <1>1, <1>2, <1>3

LEMMA SettleSteps ==
  ASSUME SessionBase, NEW t \in Tabs, NEW r \in RunIds,
         \/ LoseRefresh(t, r) \/ RefreshSucceeds(t, r) \/ RefreshReused(t, r)
         \/ RefreshRejected(t, r) \/ RefreshThrottled(t, r)
  PROVE  SessionBase'
<1> TokenTypes /\ RunTypes /\ TabTypes /\ AnswersFit
  BY SessionByPart DEF SessionBase
<1> SUFFICES TokenTypes' /\ RunTypes' /\ TabTypes' /\ AnswersFit'
  BY SessionByPart DEF SessionBase, SessionTypeOK, TokenTypes, RunTypes, TabTypes, RunTable, Statuses
<1>1. Settle(t, r)
  BY DEF LoseRefresh, RefreshSucceeds, RefreshReused, RefreshRejected, RefreshThrottled
<1>2. RunTypes' /\ AnswersFit'
  BY <1>1, SettledRun, SettledTypes, AnswersStay, RunsOfNothing
<1>3. Answered(run[t][r]) /\ run[t][r].got \in Tokens \cup {NoToken} /\ run[t][r].sent \in Tokens \cup {NoToken}
  BY RunPieces DEF AnswersFit, RunTypes
<1>4. CASE LoseRefresh(t, r)
  <2>1. lost' \subseteq Tokens
    BY <1>3, <1>4 DEF LoseRefresh, TokenTypes, Answered
  <2>2. ending' \in BOOLEAN
    BY <1>4 DEF LoseRefresh, TokenTypes
  <2>3. TokenTypes'
    BY <1>4, <2>1, <2>2 DEF LoseRefresh, TokenTypes
  <2>4. TabTypes'
    BY <1>4 DEF LoseRefresh, TabTypes, queueVars
  <2> QED
    BY <1>2, <2>3, <2>4
<1>5. CASE RefreshSucceeds(t, r)
  <2>1. marker' = TRUE /\ storage' \in [Tabs -> Seq({"removed"})]
    BY <1>5, MarkerWritten DEF RefreshSucceeds, TabTypes
  <2>2. [type |-> "access", access |-> run[t][r].got] \in Message
    BY <1>3 DEF Message
  <2>3. channel' \in [Tabs -> Seq(Message)]
    BY <1>5, <2>2, QueuesStay DEF RefreshSucceeds, Post, TabTypes
  <2>4. access' \in [Tabs -> Tokens \cup {NoToken}]
    BY <1>3, <1>5 DEF RefreshSucceeds, TabTypes
  <2>5. TokenTypes'
    BY <1>3, <1>5, <2>1 DEF RefreshSucceeds, TokenTypes, observers
  <2>6. TabTypes'
    BY <1>5, <2>1, <2>3, <2>4 DEF RefreshSucceeds, TabTypes, counters
  <2> QED
    BY <1>2, <2>5, <2>6
<1>6. CASE RefreshReused(t, r)
  <2>1. TokenTypes' /\ TabTypes'
    BY <1>6 DEF RefreshReused, TokenTypes, TabTypes, queueVars, counters, observers
  <2> QED
    BY <1>2, <2>1
<1>7. CASE RefreshRejected(t, r)
  <2>1. /\ marker' \in BOOLEAN /\ storage' \in [Tabs -> Seq({"removed"})]
        /\ channel' \in [Tabs -> Seq(Message)] /\ access' \in [Tabs -> Tokens \cup {NoToken}]
    <3>1. CASE ClearStore(t, HasSession(t), channel, storage)
      <4>1. channel \in [Tabs -> Seq(Message)] /\ storage \in [Tabs -> Seq({"removed"})]
        BY DEF TabTypes
      <4> QED
        BY <3>1, <4>1, StoreCleared
    <3>2. CASE UNCHANGED <<marker, access, queueVars>>
      BY <3>2 DEF TokenTypes, TabTypes, queueVars
    <3> QED
      BY <1>7, <3>1, <3>2 DEF RefreshRejected
  <2>2. TokenTypes'
    BY <1>7, <2>1 DEF RefreshRejected, TokenTypes, observers
  <2>3. TabTypes'
    BY <1>7, <2>1 DEF RefreshRejected, TabTypes, counters
  <2> QED
    BY <1>2, <2>2, <2>3
<1>8. CASE RefreshThrottled(t, r)
  <2>1. TokenTypes' /\ TabTypes'
    BY <1>8 DEF RefreshThrottled, TokenTypes, TabTypes, queueVars, counters, observers
  <2> QED
    BY <1>2, <2>1
<1> QED
  BY <1>4, <1>5, <1>6, <1>7, <1>8

LEMMA CallSteps ==
  ASSUME SessionBase, NEW t \in Tabs, CallWithoutToken(t) \/ CallExpired(t)
  PROVE  /\ SessionBase'
         /\ \E stale \in Tokens \cup {NoToken} : RefreshAccessToken(t, stale)
<1> TokenTypes /\ RunTypes /\ TabTypes /\ AnswersFit
  BY SessionByPart DEF SessionBase
<1>1. PICK stale \in Tokens \cup {NoToken} : RefreshAccessToken(t, stale)
  BY DEF CallWithoutToken, CallExpired, TabTypes
<1>2. PICK r \in RunIds, x \in RunRecord :
        /\ run[t][r] = IdleRun /\ RunBecomes(t, r, x)
        /\ inFlight' = [inFlight EXCEPT ![t] = r]
        /\ x.pc \in {"lock", "reuse", "sent"}
  BY <1>1, BegunRun
<1>3. AnswersFit'
  BY <1>2, AnswersStay DEF Answered
<1>4. \A u \in Tabs : inFlight'[u] # NoRun => run'[u][inFlight'[u]] # IdleRun
  <2> SUFFICES ASSUME NEW u \in Tabs, inFlight'[u] # NoRun PROVE run'[u][inFlight'[u]] # IdleRun
    OBVIOUS
  <2>1. CASE u = t
    BY <1>2, <2>1, RunsOfNothing DEF RunBecomes, RunTypes
  <2>2. CASE u # t
    <3>1. inFlight'[u] = inFlight[u] /\ inFlight[u] \in RunIds /\ run[u][inFlight[u]] # IdleRun
      BY <1>2, <2>2 DEF RunTypes
    <3> QED
      BY <1>2, <2>2, <3>1 DEF RunBecomes
  <2> QED
    BY <2>1, <2>2
<1>5. inFlight' \in [Tabs -> RunIds \cup {NoRun}]
  BY <1>2 DEF RunTypes
<1>6. RunTypes'
  BY <1>1, <1>2, <1>4, <1>5 DEF RunTypes, RunBecomes, RefreshAccessToken
<1>7. TokenTypes' /\ TabTypes'
  BY <1>1 DEF RefreshAccessToken, TokenTypes, TabTypes, queueVars, counters, observers
<1>8. SessionBase'
  BY <1>3, <1>6, <1>7 DEF SessionBase, SessionTypeOK, TokenTypes, RunTypes, TabTypes, RunTable, Statuses
<1> QED
  BY <1>1, <1>8

(* The steps that leave the refreshes of the tabs alone, but for the one a   *)
(* tab's callers share.                                                     *)
LEMMA SharedRefreshDropped ==
  ASSUME RunTypes, NEW t \in Tabs, UNCHANGED <<holder, run>>,
         inFlight' = [inFlight EXCEPT ![t] = NoRun]
  PROVE  RunTypes'
BY DEF RunTypes

LEMMA LoginSteps ==
  ASSUME SessionBase, NEW t \in Tabs,
         \/ Login(t) \/ LogoutServed(t) \/ LogoutAnswered(t) \/ LogoutFails(t)
  PROVE  SessionBase'
<1> TokenTypes /\ RunTypes /\ TabTypes /\ AnswersFit
  BY SessionByPart DEF SessionBase
<1> SUFFICES TokenTypes' /\ RunTypes' /\ TabTypes' /\ AnswersFit'
  BY SessionByPart DEF SessionBase, SessionTypeOK, TokenTypes, RunTypes, TabTypes, RunTable, Statuses
<1>1. CASE Login(t)
  <2>1. marker' = TRUE /\ storage' \in [Tabs -> Seq({"removed"})]
    BY <1>1, MarkerWritten DEF Login, TabTypes
  <2>2. PICK n \in Tokens :
          /\ token' = [token EXCEPT ![n] = "live"] /\ cookie' = n
          /\ access' = [access EXCEPT ![t] = n]
    BY <1>1 DEF Login
  <2>3. token' \in [Tokens -> Statuses] /\ access' \in [Tabs -> Tokens \cup {NoToken}]
    BY <2>2 DEF TokenTypes, TabTypes, Statuses
  <2>4. ending' \in BOOLEAN
    <3>1. SessionQuiet \in BOOLEAN
      BY DEF SessionQuiet
    <3>2. ending' = ~SessionQuiet
      BY <1>1 DEF Login
    <3> QED
      BY <3>2
  <2>5. TokenTypes'
    BY <1>1, <2>1, <2>2, <2>3, <2>4 DEF Login, TokenTypes
  <2>6. TabTypes'
    BY <1>1, <2>1, <2>3 DEF Login, TabTypes
  <2>7. RunTypes' /\ AnswersFit'
    BY <1>1 DEF Login, RunTypes, AnswersFit, Answered
  <2> QED
    BY <2>5, <2>6, <2>7
<1>2. CASE LogoutServed(t)
  <2>1. token' \in [Tokens -> Statuses]
    BY <1>2 DEF LogoutServed, TokenTypes, Statuses
  <2>2. TokenTypes'
    BY <1>2, <2>1 DEF LogoutServed, TokenTypes
  <2>3. TabTypes'
    BY <1>2 DEF LogoutServed, TabTypes, tabVars, queueVars
  <2>4. RunTypes' /\ AnswersFit'
    BY <1>2 DEF LogoutServed, RunTypes, AnswersFit, Answered, tabVars
  <2> QED
    BY <2>2, <2>3, <2>4
<1>3. ASSUME LogoutEnds(t), cookie' \in Tokens \cup {NoToken}, UNCHANGED <<logins, logouts>>, faults' \in Nat
      PROVE  TokenTypes' /\ RunTypes' /\ TabTypes' /\ AnswersFit'
  <2>1. channel \in [Tabs -> Seq(Message)] /\ storage \in [Tabs -> Seq({"removed"})]
    BY DEF TabTypes
  <2>2. /\ marker' = FALSE /\ storage' \in [Tabs -> Seq({"removed"})]
        /\ channel' \in [Tabs -> Seq(Message)]
        /\ access' \in [Tabs -> Tokens \cup {NoToken}]
    BY <1>3, <2>1, StoreCleared DEF LogoutEnds
  <2>3. TokenTypes'
    BY <1>3, <2>2 DEF LogoutEnds, TokenTypes
  <2>4. TabTypes'
    BY <1>3, <2>2 DEF LogoutEnds, TabTypes
  <2>5. RunTypes' /\ AnswersFit'
    BY <1>3, SharedRefreshDropped DEF LogoutEnds, AnswersFit, Answered
  <2> QED
    BY <2>3, <2>4, <2>5
<1>4. CASE LogoutAnswered(t)
  BY <1>3, <1>4 DEF LogoutAnswered, counters, TabTypes
<1>5. CASE LogoutFails(t)
  BY <1>3, <1>5 DEF LogoutFails, TabTypes, TokenTypes
<1> QED
  BY <1>1, <1>2, <1>4, <1>5

LEMMA HearSteps ==
  ASSUME SessionBase, NEW t \in Tabs, HandleMessage(t) \/ HandleStorage(t)
  PROVE  SessionBase'
<1> TokenTypes /\ RunTypes /\ TabTypes /\ AnswersFit
  BY SessionByPart DEF SessionBase
<1> SUFFICES TokenTypes' /\ RunTypes' /\ TabTypes' /\ AnswersFit'
  BY SessionByPart DEF SessionBase, SessionTypeOK, TokenTypes, RunTypes, TabTypes, RunTable, Statuses
<1>0. channel \in [Tabs -> Seq(Message)] /\ storage \in [Tabs -> Seq({"removed"})]
  BY DEF TabTypes
<1>1. AnswersFit' /\ UNCHANGED <<holder, run>>
  BY DEF HandleMessage, HandleStorage, AnswersFit, Answered
<1>2. ASSUME NEW messages \in [Tabs -> Seq(Message)], NEW events \in [Tabs -> Seq({"removed"})],
             EndRemotely(t, messages, events)
      PROVE  /\ RunTypes'
             /\ marker' \in BOOLEAN /\ storage' \in [Tabs -> Seq({"removed"})]
             /\ channel' \in [Tabs -> Seq(Message)]
             /\ access' \in [Tabs -> Tokens \cup {NoToken}]
  BY <1>1, <1>2, StoreCleared, SharedRefreshDropped DEF EndRemotely
<1>3. CASE HandleMessage(t)
  <2>1. Taken(t, channel) \in [Tabs -> Seq(Message)] /\ Head(channel[t]) \in Message
    <3>1. channel[t] \in Seq(Message) /\ channel[t] # <<>>
      BY <1>0, <1>3 DEF HandleMessage
    <3>2. Taken(t, channel) \in [Tabs -> Seq(Message)]
      <4>1. Tail(channel[t]) \in Seq(Message)
        BY <3>1
      <4> QED
        BY <1>0, <4>1 DEF Taken
    <3> QED
      BY <3>1, <3>2
  <2>2. CASE EndRemotely(t, Taken(t, channel), storage)
    <3>1. /\ RunTypes' /\ marker' \in BOOLEAN /\ storage' \in [Tabs -> Seq({"removed"})]
          /\ channel' \in [Tabs -> Seq(Message)] /\ access' \in [Tabs -> Tokens \cup {NoToken}]
      BY <1>0, <1>2, <2>1, <2>2
    <3> QED
      BY <1>1, <1>3, <3>1 DEF HandleMessage, TokenTypes, TabTypes, counters, observers
  <2>3. CASE /\ access' = [access EXCEPT ![t] = Head(channel[t]).access]
             /\ channel' = Taken(t, channel) /\ UNCHANGED <<marker, storage, inFlight>>
    <3>1. Head(channel[t]).access \in Tokens \cup {NoToken}
      BY <2>1 DEF Message
    <3>2. access' \in [Tabs -> Tokens \cup {NoToken}]
      BY <2>3, <3>1 DEF TabTypes
    <3>3. TabTypes'
      BY <1>3, <2>1, <2>3, <3>2 DEF HandleMessage, TabTypes, counters
    <3>4. RunTypes'
      BY <1>1, <2>3 DEF RunTypes
    <3>5. TokenTypes'
      BY <1>3, <2>3 DEF HandleMessage, TokenTypes, observers
    <3> QED
      BY <1>1, <3>3, <3>4, <3>5
  <2> QED
    BY <1>3, <2>2, <2>3 DEF HandleMessage
<1>4. CASE HandleStorage(t)
  <2>1. storage[t] \in Seq({"removed"}) /\ storage[t] # <<>>
    BY <1>0, <1>4 DEF HandleStorage
  <2>2. Taken(t, storage) \in [Tabs -> Seq({"removed"})]
    <3>1. Tail(storage[t]) \in Seq({"removed"})
      BY <2>1
    <3> QED
      BY <1>0, <3>1 DEF Taken
  <2>3. EndRemotely(t, channel, Taken(t, storage))
    BY <1>4 DEF HandleStorage
  <2>4. /\ RunTypes' /\ marker' \in BOOLEAN /\ storage' \in [Tabs -> Seq({"removed"})]
        /\ channel' \in [Tabs -> Seq(Message)] /\ access' \in [Tabs -> Tokens \cup {NoToken}]
    BY <1>0, <1>2, <2>2, <2>3
  <2> QED
    BY <1>1, <1>4, <2>4 DEF HandleStorage, TokenTypes, TabTypes, counters, observers
<1> QED
  BY <1>3, <1>4

(* What a reload does: the tokens of its refreshes that the API may still    *)
(* see are used up, and no refresh of the tab is left.                       *)
CutTokens(t, pcs) == {run[t][r].sent : r \in {r \in RunIds : run[t][r].pc \in pcs}}
Reloaded(t, used) ==
  /\ used \subseteq {k \in CutTokens(t, {"sent"}) \ {NoToken} : token[k] = "live"}
  /\ token' = [k \in Tokens |-> IF k \in used THEN "rotated" ELSE token[k]]
  /\ lost' = lost \cup used \cup CutTokens(t, {"granted"})
  /\ ending' = (ending \/ used # {} \/ CutTokens(t, {"granted", "throttled"}) # {})

LEMMA ReloadStep ==
  ASSUME SessionBase, NEW t \in Tabs, Reload(t)
  PROVE  /\ SessionBase'
         /\ \E used \in SUBSET Tokens : Reloaded(t, used)
<1> TokenTypes /\ RunTypes /\ TabTypes /\ AnswersFit
  BY SessionByPart DEF SessionBase
<1>1. PICK used \in SUBSET {k \in CutTokens(t, {"sent"}) \ {NoToken} : token[k] = "live"} :
        Reloaded(t, used)
  BY DEF Reload, CutTokens, Reloaded
<1>2. /\ CutTokens(t, {"sent"}) \subseteq Tokens \cup {NoToken}
      /\ CutTokens(t, {"granted"}) \subseteq Tokens
  BY RunPieces DEF CutTokens, RunTypes, AnswersFit, Answered
<1>3. used \in SUBSET Tokens
  BY <1>2
<1>4. TokenTypes'
  <2>1. token' \in [Tokens -> Statuses] /\ lost' \subseteq Tokens
    BY <1>1, <1>2, <1>3 DEF Reloaded, TokenTypes, Statuses
  <2>2. ending' \in BOOLEAN
    BY <1>1 DEF Reloaded, TokenTypes
  <2> QED
    BY <2>1, <2>2 DEF Reload, TokenTypes
<1>5. TabTypes'
  <2>1. /\ access' = [access EXCEPT ![t] = NoToken]
        /\ channel' = [channel EXCEPT ![t] = <<>>] /\ storage' = [storage EXCEPT ![t] = <<>>]
        /\ faults' = faults + 1 /\ UNCHANGED <<leaving, logins, logouts>>
    BY DEF Reload
  <2>2. /\ access' \in [Tabs -> Tokens \cup {NoToken}]
        /\ channel' \in [Tabs -> Seq(Message)] /\ storage' \in [Tabs -> Seq({"removed"})]
    BY <2>1 DEF TabTypes
  <2> QED
    BY <2>1, <2>2 DEF TabTypes
<1>6. run' \in RunTable /\ AnswersFit'
  <2>1. run' = [run EXCEPT ![t] = [r \in RunIds |-> IdleRun]]
    BY DEF Reload
  <2>2. [r \in RunIds |-> IdleRun] \in [RunIds -> RunRecord]
    BY RunsOfNothing
  <2>3. run' \in RunTable
    BY <2>1, <2>2 DEF RunTypes, RunTable
  <2>4. \A u \in Tabs, s \in RunIds : run'[u][s] = IF u = t THEN IdleRun ELSE run[u][s]
    BY <2>1 DEF RunTypes, RunTable
  <2> QED
    BY <2>3, <2>4, RunsOfNothing DEF AnswersFit
<1>7. RunTypes'
  <2>1. /\ holder' = (IF holder.tab = t THEN Free ELSE holder)
        /\ inFlight' = [inFlight EXCEPT ![t] = NoRun]
        /\ run' = [run EXCEPT ![t] = [r \in RunIds |-> IdleRun]]
    BY DEF Reload
  <2>2. /\ holder' \in [tab : Tabs, run : RunIds] \cup {Free}
        /\ inFlight' \in [Tabs -> RunIds \cup {NoRun}]
    BY <2>1 DEF RunTypes
  <2>3. \A u \in Tabs : inFlight'[u] # NoRun => run'[u][inFlight'[u]] # IdleRun
    BY <2>1 DEF RunTypes, RunTable
  <2> QED
    BY <1>6, <2>2, <2>3 DEF RunTypes
<1>8. SessionBase'
  BY <1>4, <1>5, <1>6, <1>7 DEF SessionBase, SessionTypeOK, TokenTypes, RunTypes, TabTypes, RunTable, Statuses
<1> QED
  BY <1>1, <1>3, <1>8

LEMMA RevokeStep ==
  ASSUME SessionBase, RevokeSessions
  PROVE  SessionBase'
<1> TokenTypes /\ RunTypes /\ TabTypes /\ AnswersFit
  BY SessionByPart DEF SessionBase
<1>1. token' \in [Tokens -> Statuses]
  BY DEF RevokeSessions, TokenTypes, Statuses
<1>2. TokenTypes'
  BY <1>1 DEF RevokeSessions, TokenTypes
<1>3. TabTypes'
  BY DEF RevokeSessions, TabTypes, tabVars, queueVars
<1>4. RunTypes' /\ AnswersFit'
  BY DEF RevokeSessions, RunTypes, AnswersFit, Answered, tabVars
<1> QED
  BY <1>2, <1>3, <1>4 DEF SessionBase, SessionTypeOK, TokenTypes, RunTypes, TabTypes, RunTable, Statuses

LEMMA SessionBaseStarts == SessionInit => SessionBase
<1> SUFFICES ASSUME SessionInit PROVE TokenTypes /\ RunTypes /\ TabTypes /\ AnswersFit
  BY SessionByPart DEF SessionBase
<1>1. TokenTypes
  BY SessionAssumption DEF SessionInit, TokenTypes, Statuses
<1>2. run \in RunTable /\ \A t \in Tabs, r \in RunIds : run[t][r] = IdleRun
  BY RunsOfNothing DEF SessionInit, RunTable
<1>3. RunTypes
  BY <1>2 DEF SessionInit, RunTypes
<1>4. TabTypes
  BY DEF SessionInit, TabTypes
<1>5. AnswersFit
  BY <1>2, RunsOfNothing DEF AnswersFit
<1> QED
  BY <1>1, <1>3, <1>4, <1>5

LEMMA SessionBaseStays == SessionBase /\ [SessionNext]_sessionVars => SessionBase'
<1> SUFFICES ASSUME SessionBase, [SessionNext]_sessionVars PROVE SessionBase'
  OBVIOUS
<1>1. CASE UNCHANGED sessionVars
  BY <1>1 DEF sessionVars, SessionBase, SessionTypeOK, AnswersFit, Answered
<1>2. CASE RevokeSessions
  BY <1>2, RevokeStep
<1>3. CASE \E t \in Tabs, r \in RunIds :
             \/ GrantLock(t, r) \/ ServeRefresh(t, r) \/ ThrottleRefresh(t, r)
             \/ LoseRefresh(t, r) \/ RefreshSucceeds(t, r)
             \/ RefreshReused(t, r) \/ RefreshRejected(t, r) \/ RefreshThrottled(t, r)
  BY <1>3, RefreshSteps, SettleSteps
<1>4. CASE \E t \in Tabs :
             \/ CallWithoutToken(t) \/ CallExpired(t)
             \/ Login(t) \/ LogoutServed(t) \/ LogoutAnswered(t)
             \/ LogoutFails(t) \/ HandleMessage(t) \/ HandleStorage(t) \/ Reload(t)
  BY <1>4, CallSteps, LoginSteps, HearSteps, ReloadStep
<1> QED
  BY <1>1, <1>2, <1>3, <1>4 DEF SessionNext

(* The session is of its types in every tab, with Web Locks and without:     *)
(* however the refreshes, the messages between the tabs and the reloads fall, *)
(* the refresh a tab's callers would share is one that is still on its way.  *)
THEOREM SessionTypeCorrect == SessionSpec => []SessionTypeOK
<1>1. SessionBase => SessionTypeOK
  BY DEF SessionBase
<1> QED
  BY <1>1, SessionBaseStarts, SessionBaseStays, PTL DEF SessionSpec

-----------------------------------------------------------------------------
(* With Web Locks the session is kept.  The inductive invariant says that    *)
(* only the holder of the lock is beyond waiting for it, what the API thinks *)
(* of the token in the jar and of the one each refresh was sent with, and,   *)
(* while nothing ended the session, that every tab and refresh works for it. *)
GrantedFor(k) == \E t \in Tabs, r \in RunIds : run[t][r].pc = "granted" /\ run[t][r].sent = k

AtRest(x) == x.pc \in {"idle", "lock"}
OnlyHolderRuns ==
  \A t \in Tabs, r \in RunIds : AtRest(run[t][r]) \/ holder = [tab |-> t, run |-> r]

(* A refresh, against the API's tokens and those whose successor was lost.   *)
Fits(x, tokens, gone) ==
  /\ x.pc = "sent" /\ x.sent # NoToken =>
       tokens[x.sent] \in {"live", "ended"} \/ x.sent \in gone
  /\ x.pc = "refused" /\ x.sent # NoToken => tokens[x.sent] = "ended" \/ x.sent \in gone
  /\ x.pc = "granted" =>
       /\ x.sent # NoToken /\ x.got # NoToken
       /\ tokens[x.sent] = "rotated" /\ tokens[x.got] \in {"live", "ended"}
RunsFit == \A t \in Tabs, r \in RunIds : Fits(run[t][r], token, lost)

JarKnown ==
  cookie # NoToken =>
    \/ token[cookie] \in {"live", "ended"}
    \/ token[cookie] = "rotated" /\ (cookie \in lost \/ GrantedFor(cookie))

IssuedInOrder == token[1] = "unissued" => \A k \in Tokens : token[k] = "unissued"

(* A refresh, a tab and the jar of a session that goes on.                  *)
GoesOn(x, jar, tokens) ==
  /\ x.pc \notin {"refused", "throttled"}
  /\ x.pc \in {"sent", "granted"} => x.sent = jar
  /\ x.pc = "granted" => tokens[x.got] = "live"
TabsGoOn ==
  \A t \in Tabs :
    /\ leaving[t] = FALSE /\ storage[t] = <<>>
    /\ \A i \in 1 .. Len(channel[t]) : channel[t][i].type = "access"
Going == ending = FALSE /\ token[1] # "unissued"
KeptUp ==
  Going =>
    /\ marker = TRUE
    /\ Accepted(cookie) \/ GrantedFor(cookie)
    /\ TabsGoOn
    /\ \A t \in Tabs, r \in RunIds : GoesOn(run[t][r], cookie, token)

LockParts == OnlyHolderRuns /\ RunsFit /\ JarKnown /\ IssuedInOrder /\ KeptUp
LockInv == locks => LockParts

LEMMA RestFits ==
  ASSUME NEW x, AtRest(x), NEW tokens, NEW gone, NEW jar
  PROVE  /\ Fits(x, tokens, gone) /\ GoesOn(x, jar, tokens)
         /\ x.pc # "granted" /\ x.pc # "sent"
BY DEF AtRest, Fits, GoesOn

LEMMA OneIsAToken == 1 \in Tokens /\ NoToken \notin Tokens
BY SessionAssumption DEF Tokens, NoToken

LEMMA FreeIsNobody == \A t \in Tabs, r \in RunIds : Free # [tab |-> t, run |-> r] /\ Free.tab # t
BY RunAssumption DEF Free

(* The refresh a step is about is the only one under way.                    *)
Alone(t, r) == ~AtRest(run[t][r]) \/ holder = Free

LEMMA AloneInTheLock ==
  ASSUME OnlyHolderRuns, NEW t \in Tabs, NEW r \in RunIds, Alone(t, r)
  PROVE  \A u \in Tabs, s \in RunIds : u # t \/ s # r => AtRest(run[u][s])
<1> SUFFICES ASSUME NEW u \in Tabs, NEW s \in RunIds, u # t \/ s # r PROVE AtRest(run[u][s])
  OBVIOUS
<1>1. [tab |-> t, run |-> r] # [tab |-> u, run |-> s]
  OBVIOUS
<1>2. CASE holder = Free
  BY <1>2, FreeIsNobody DEF OnlyHolderRuns
<1>3. CASE ~AtRest(run[t][r])
  BY <1>1, <1>3 DEF OnlyHolderRuns
<1> QED
  BY <1>2, <1>3 DEF Alone

LEMMA AloneStep ==
  ASSUME OnlyHolderRuns, NEW t \in Tabs, NEW r \in RunIds, Alone(t, r), NEW x,
         RunBecomes(t, r, x), AtRest(x) \/ holder' = [tab |-> t, run |-> r],
         Fits(x, token', lost'), ending' = FALSE /\ token'[1] # "unissued" => GoesOn(x, cookie', token')
  PROVE  /\ OnlyHolderRuns' /\ RunsFit'
         /\ Going' => \A u \in Tabs, s \in RunIds : GoesOn(run'[u][s], cookie', token')
         /\ \A k : GrantedFor(k) <=> run[t][r].pc = "granted" /\ run[t][r].sent = k
         /\ (\E u \in Tabs, s \in RunIds : run'[u][s].pc = "granted" /\ run'[u][s].sent = cookie')
              <=> x.pc = "granted" /\ x.sent = cookie'
<1>1. \A u \in Tabs, s \in RunIds : u # t \/ s # r => AtRest(run[u][s]) /\ run'[u][s] = run[u][s]
  BY AloneInTheLock DEF RunBecomes
<1>2. run'[t][r] = x
  BY DEF RunBecomes
<1>3. ASSUME NEW u \in Tabs, NEW s \in RunIds, u # t \/ s # r
      PROVE  /\ Fits(run'[u][s], token', lost') /\ GoesOn(run'[u][s], cookie', token')
             /\ run[u][s].pc # "granted" /\ run'[u][s].pc # "granted" /\ AtRest(run'[u][s])
  BY <1>1, <1>3, RestFits
<1>4. OnlyHolderRuns'
  BY <1>2, <1>3 DEF OnlyHolderRuns, AtRest
<1>5. RunsFit'
  BY <1>2, <1>3 DEF RunsFit, Fits
<1>6. Going' => \A u \in Tabs, s \in RunIds : GoesOn(run'[u][s], cookie', token')
  BY <1>2, <1>3 DEF Going
<1>7. \A k : GrantedFor(k) <=> run[t][r].pc = "granted" /\ run[t][r].sent = k
  BY <1>3 DEF GrantedFor
<1>8. (\E u \in Tabs, s \in RunIds : run'[u][s].pc = "granted" /\ run'[u][s].sent = cookie')
        <=> x.pc = "granted" /\ x.sent = cookie'
  BY <1>2, <1>3
<1> QED
  BY <1>4, <1>5, <1>6, <1>7, <1>8

(* A step that starts and ends no refresh beyond waiting for the lock, and   *)
(* uses up no token.                                                        *)
TokensOnward ==
  \A k \in Tokens :
    /\ token[k] = "live" => token'[k] \in {"live", "ended"}
    /\ token[k] \in {"rotated", "ended"} => token'[k] = token[k]

LEMMA RestStep ==
  ASSUME SessionBase, OnlyHolderRuns, RunsFit, TokensOnward, lost \subseteq lost',
         UNCHANGED holder,
         \A u \in Tabs, s \in RunIds :
           run'[u][s] = run[u][s] \/ (AtRest(run[u][s]) /\ AtRest(run'[u][s]))
  PROVE  /\ OnlyHolderRuns' /\ RunsFit'
         /\ \A k : GrantedFor(k) <=> \E u \in Tabs, s \in RunIds : run'[u][s].pc = "granted" /\ run'[u][s].sent = k
         /\ cookie' = cookie /\ token' = token
              /\ (\A u \in Tabs, s \in RunIds : GoesOn(run[u][s], cookie, token))
              => \A u \in Tabs, s \in RunIds : GoesOn(run'[u][s], cookie', token')
<1> run \in RunTable
  BY DEF SessionBase, SessionTypeOK, RunTable
<1>1. OnlyHolderRuns'
  BY DEF OnlyHolderRuns, AtRest
<1>2. RunsFit'
  <2> SUFFICES ASSUME NEW u \in Tabs, NEW s \in RunIds PROVE Fits(run'[u][s], token', lost')
    BY DEF RunsFit, Fits
  <2>1. CASE AtRest(run'[u][s])
    BY <2>1, RestFits
  <2>2. CASE run'[u][s] = run[u][s]
    <3> DEFINE x == run[u][s]
    <3>1. Fits(x, token, lost)
      BY DEF RunsFit
    <3>2. x.sent \in Tokens \cup {NoToken} /\ x.got \in Tokens \cup {NoToken}
      BY RunPieces
    <3>3. Fits(x, token', lost')
      BY <3>1, <3>2 DEF Fits, TokensOnward
    <3> QED
      BY <2>2, <3>3
  <2> QED
    BY <2>1, <2>2
<1>3. \A u \in Tabs, s \in RunIds :
        \/ run'[u][s] = run[u][s]
        \/ run[u][s].pc # "granted" /\ run'[u][s].pc # "granted"
  BY RestFits
<1>4. \A k : GrantedFor(k) <=> \E u \in Tabs, s \in RunIds : run'[u][s].pc = "granted" /\ run'[u][s].sent = k
  BY <1>3 DEF GrantedFor
<1>5. ASSUME cookie' = cookie, token' = token,
             \A u \in Tabs, s \in RunIds : GoesOn(run[u][s], cookie, token)
      PROVE  \A u \in Tabs, s \in RunIds : GoesOn(run'[u][s], cookie', token')
  <2> SUFFICES ASSUME NEW u \in Tabs, NEW s \in RunIds PROVE GoesOn(run'[u][s], cookie', token')
    OBVIOUS
  <2>1. CASE AtRest(run'[u][s])
    BY <2>1, RestFits
  <2>2. CASE run'[u][s] = run[u][s]
    BY <1>5, <2>2
  <2> QED
    BY <2>1, <2>2
<1> QED
  BY <1>1, <1>2, <1>4, <1>5

LEMMA JarStays ==
  ASSUME SessionBase, JarKnown, cookie' = cookie, TokensOnward, lost \subseteq lost',
         GrantedFor(cookie) => \E u \in Tabs, s \in RunIds : run'[u][s].pc = "granted" /\ run'[u][s].sent = cookie'
  PROVE  JarKnown'
<1> cookie \in Tokens \cup {NoToken}
  BY DEF SessionBase, SessionTypeOK
<1> QED
  BY DEF JarKnown, TokensOnward, GrantedFor

LEMMA NothingNew ==
  ASSUME SessionBase, IssuedInOrder,
         \A k \in Tokens : token'[k] = "unissued" <=> token[k] = "unissued"
  PROVE  IssuedInOrder' /\ (token'[1] # "unissued" => token[1] # "unissued")
BY OneIsAToken DEF IssuedInOrder

LEMMA AloneGranted ==
  ASSUME OnlyHolderRuns, NEW t \in Tabs, NEW r \in RunIds, Alone(t, r)
  PROVE  \A k : GrantedFor(k) <=> run[t][r].pc = "granted" /\ run[t][r].sent = k
BY AloneInTheLock, RestFits DEF GrantedFor

LEMMA GrantLockKeeps ==
  ASSUME SessionBase, LockParts, NEW t \in Tabs, NEW r \in RunIds, GrantLock(t, r)
  PROVE  LockParts'
<1> TokenTypes /\ RunTypes
  BY SessionByPart DEF SessionBase
<1>0. OnlyHolderRuns /\ RunsFit /\ JarKnown /\ IssuedInOrder /\ KeptUp
  BY DEF LockParts
<1>1. UNCHANGED <<cookie, token, lost, ending, marker, leaving, channel, storage>>
  BY DEF GrantLock, tabVars, queueVars, observers
<1>2. PICK x \in RunRecord :
        /\ run[t][r].pc = "lock" /\ holder = Free
        /\ RunBecomes(t, r, x) /\ holder' = [tab |-> t, run |-> r]
        /\ x.pc = "reuse" \/ (x.pc = "sent" /\ x.sent = cookie)
  BY GrantedRun
<1>3. Alone(t, r)
  BY <1>2 DEF Alone
<1>4. \A k : ~GrantedFor(k)
  BY <1>0, <1>2, <1>3, AloneGranted
<1>5. Fits(x, token', lost')
  BY <1>0, <1>1, <1>2, <1>4 DEF Fits, JarKnown
<1>6. GoesOn(x, cookie', token')
  BY <1>1, <1>2 DEF GoesOn
<1>7. /\ OnlyHolderRuns' /\ RunsFit'
      /\ Going' => \A u \in Tabs, s \in RunIds : GoesOn(run'[u][s], cookie', token')
  BY <1>0, <1>2, <1>3, <1>5, <1>6, AloneStep
<1>8. JarKnown'
  BY <1>0, <1>1, <1>4 DEF JarKnown
<1>9. IssuedInOrder'
  BY <1>0, <1>1 DEF IssuedInOrder
<1>10. KeptUp'
  BY <1>0, <1>1, <1>4, <1>7 DEF KeptUp, Going, Accepted, TabsGoOn
<1> QED
  BY <1>7, <1>8, <1>9, <1>10 DEF LockParts

LEMMA ServeKeeps ==
  ASSUME SessionBase, LockParts, NEW t \in Tabs, NEW r \in RunIds, ServeRefresh(t, r)
  PROVE  LockParts'
<1> TokenTypes /\ RunTypes
  BY SessionByPart DEF SessionBase
<1>0. OnlyHolderRuns /\ RunsFit /\ JarKnown /\ IssuedInOrder /\ KeptUp
  BY DEF LockParts
<1>1. UNCHANGED <<cookie, holder, lost, marker, leaving, channel, storage>>
  BY DEF ServeRefresh, tabVars, queueVars
<1>2. run[t][r].pc = "sent" /\ (Refuses(t, r) \/ \E n \in Tokens : Rotates(t, r, n))
  BY ServedRun
<1>3. Alone(t, r) /\ holder' = [tab |-> t, run |-> r]
  BY <1>0, <1>1, <1>2 DEF Alone, AtRest, OnlyHolderRuns
<1>4. \A k : ~GrantedFor(k)
  BY <1>0, <1>2, <1>3, AloneGranted
<1>5. Fits(run[t][r], token, lost) /\ (Going => GoesOn(run[t][r], cookie, token))
  BY <1>0 DEF RunsFit, KeptUp
<1>6. run[t][r].sent \in Tokens \cup {NoToken} /\ cookie \in Tokens \cup {NoToken} /\ token \in [Tokens -> Statuses]
  BY RunPieces DEF RunTypes, TokenTypes
<1>7. CASE Refuses(t, r)
  <2> DEFINE x == [run[t][r] EXCEPT !.pc = "refused"]
  <2>1. RunBecomes(t, r, x) /\ x.pc = "refused" /\ x.sent = run[t][r].sent
    BY <1>7, RunPieces DEF Refuses, RunTypes
  <2> HIDE DEF x
  <2>2. CASE ~Accepted(run[t][r].sent) /\ UNCHANGED <<token, ending>>
    <3>1. Fits(x, token', lost')
      BY <1>1, <1>2, <1>5, <2>1, <2>2 DEF Fits, Accepted
    <3>2. ~Going
      BY <1>0, <1>2, <1>4, <1>5, <2>2 DEF KeptUp, GoesOn
    <3>3. ~Going'
      BY <2>2, <3>2 DEF Going
    <3>4. OnlyHolderRuns' /\ RunsFit'
      BY <1>0, <1>3, <2>1, <3>1, <3>3, AloneStep DEF Going
    <3>5. JarKnown' /\ IssuedInOrder'
      BY <1>0, <1>1, <1>4, <2>2 DEF JarKnown, IssuedInOrder
    <3> QED
      BY <3>3, <3>4, <3>5 DEF LockParts, KeptUp
  <2>3. CASE /\ Accepted(run[t][r].sent)
             /\ token' = [token EXCEPT ![run[t][r].sent] = "ended"] /\ ending' = TRUE
    <3>1. Fits(x, token', lost')
      BY <1>6, <2>1, <2>3 DEF Fits
    <3>2. ~Going'
      BY <2>3 DEF Going
    <3>3. OnlyHolderRuns' /\ RunsFit'
      BY <1>0, <1>3, <2>1, <3>1, <3>2, AloneStep DEF Going
    <3>4. JarKnown'
      BY <1>0, <1>1, <1>4, <1>6, <2>3 DEF JarKnown
    <3>5. IssuedInOrder'
      BY <1>0, <1>6, <2>3, OneIsAToken DEF IssuedInOrder, Accepted
    <3> QED
      BY <3>2, <3>3, <3>4, <3>5 DEF LockParts, KeptUp
  <2> QED
    BY <1>7, <2>2, <2>3 DEF Refuses
<1>8. ASSUME NEW n \in Tokens, Rotates(t, r, n) PROVE LockParts'
  <2> DEFINE x == [run[t][r] EXCEPT !.pc = "granted", !.got = n]
             k0 == run[t][r].sent
  <2>1. RunBecomes(t, r, x) /\ x.pc = "granted" /\ x.sent = k0 /\ x.got = n
    BY <1>8, RunPieces DEF Rotates, RunTypes
  <2>2. /\ k0 \in Tokens /\ k0 # NoToken /\ n # NoToken /\ token[k0] = "live" /\ token[n] = "unissued"
        /\ token' = [token EXCEPT ![k0] = "rotated", ![n] = "live"]
        /\ UNCHANGED ending
    BY <1>6, <1>8, OneIsAToken DEF Rotates, Accepted, NextToken
  <2> HIDE DEF x, k0
  <2>3. token'[k0] = "rotated" /\ token'[n] = "live" /\ \A k \in Tokens \ {k0, n} : token'[k] = token[k]
    BY <1>6, <2>2
  <2>4. token[1] # "unissued" /\ token'[1] # "unissued"
    BY <1>0, <2>2, <2>3, OneIsAToken DEF IssuedInOrder
  <2>5. Going' => Going
    BY <2>2, <2>4 DEF Going
  <2>6. Fits(x, token', lost')
    BY <2>1, <2>2, <2>3 DEF Fits
  <2>7. Going => k0 = cookie
    BY <1>2, <1>5 DEF GoesOn, k0
  <2>8. Going' => GoesOn(x, cookie', token')
    BY <1>1, <2>1, <2>3, <2>5, <2>7 DEF GoesOn
  <2>9. /\ OnlyHolderRuns' /\ RunsFit'
        /\ Going' => \A u \in Tabs, s \in RunIds : GoesOn(run'[u][s], cookie', token')
    BY <1>0, <1>3, <2>1, <2>6, <2>8, AloneStep DEF Going
  <2>10. k0 = cookie => GrantedFor(cookie)'
    BY <1>1, <2>1 DEF GrantedFor, RunBecomes
  <2>11. JarKnown'
    <3>1. CASE cookie = k0
      BY <1>1, <2>3, <2>10, <3>1 DEF JarKnown
    <3>2. CASE cookie # k0 /\ cookie # NoToken
      <4>1. token[cookie] \in {"live", "ended"} \/ (token[cookie] = "rotated" /\ cookie \in lost)
        BY <1>0, <1>4, <3>2 DEF JarKnown
      <4>2. cookie \in Tokens \ {k0, n}
        BY <1>6, <2>2, <3>2, <4>1
      <4> QED
        BY <1>1, <2>3, <4>1, <4>2 DEF JarKnown
    <3> QED
      BY <1>1, <3>1, <3>2 DEF JarKnown
  <2>12. IssuedInOrder'
    BY <2>4 DEF IssuedInOrder
  <2>13. KeptUp'
    BY <1>0, <1>1, <2>5, <2>7, <2>9, <2>10 DEF KeptUp, TabsGoOn
  <2> QED
    BY <2>9, <2>11, <2>12, <2>13 DEF LockParts
<1> QED
  BY <1>2, <1>7, <1>8

LEMMA ThrottleKeeps ==
  ASSUME SessionBase, LockParts, NEW t \in Tabs, NEW r \in RunIds, ThrottleRefresh(t, r)
  PROVE  LockParts'
<1> TokenTypes /\ RunTypes
  BY SessionByPart DEF SessionBase
<1>0. OnlyHolderRuns /\ RunsFit /\ JarKnown /\ IssuedInOrder
  BY DEF LockParts
<1>1. UNCHANGED <<cookie, token, holder, lost>> /\ ending' = TRUE /\ run[t][r].pc = "sent"
  BY DEF ThrottleRefresh
<1>2. Alone(t, r) /\ holder' = [tab |-> t, run |-> r]
  BY <1>0, <1>1 DEF Alone, AtRest, OnlyHolderRuns
<1>3. \A k : ~GrantedFor(k)
  BY <1>0, <1>1, <1>2, AloneGranted
<1> DEFINE x == [run[t][r] EXCEPT !.pc = "throttled"]
<1>4. RunBecomes(t, r, x) /\ x.pc = "throttled"
  BY ThrottledRun, RunPieces DEF RunTypes
<1> HIDE DEF x
<1>5. Fits(x, token', lost') /\ ~Going'
  BY <1>1, <1>4 DEF Fits, Going
<1>6. OnlyHolderRuns' /\ RunsFit'
  BY <1>0, <1>2, <1>4, <1>5, AloneStep DEF Going
<1>7. JarKnown' /\ IssuedInOrder'
  BY <1>0, <1>1, <1>3 DEF JarKnown, IssuedInOrder
<1> QED
  BY <1>5, <1>6, <1>7 DEF LockParts, KeptUp

LEMMA SettleKeeps ==
  ASSUME SessionBase, LockParts, NEW t \in Tabs, NEW r \in RunIds,
         \/ LoseRefresh(t, r) \/ RefreshSucceeds(t, r) \/ RefreshReused(t, r)
         \/ RefreshRejected(t, r) \/ RefreshThrottled(t, r)
  PROVE  LockParts'
<1> TokenTypes /\ RunTypes /\ TabTypes
  BY SessionByPart DEF SessionBase
<1>0. OnlyHolderRuns /\ RunsFit /\ JarKnown /\ IssuedInOrder /\ KeptUp
  BY DEF LockParts
<1>1. RunBecomes(t, r, IdleRun)
  BY SettledRun DEF LoseRefresh, RefreshSucceeds, RefreshReused, RefreshRejected, RefreshThrottled
<1>2. run[t][r].pc \in {"sent", "granted", "refused", "reuse", "throttled"} /\ UNCHANGED token
  BY DEF LoseRefresh, RefreshSucceeds, RefreshReused, RefreshRejected, RefreshThrottled
<1>3. Alone(t, r)
  BY <1>2 DEF Alone, AtRest
<1>4. \A k : GrantedFor(k) <=> run[t][r].pc = "granted" /\ run[t][r].sent = k
  BY <1>0, <1>3, AloneGranted
<1>5. AtRest(IdleRun)
  BY RunsOfNothing DEF AtRest
<1>6. Fits(IdleRun, token', lost') /\ GoesOn(IdleRun, cookie', token')
  BY <1>5, RestFits
<1>7. /\ OnlyHolderRuns' /\ RunsFit'
      /\ Going' => \A u \in Tabs, s \in RunIds : GoesOn(run'[u][s], cookie', token')
  BY <1>0, <1>1, <1>3, <1>5, <1>6, AloneStep
<1>8. IssuedInOrder'
  BY <1>0, <1>2 DEF IssuedInOrder
<1>9. Fits(run[t][r], token, lost) /\ (Going => GoesOn(run[t][r], cookie, token))
  BY <1>0 DEF RunsFit, KeptUp
<1> SUFFICES JarKnown' /\ KeptUp'
  BY <1>7, <1>8 DEF LockParts
<1>10. CASE LoseRefresh(t, r)
  <2>1. /\ UNCHANGED <<cookie, marker, leaving, channel, storage>>
        /\ lost' = IF run[t][r].pc = "granted" THEN lost \cup {run[t][r].sent} ELSE lost
        /\ ending' = (ending \/ run[t][r].pc = "granted")
    BY <1>10 DEF LoseRefresh, queueVars
  <2>2. JarKnown'
    BY <1>0, <1>2, <1>4, <2>1 DEF JarKnown
  <2>3. ASSUME Going' PROVE Going /\ run[t][r].pc # "granted"
    BY <1>2, <2>1, <2>3 DEF Going, TokenTypes
  <2>4. KeptUp'
    BY <1>0, <1>2, <1>4, <1>7, <2>1, <2>3 DEF KeptUp, Accepted, TabsGoOn
  <2> QED
    BY <2>2, <2>4
<1>11. CASE RefreshSucceeds(t, r)
  <2>1. /\ run[t][r].pc = "granted" /\ cookie' = run[t][r].got
        /\ UNCHANGED <<lost, ending, leaving>>
        /\ WriteMarker(t, storage, TRUE)
        /\ channel' = ToOthers(t, channel, [type |-> "access", access |-> run[t][r].got])
    BY <1>11 DEF RefreshSucceeds, Post, observers
  <2>2. JarKnown'
    BY <1>2, <1>9, <2>1 DEF JarKnown, Fits
  <2>3. marker' = TRUE /\ storage' = storage
    BY <2>1 DEF WriteMarker
  <2>4. Going' => Going
    BY <1>2, <2>1 DEF Going
  <2>5. ASSUME Going' PROVE TabsGoOn'
    <3> SUFFICES ASSUME NEW u \in Tabs
                 PROVE  /\ leaving'[u] = FALSE /\ storage'[u] = <<>>
                        /\ \A i \in 1 .. Len(channel'[u]) : channel'[u][i].type = "access"
      BY DEF TabsGoOn
    <3>1. /\ leaving[u] = FALSE /\ storage[u] = <<>>
          /\ \A i \in 1 .. Len(channel[u]) : channel[u][i].type = "access"
      BY <1>0, <2>4, <2>5 DEF KeptUp, TabsGoOn
    <3> DEFINE e == [type |-> "access", access |-> run[t][r].got]
    <3>2. e.type = "access" /\ (channel'[u] = channel[u] \/ channel'[u] = Append(channel[u], e))
      BY <2>1 DEF ToOthers
    <3>3. channel[u] \in Seq(Message)
      BY DEF TabTypes
    <3> HIDE DEF e
    <3>4. \A i \in 1 .. Len(Append(channel[u], e)) :
            Append(channel[u], e)[i] = e \/ (i \in 1 .. Len(channel[u]) /\ Append(channel[u], e)[i] = channel[u][i])
      BY <3>3
    <3> QED
      BY <2>1, <2>3, <3>1, <3>2, <3>4
  <2>6. KeptUp'
    BY <1>2, <1>7, <1>9, <2>1, <2>3, <2>4, <2>5 DEF KeptUp, Accepted, GoesOn, Fits
  <2> QED
    BY <2>2, <2>6
<1>12. CASE RefreshReused(t, r)
  <2>1. /\ run[t][r].pc = "reuse"
        /\ UNCHANGED <<cookie, lost, ending, marker, leaving, channel, storage>>
    BY <1>12 DEF RefreshReused, queueVars, observers
  <2>2. \A k : ~GrantedFor(k)
    BY <1>4, <2>1
  <2>3. JarKnown'
    BY <1>0, <1>2, <2>1, <2>2 DEF JarKnown
  <2>4. KeptUp'
    BY <1>0, <1>2, <1>7, <2>1, <2>2 DEF KeptUp, Going, Accepted, TabsGoOn
  <2> QED
    BY <2>3, <2>4
<1>13. CASE RefreshRejected(t, r) \/ RefreshThrottled(t, r)
  <2>1. run[t][r].pc \in {"refused", "throttled"} /\ cookie' = NoToken /\ UNCHANGED ending
    BY <1>13 DEF RefreshRejected, RefreshThrottled, observers
  <2>2. ~Going'
    BY <1>2, <1>9, <2>1 DEF GoesOn, Going
  <2> QED
    BY <2>1, <2>2 DEF JarKnown, KeptUp
<1> QED
  BY <1>10, <1>11, <1>12, <1>13

LEMMA CallKeeps ==
  ASSUME SessionBase, LockParts, locks, NEW t \in Tabs, CallWithoutToken(t) \/ CallExpired(t)
  PROVE  LockParts'
<1> TokenTypes /\ RunTypes
  BY SessionByPart DEF SessionBase
<1>0. OnlyHolderRuns /\ RunsFit /\ JarKnown /\ IssuedInOrder /\ KeptUp
  BY DEF LockParts
<1>1. PICK stale \in Tokens \cup {NoToken} : RefreshAccessToken(t, stale)
  BY CallSteps
<1>2. PICK r \in RunIds, x \in RunRecord :
        run[t][r] = IdleRun /\ RunBecomes(t, r, x) /\ x.pc = "lock"
  BY <1>1, BegunRun
<1>3. UNCHANGED <<cookie, token, holder, lost, ending, marker, leaving, channel, storage>>
  BY <1>1 DEF RefreshAccessToken, queueVars, observers
<1>4. \A u \in Tabs, s \in RunIds :
        run'[u][s] = run[u][s] \/ (AtRest(run[u][s]) /\ AtRest(run'[u][s]))
  BY <1>2, RunsOfNothing DEF RunBecomes, AtRest
<1>5. TokensOnward
  BY <1>3 DEF TokensOnward
<1>6. /\ OnlyHolderRuns' /\ RunsFit'
      /\ \A k : GrantedFor(k) <=> \E u \in Tabs, s \in RunIds : run'[u][s].pc = "granted" /\ run'[u][s].sent = k
      /\ (\A u \in Tabs, s \in RunIds : GoesOn(run[u][s], cookie, token))
           => \A u \in Tabs, s \in RunIds : GoesOn(run'[u][s], cookie', token')
  BY <1>0, <1>3, <1>4, <1>5, RestStep
<1>7. GrantedFor(cookie) <=> GrantedFor(cookie)'
  BY <1>3, <1>6 DEF GrantedFor
<1>8. JarKnown' /\ IssuedInOrder'
  BY <1>0, <1>3, <1>7 DEF JarKnown, IssuedInOrder
<1>9. KeptUp'
  BY <1>0, <1>3, <1>6, <1>7 DEF KeptUp, Going, Accepted, TabsGoOn
<1> QED
  BY <1>6, <1>8, <1>9 DEF LockParts

LEMMA LoginKeeps ==
  ASSUME SessionBase, LockParts, NEW t \in Tabs, Login(t)
  PROVE  LockParts'
<1> TokenTypes /\ RunTypes
  BY SessionByPart DEF SessionBase
<1>0. OnlyHolderRuns /\ RunsFit /\ JarKnown /\ IssuedInOrder /\ KeptUp
  BY DEF LockParts
<1>1. PICK n \in Tokens : NextToken(n) /\ token' = [token EXCEPT ![n] = "live"] /\ cookie' = n
  BY DEF Login
<1>2. UNCHANGED <<holder, run, lost, leaving, channel>> /\ ~marker /\ WriteMarker(t, storage, TRUE) /\ ending' = ~SessionQuiet
  BY DEF Login, HasSession
<1>3. n # NoToken /\ token[n] = "unissued" /\ token'[n] = "live" /\ \A k \in Tokens \ {n} : token'[k] = token[k]
  BY <1>1, OneIsAToken DEF NextToken, TokenTypes
<1>4. TokensOnward
  BY <1>3 DEF TokensOnward
<1>5. OnlyHolderRuns' /\ RunsFit'
  BY <1>0, <1>2, <1>4, RestStep
<1>6. JarKnown'
  BY <1>1, <1>3 DEF JarKnown
<1>7. token'[1] # "unissued"
  <2>1. CASE n = 1
    BY <1>3, <2>1
  <2>2. CASE n # 1
    <3>1. 1 \in 1 .. n - 1
      BY <2>2, SessionAssumption DEF Tokens
    <3>2. token[1] # "unissued"
      BY <1>1, <3>1 DEF NextToken
    <3> QED
      BY <1>3, <2>2, <3>2, OneIsAToken
  <2> QED
    BY <2>1, <2>2
<1>8. KeptUp'
  <2> SUFFICES ASSUME Going'
               PROVE  /\ marker' = TRUE /\ Accepted(cookie)' /\ TabsGoOn'
                      /\ \A u \in Tabs, s \in RunIds : GoesOn(run'[u][s], cookie', token')
    BY DEF KeptUp
  <2>1. SessionQuiet
    BY <1>2 DEF Going
  <2>2. marker' = TRUE /\ storage' = storage
    BY <1>2 DEF WriteMarker
  <2>3. Accepted(cookie)'
    BY <1>1, <1>3 DEF Accepted
  <2>4. TabsGoOn'
    <3> SUFFICES ASSUME NEW u \in Tabs
                 PROVE  /\ leaving'[u] = FALSE /\ storage'[u] = <<>>
                        /\ \A i \in 1 .. Len(channel'[u]) : channel'[u][i].type = "access"
      BY DEF TabsGoOn
    <3>1. ~leaving[u] /\ channel[u] = <<>> /\ storage[u] = <<>>
      BY <2>1 DEF SessionQuiet
    <3>2. leaving[u] \in BOOLEAN
      BY DEF SessionBase, SessionTypeOK
    <3>3. leaving'[u] = FALSE
      BY <1>2, <3>1, <3>2
    <3>4. \A i \in 1 .. Len(channel'[u]) : channel'[u][i].type = "access"
      BY <1>2, <3>1
    <3> QED
      BY <2>2, <3>1, <3>3, <3>4
  <2>5. \A u \in Tabs, s \in RunIds : GoesOn(run'[u][s], cookie', token')
    <3>1. \A u \in Tabs, s \in RunIds : run'[u][s] = IdleRun
      BY <1>2, <2>1 DEF SessionQuiet
    <3> QED
      BY <3>1, RunsOfNothing, RestFits DEF AtRest
  <2> QED
    BY <2>2, <2>3, <2>4, <2>5
<1> QED
  BY <1>5, <1>6, <1>7, <1>8 DEF LockParts, IssuedInOrder

(* The steps that touch no refresh and may end the session.                  *)
LEMMA EndingKeeps ==
  ASSUME SessionBase, LockParts,
         \/ RevokeSessions
         \/ \E t \in Tabs : LogoutServed(t) \/ LogoutAnswered(t) \/ LogoutFails(t) \/ HandleStorage(t)
  PROVE  LockParts'
<1> TokenTypes /\ RunTypes /\ TabTypes
  BY SessionByPart DEF SessionBase
<1>0. OnlyHolderRuns /\ RunsFit /\ JarKnown /\ IssuedInOrder /\ KeptUp
  BY DEF LockParts
<1>1. UNCHANGED <<holder, run, lost>>
  BY DEF LogoutServed, LogoutAnswered, LogoutFails, LogoutEnds, HandleStorage, RevokeSessions, observers
<1>2. /\ TokensOnward
      /\ \A k \in Tokens : token'[k] = "unissued" <=> token[k] = "unissued"
  <2>1. CASE UNCHANGED token
    BY <2>1 DEF TokensOnward
  <2>2. CASE \E t \in Tabs : LogoutServed(t)
    BY <2>2 DEF LogoutServed, TokensOnward
  <2>3. CASE RevokeSessions
    BY <2>3 DEF RevokeSessions, TokensOnward
  <2> QED
    BY <2>1, <2>2, <2>3 DEF LogoutAnswered, LogoutFails, LogoutEnds, HandleStorage
<1>3. OnlyHolderRuns' /\ RunsFit'
  BY <1>0, <1>1, <1>2, RestStep
<1>4. JarKnown'
  <2>1. CASE cookie' = NoToken
    BY <2>1 DEF JarKnown
  <2>2. CASE cookie' = cookie
    <3>1. GrantedFor(cookie) => \E u \in Tabs, s \in RunIds : run'[u][s].pc = "granted" /\ run'[u][s].sent = cookie'
      BY <1>1, <2>2 DEF GrantedFor
    <3> QED
      BY <1>0, <1>1, <1>2, <2>2, <3>1, JarStays
  <2> QED
    BY <2>1, <2>2 DEF LogoutServed, LogoutAnswered, LogoutFails, HandleStorage, RevokeSessions
<1>5. IssuedInOrder' /\ (token'[1] # "unissued" => token[1] # "unissued")
  BY <1>0, <1>2, NothingNew
<1>6. ~Going'
  <2>1. CASE RevokeSessions \/ \E t \in Tabs : LogoutServed(t)
    BY <2>1 DEF LogoutServed, RevokeSessions, Going
  <2>2. ASSUME NEW t \in Tabs, LogoutAnswered(t) \/ LogoutFails(t) \/ HandleStorage(t) PROVE ~Going'
    <3>1. leaving[t] = TRUE \/ storage[t] # <<>>
      BY <2>2 DEF LogoutAnswered, LogoutFails, HandleStorage, TabTypes
    <3>2. ~Going
      BY <1>0, <3>1 DEF KeptUp, TabsGoOn
    <3>3. UNCHANGED ending
      BY <2>2 DEF LogoutAnswered, LogoutFails, LogoutEnds, HandleStorage, observers
    <3> QED
      BY <1>5, <3>2, <3>3 DEF Going
  <2> QED
    BY <2>1, <2>2
<1> QED
  BY <1>3, <1>4, <1>5, <1>6 DEF LockParts, KeptUp

LEMMA HearKeeps ==
  ASSUME SessionBase, LockParts, NEW t \in Tabs, HandleMessage(t)
  PROVE  LockParts'
<1> TokenTypes /\ RunTypes /\ TabTypes
  BY SessionByPart DEF SessionBase
<1>0. OnlyHolderRuns /\ RunsFit /\ JarKnown /\ IssuedInOrder /\ KeptUp
  BY DEF LockParts
<1>1. UNCHANGED <<cookie, token, holder, run, lost, ending, leaving>> /\ channel[t] # <<>>
  BY DEF HandleMessage, observers
<1>2. TokensOnward
  BY <1>1 DEF TokensOnward
<1>3. OnlyHolderRuns' /\ RunsFit'
  BY <1>0, <1>1, <1>2, RestStep
<1>4. GrantedFor(cookie) <=> GrantedFor(cookie)'
  BY <1>1 DEF GrantedFor
<1>5. JarKnown' /\ IssuedInOrder'
  BY <1>0, <1>1, <1>4 DEF JarKnown, IssuedInOrder
<1>6. KeptUp'
  <2> SUFFICES ASSUME Going' PROVE marker' = TRUE /\ TabsGoOn' /\ Going
    BY <1>0, <1>1, <1>4 DEF KeptUp, Accepted
  <2>1. Going
    BY <1>1 DEF Going
  <2>2. channel[t] \in Seq(Message) /\ channel[t] # <<>>
    BY <1>1 DEF TabTypes
  <2>3. 1 \in 1 .. Len(channel[t]) /\ Head(channel[t]) = channel[t][1]
    BY <2>2
  <2>4. Head(channel[t]).type = "access"
    BY <1>0, <2>1, <2>3 DEF KeptUp, TabsGoOn
  <2>5. channel' = Taken(t, channel) /\ UNCHANGED <<marker, storage>>
    BY <2>4 DEF HandleMessage
  <2>6. \A i \in 1 .. Len(Tail(channel[t])) :
          i + 1 \in 1 .. Len(channel[t]) /\ Tail(channel[t])[i] = channel[t][i + 1]
    BY <2>2
  <2>7. \A i \in 1 .. Len(Tail(channel[t])) : Tail(channel[t])[i].type = "access"
    BY <1>0, <2>1, <2>6 DEF KeptUp, TabsGoOn
  <2>8. \A u \in Tabs : channel'[u] = IF u = t THEN Tail(channel[t]) ELSE channel[u]
    BY <2>5 DEF Taken, TabTypes
  <2>9. TabsGoOn'
    <3> SUFFICES ASSUME NEW u \in Tabs
                 PROVE  /\ leaving'[u] = FALSE /\ storage'[u] = <<>>
                        /\ \A i \in 1 .. Len(channel'[u]) : channel'[u][i].type = "access"
      BY DEF TabsGoOn
    <3>1. /\ leaving[u] = FALSE /\ storage[u] = <<>>
          /\ \A i \in 1 .. Len(channel[u]) : channel[u][i].type = "access"
      BY <1>0, <2>1 DEF KeptUp, TabsGoOn
    <3>2. \A i \in 1 .. Len(channel'[u]) : channel'[u][i].type = "access"
      <4>1. CASE u = t
        <5>1. channel'[u] = Tail(channel[t])
          BY <2>8, <4>1
        <5> QED
          BY <2>7, <5>1
      <4>2. CASE u # t
        <5>1. channel'[u] = channel[u]
          BY <2>8, <4>2
        <5> QED
          BY <3>1, <5>1
      <4> QED
        BY <4>1, <4>2
    <3> QED
      BY <1>1, <2>5, <3>1, <3>2
  <2> QED
    BY <1>0, <2>1, <2>5, <2>9 DEF KeptUp
<1> QED
  BY <1>3, <1>5, <1>6 DEF LockParts

LEMMA ReloadKeeps ==
  ASSUME SessionBase, LockParts, NEW t \in Tabs, Reload(t)
  PROVE  LockParts'
<1> TokenTypes /\ RunTypes /\ TabTypes
  BY SessionByPart DEF SessionBase
<1>0. OnlyHolderRuns /\ RunsFit /\ JarKnown /\ IssuedInOrder /\ KeptUp
  BY DEF LockParts
<1>1. PICK used \in SUBSET Tokens : Reloaded(t, used)
  BY ReloadStep
<1>2. /\ used \subseteq {k \in CutTokens(t, {"sent"}) \ {NoToken} : token[k] = "live"}
      /\ token' = [k \in Tokens |-> IF k \in used THEN "rotated" ELSE token[k]]
      /\ lost' = lost \cup used \cup CutTokens(t, {"granted"})
      /\ ending' = (ending \/ used # {} \/ CutTokens(t, {"granted", "throttled"}) # {})
  BY <1>1 DEF Reloaded
<1>3. /\ holder' = (IF holder.tab = t THEN Free ELSE holder)
      /\ channel' = [channel EXCEPT ![t] = <<>>] /\ storage' = [storage EXCEPT ![t] = <<>>]
      /\ UNCHANGED <<marker, cookie, leaving>>
      /\ run' = [run EXCEPT ![t] = [r \in RunIds |-> IdleRun]]
  BY DEF Reload
<1>4. \A u \in Tabs, s \in RunIds : run'[u][s] = IF u = t THEN IdleRun ELSE run[u][s]
  BY <1>3 DEF RunTypes, RunTable
<1>5. AtRest(IdleRun)
  BY RunsOfNothing DEF AtRest
<1>6. OnlyHolderRuns'
  BY <1>0, <1>3, <1>4, <1>5 DEF OnlyHolderRuns
<1>7. RunsFit'
  <2> SUFFICES ASSUME NEW u \in Tabs, NEW s \in RunIds PROVE Fits(run'[u][s], token', lost')
    BY DEF RunsFit, Fits
  <2>1. CASE AtRest(run'[u][s])
    BY <2>1, RestFits
  <2>2. CASE ~AtRest(run'[u][s])
    <3>1. u # t /\ run'[u][s] = run[u][s] /\ holder = [tab |-> u, run |-> s]
      BY <1>0, <1>4, <1>5, <2>2 DEF OnlyHolderRuns
    <3>2. \A r \in RunIds : AtRest(run[t][r])
      BY <1>0, <3>1 DEF OnlyHolderRuns
    <3>3. used = {}
      BY <1>2, <3>2 DEF CutTokens, AtRest
    <3>4. token' = token /\ lost \subseteq lost'
      BY <1>2, <3>3 DEF TokenTypes
    <3>5. Fits(run[u][s], token, lost)
      BY <1>0 DEF RunsFit
    <3> QED
      BY <3>1, <3>4, <3>5 DEF Fits
  <2> QED
    BY <2>1, <2>2
<1>8. \A u \in Tabs, s \in RunIds :
        run[u][s].pc = "granted" =>
          (u = t /\ run[u][s].sent \in lost') \/ (u # t /\ run'[u][s] = run[u][s])
  BY <1>2, <1>4 DEF CutTokens
<1>9. JarKnown'
  <2> SUFFICES ASSUME cookie # NoToken
               PROVE  \/ token'[cookie] \in {"live", "ended"}
                      \/ token'[cookie] = "rotated" /\ (cookie \in lost' \/ GrantedFor(cookie)')
    BY <1>3 DEF JarKnown
  <2>1. cookie \in Tokens
    BY DEF TokenTypes
  <2>2. CASE cookie \in used
    BY <1>2, <2>1, <2>2
  <2>3. CASE cookie \notin used
    <3>1. token'[cookie] = token[cookie]
      BY <1>2, <2>1, <2>3
    <3>2. GrantedFor(cookie) => cookie \in lost' \/ GrantedFor(cookie)'
      BY <1>3, <1>8 DEF GrantedFor
    <3> QED
      BY <1>0, <1>2, <3>1, <3>2 DEF JarKnown
  <2> QED
    BY <2>2, <2>3
<1>10. \A k \in Tokens : token'[k] = "unissued" <=> token[k] = "unissued"
  BY <1>2
<1>11. IssuedInOrder' /\ (token'[1] # "unissued" => token[1] # "unissued")
  BY <1>0, <1>10, NothingNew
<1>12. KeptUp'
  <2> SUFFICES ASSUME Going'
               PROVE  /\ marker' = TRUE /\ (Accepted(cookie)' \/ GrantedFor(cookie)') /\ TabsGoOn'
                      /\ \A u \in Tabs, s \in RunIds : GoesOn(run'[u][s], cookie', token')
    BY DEF KeptUp
  <2>1. ending = FALSE /\ used = {} /\ CutTokens(t, {"granted", "throttled"}) = {}
    BY <1>2 DEF Going, TokenTypes
  <2>2. Going /\ token' = token
    BY <1>2, <1>11, <2>1 DEF Going, TokenTypes
  <2>3. \A r \in RunIds : run[t][r].pc # "granted"
    BY <2>1 DEF CutTokens
  <2>4. GrantedFor(cookie) => GrantedFor(cookie)'
    BY <1>3, <1>8, <2>3 DEF GrantedFor
  <2>5. marker' = TRUE /\ (Accepted(cookie)' \/ GrantedFor(cookie)')
    BY <1>0, <1>3, <2>2, <2>4 DEF KeptUp, Accepted
  <2>6. TabsGoOn'
    <3> SUFFICES ASSUME NEW u \in Tabs
                 PROVE  /\ leaving'[u] = FALSE /\ storage'[u] = <<>>
                        /\ \A i \in 1 .. Len(channel'[u]) : channel'[u][i].type = "access"
      BY DEF TabsGoOn
    <3>1. /\ leaving[u] = FALSE /\ storage[u] = <<>>
          /\ \A i \in 1 .. Len(channel[u]) : channel[u][i].type = "access"
      BY <1>0, <2>2 DEF KeptUp, TabsGoOn
    <3>2. CASE u = t
      <4>1. channel'[u] = <<>> /\ storage'[u] = <<>>
        BY <1>3, <3>2 DEF TabTypes
      <4> QED
        BY <1>3, <3>1, <4>1
    <3>3. CASE u # t
      <4>1. channel'[u] = channel[u] /\ storage'[u] = storage[u]
        BY <1>3, <3>3 DEF TabTypes
      <4> QED
        BY <1>3, <3>1, <4>1
    <3> QED
      BY <3>2, <3>3
  <2>7. ASSUME NEW u \in Tabs, NEW s \in RunIds PROVE GoesOn(run'[u][s], cookie', token')
    <3>1. CASE u = t
      BY <1>4, <1>5, <3>1, RestFits
    <3>2. CASE u # t
      BY <1>0, <1>3, <1>4, <2>2, <3>2 DEF KeptUp
    <3> QED
      BY <3>1, <3>2
  <2> QED
    BY <2>5, <2>6, <2>7
<1> QED
  BY <1>6, <1>7, <1>9, <1>11, <1>12 DEF LockParts

LEMMA LockInvStarts == SessionInit => LockInv
<1> SUFFICES ASSUME SessionInit PROVE LockParts
  BY DEF LockInv
<1>1. \A t \in Tabs, r \in RunIds : run[t][r] = IdleRun
  BY DEF SessionInit
<1>2. OnlyHolderRuns /\ RunsFit
  BY <1>1, RunsOfNothing, RestFits DEF OnlyHolderRuns, RunsFit, AtRest
<1>3. JarKnown /\ IssuedInOrder /\ ~Going
  BY OneIsAToken DEF SessionInit, JarKnown, IssuedInOrder, Going
<1> QED
  BY <1>2, <1>3 DEF LockParts, KeptUp

LEMMA LockInvStays == SessionBase /\ LockInv /\ [SessionNext]_sessionVars => LockInv'
<1> SUFFICES ASSUME SessionBase, LockInv, [SessionNext]_sessionVars, locks' PROVE LockParts'
  BY DEF LockInv
<1>1. CASE UNCHANGED sessionVars
  BY <1>1 DEF sessionVars, LockInv, LockParts, OnlyHolderRuns, RunsFit, JarKnown, IssuedInOrder,
              KeptUp, Going, Accepted, GrantedFor, TabsGoOn
<1>2. CASE RevokeSessions
  <2>1. LockParts
    BY <1>2 DEF LockInv, RevokeSessions
  <2> QED
    BY <1>2, <2>1, EndingKeeps
<1>3. ASSUME NEW t \in Tabs, NEW r \in RunIds,
             \/ GrantLock(t, r) \/ ServeRefresh(t, r) \/ ThrottleRefresh(t, r)
             \/ LoseRefresh(t, r) \/ RefreshSucceeds(t, r)
             \/ RefreshReused(t, r) \/ RefreshRejected(t, r) \/ RefreshThrottled(t, r)
      PROVE  LockParts'
  <2>1. UNCHANGED locks
    BY <1>3 DEF GrantLock, ServeRefresh, ThrottleRefresh, LoseRefresh, RefreshSucceeds,
                RefreshReused, RefreshRejected, RefreshThrottled
  <2>2. LockParts
    BY <2>1 DEF LockInv
  <2> QED
    BY <1>3, <2>2, GrantLockKeeps, ServeKeeps, ThrottleKeeps, SettleKeeps
<1>4. ASSUME NEW t \in Tabs,
             \/ CallWithoutToken(t) \/ CallExpired(t)
             \/ Login(t) \/ LogoutServed(t) \/ LogoutAnswered(t)
             \/ LogoutFails(t) \/ HandleMessage(t) \/ HandleStorage(t) \/ Reload(t)
      PROVE  LockParts'
  <2>1. UNCHANGED locks
    BY <1>4 DEF CallWithoutToken, CallExpired, RefreshAccessToken, Login, LogoutServed, LogoutAnswered,
                LogoutFails, LogoutEnds, HandleMessage, HandleStorage, Reload
  <2>2. LockParts /\ locks
    BY <2>1 DEF LockInv
  <2> QED
    BY <1>4, <2>2, CallKeeps, LoginKeeps, EndingKeeps, HearKeeps, ReloadKeeps
<1> QED
  BY <1>1, <1>2, <1>3, <1>4 DEF SessionNext

(* Where the browser has Web Locks a session nobody ended is kept, whatever  *)
(* the tabs, the tokens, the reloads and the lost answers: no refresh is     *)
(* refused for a token another one used up, the marker stays, and the jar    *)
(* holds a token the API accepts or one whose successor is on its way to it. *)
THEOREM SessionStaysKept == SessionSpec => []SessionIsKept
<1>1. SessionInit => SessionBase /\ LockInv
  BY SessionBaseStarts, LockInvStarts
<1>2. SessionBase /\ LockInv /\ [SessionNext]_sessionVars => (SessionBase /\ LockInv)'
  BY SessionBaseStays, LockInvStays
<1>3. SessionBase /\ LockInv => SessionIsKept
  <2> SUFFICES ASSUME SessionBase, LockParts PROVE RefusedForAReason /\ JarIsGood
    BY DEF LockInv, SessionIsKept
  <2>1. RefusedForAReason
    BY DEF LockParts, RunsFit, Fits, RefusedForAReason
  <2>2. ending \in BOOLEAN /\ marker \in BOOLEAN
    BY DEF SessionBase, SessionTypeOK
  <2>3. JarIsGood
    BY <2>2 DEF LockParts, KeptUp, Going, GrantedFor, JarIsGood
  <2> QED
    BY <2>1, <2>3
<1> QED
  BY <1>1, <1>2, <1>3, PTL DEF SessionSpec

-----------------------------------------------------------------------------
(* The dashboard as the runs check it, its three parts side by side: each    *)
(* keeps its types and its promises.                                        *)
THEOREM DashboardIsSafe ==
  DashboardSpec =>
    [](DashboardTypeOK /\ SessionIsKept /\ StoredOnce /\ ThreadShowsAll /\ OneConnection)
<1>1. DashboardInit => SessionInit /\ ThreadInit /\ RealtimeInit
  BY DEF DashboardInit
<1>2. [DashboardNext]_dashboardVars
        => [SessionNext]_sessionVars /\ [ThreadNext]_threadVars /\ [RealtimeNext]_realtimeVars
  BY DEF DashboardNext, dashboardVars
<1>3. DashboardSpec => DashboardInit /\ [][DashboardNext]_dashboardVars
  BY DEF DashboardSpec
<1>4. DashboardSpec => SessionSpec /\ ThreadSpec /\ RealtimeSpec
  BY <1>1, <1>2, <1>3, PTL DEF SessionSpec, ThreadSpec, RealtimeSpec
<1>5. SessionTypeOK /\ ThreadTypeOK /\ RealtimeTypeOK => DashboardTypeOK
  BY DEF DashboardTypeOK
<1> QED
  BY <1>4, <1>5, SessionTypeCorrect, ThreadTypeCorrect, RealtimeTypeCorrect, SessionStaysKept,
     ThreadStoredOnce, ThreadMissesNothing, RealtimeOneConnection, PTL
=============================================================================
