------------------------------- MODULE Thread -------------------------------
(* One conversation of the inbox as a dashboard tab shows it                *)
(* (frontend/src/features/dashboard/inbox/hooks): the cached thread, the    *)
(* tab's optimistic sends (the outbox), the requests they make, and the     *)
(* realtime frames and refetches that change the cache behind them.         *)
(*                                                                          *)
(* A send is named once: its Idempotency-Key is the name, and so is the     *)
(* message the API stores for it.  The thread is loaded and the socket open *)
(* (Realtime models a socket that drops).  A frame is broadcast only after  *)
(* the commit it tells of, by whichever process committed: frames come in   *)
(* any order, and one that could not be broadcast does not come at all.     *)
EXTENDS Naturals

CONSTANTS
  Sends,      \* what this tab sends into the conversation
  Others,     \* messages that come into it from elsewhere
  Reports,    \* bound: the statuses a worker gives a message
  MaxTries,   \* bound: requests of one send
  MaxMishaps   \* bound: answers and frames lost, sends refused, refetches failed

ASSUME ThreadAssumption ==
  /\ Sends \cap Others = {}
  /\ Reports \subseteq {"sent", "delivered", "read", "failed"}
  /\ MaxTries \in Nat \ {0} /\ MaxMishaps \in Nat

Messages == Sends \cup Others
Tries == 1 .. MaxTries

VARIABLES
  rows,      \* the API's messages of the conversation: their status
  stored,    \* how often each send was stored
  request,   \* each request of a send: where it is, and the answer
  tries,     \* per send: the requests made
  frames,    \* frames due: a commit asked for them and the tab has not taken them yet
  thread,    \* the cached thread: the status it shows for each message
  fetch,     \* the refetch under way, if any
  outbox,    \* per send: OutboxEntry.state; "dropped" and "discarded" entries are gone
  mishaps,
  behind     \* observer: messages the tab may show wrongly, or not at all, until it refetches

server == <<rows, stored>>
requests == <<request, tries>>
cache == <<thread, fetch>>
threadVars == <<server, requests, frames, cache, outbox, mishaps, behind>>

\* Message.Status: "queued" stands for "sending" too, which no frame announces and
\* MessageTicks draws alike.
RowStatuses == {"queued", "sent", "delivered", "read", "failed", "received"}
Shown == RowStatuses \cup {"none"}
Unused == [pc |-> "unused", status |-> "none"]
Nothing == [m \in Messages |-> "none"]
NoFetch == [pc |-> "none", page |-> Nothing]

\* A frame of realtime.broadcast: message.created (status "none") or message.status.
Frame(m, status) == [message |-> m, status |-> status]

\* Every variable has its type, and a message is shown, and an entry
\* sent, only if there is a row.
ThreadTypeOK ==
  /\ rows \in [Messages -> Shown]
  /\ stored \in [Sends -> Nat]
  /\ request \in [Sends -> [Tries -> [pc : {"unused", "sent", "checked", "answered", "refused"}, status : Shown]]]
  /\ tries \in [Sends -> 0 .. MaxTries]
  /\ frames \subseteq [message : Messages, status : Shown]
  /\ thread \in [Messages -> Shown]
  /\ fetch \in [pc : {"none", "asked", "read"}, page : [Messages -> Shown]]
  /\ outbox \in [Sends -> {"none", "sending", "sent", "failed", "dropped", "discarded"}]
  /\ mishaps \in 0 .. MaxMishaps
  /\ behind \subseteq Messages
  /\ \A m \in Messages : thread[m] # "none" => rows[m] # "none"
  /\ \A s \in Sends : outbox[s] \in {"sent", "dropped"} => rows[s] # "none"

ThreadInit ==
  /\ rows = Nothing
  /\ stored = [s \in Sends |-> 0]
  /\ request = [s \in Sends |-> [k \in Tries |-> Unused]]
  /\ tries = [s \in Sends |-> 0]
  /\ frames = {}
  /\ thread = Nothing /\ fetch = NoFetch
  /\ outbox = [s \in Sends |-> "none"]
  /\ mishaps = 0 /\ behind = {}

---------------------------------------------------------------------------
(* The cache (TanStack Query).                                              *)

\* invalidateQueries of the thread: it is fetched again, and a fetch under way
\* is cancelled.
Invalidate ==
  /\ fetch' = [NoFetch EXCEPT !.pc = "asked"]
  /\ behind' = {}

FetchRead ==
  /\ fetch.pc = "asked"
  /\ fetch' = [pc |-> "read", page |-> rows]
  /\ UNCHANGED <<server, requests, frames, thread, outbox, mishaps, behind>>

FetchArrives ==
  /\ fetch.pc = "read"
  /\ thread' = fetch.page /\ fetch' = NoFetch
  /\ UNCHANGED <<server, requests, frames, outbox, mishaps, behind>>

\* The fetch fails for the last time (createQueryClient's retry): the thread stays
\* as it is, whatever the fetch was to bring.
FetchFails ==
  /\ fetch.pc # "none" /\ mishaps < MaxMishaps
  /\ mishaps' = mishaps + 1
  /\ fetch' = NoFetch /\ behind' = Messages
  /\ UNCHANGED <<server, requests, frames, thread, outbox>>

---------------------------------------------------------------------------
(* Sending (useSendMessage).                                                *)

\* run: one POST with the entry's Idempotency-Key.
Run(s) ==
  /\ tries[s] < MaxTries
  /\ tries' = [tries EXCEPT ![s] = @ + 1]
  /\ request' = [request EXCEPT ![s][tries[s] + 1] = [Unused EXCEPT !.pc = "sent"]]
  /\ outbox' = [outbox EXCEPT ![s] = "sending"]

Send(s) ==
  /\ outbox[s] = "none" /\ Run(s)
  /\ UNCHANGED <<server, frames, cache, mishaps, behind>>

Retry(s) ==
  /\ outbox[s] = "failed" /\ Run(s)
  /\ UNCHANGED <<server, frames, cache, mishaps, behind>>

Discard(s) ==
  /\ outbox[s] = "failed"
  /\ outbox' = [outbox EXCEPT ![s] = "discarded"]
  /\ UNCHANGED <<server, requests, frames, cache, mishaps, behind>>

\* The API looks for a message with the key first.
FindExisting(s, k) ==
  /\ request[s][k].pc = "sent"
  /\ request' = [request EXCEPT ![s][k] =
                   IF rows[s] # "none" THEN [pc |-> "answered", status |-> rows[s]]
                                       ELSE [@ EXCEPT !.pc = "checked"]]
  /\ UNCHANGED <<server, tries, frames, cache, outbox, mishaps, behind>>

\* BUG of send_message: no unique key stops a second row.
StoreMessageAgain(s, k) ==
  /\ request[s][k].pc = "checked"
  /\ stored' = [stored EXCEPT ![s] = @ + 1]
  /\ rows' = [rows EXCEPT ![s] = "queued"]
  /\ frames' = frames \cup {Frame(s, "none")}
  /\ request' = [request EXCEPT ![s][k] = [pc |-> "answered", status |-> "queued"]]
  /\ UNCHANGED <<tries, cache, outbox, mishaps, behind>>

\* send_message: the row and its message.created frame, or, when another request
\* with the key was faster, the row that one stored.
StoreMessage(s, k) ==
  /\ request[s][k].pc = "checked"
  /\ IF rows[s] = "none"
     THEN /\ stored' = [stored EXCEPT ![s] = @ + 1]
          /\ rows' = [rows EXCEPT ![s] = "queued"]
          /\ frames' = frames \cup {Frame(s, "none")}
     ELSE UNCHANGED <<server, frames>>
  /\ request' = [request EXCEPT ![s][k] = [pc |-> "answered", status |-> rows'[s]]]
  /\ UNCHANGED <<tries, cache, outbox, mishaps, behind>>

\* The send policy: the service window has closed, the contact opted out, ...
PolicyForbids(s, k) ==
  /\ request[s][k].pc = "checked" /\ mishaps < MaxMishaps
  /\ mishaps' = mishaps + 1
  /\ request' = [request EXCEPT ![s][k].pc = "refused"]
  /\ UNCHANGED <<server, tries, frames, cache, outbox, behind>>

\* BUG of useSendMessage: an error the API answers is taken for the message.
AwaitedUnwrapped(s, pc) == outbox[s] = "sending" /\ request[s][tries[s]].pc \in {pc, "refused"}

\* The answer run waits for.
Awaited(s, pc) == outbox[s] = "sending" /\ request[s][tries[s]].pc = pc

\* The entry is patched, insertMessage puts the message into the thread unless it
\* is there, and the thread is fetched again.
SendAnswered(s) ==
  /\ Awaited(s, "answered")
  /\ outbox' = [outbox EXCEPT ![s] = "sent"]
  /\ thread' = [thread EXCEPT ![s] = IF @ = "none" THEN request[s][tries[s]].status ELSE @]
  /\ Invalidate
  /\ UNCHANGED <<server, requests, frames, mishaps>>

SendFails(s) ==
  /\ outbox' = [outbox EXCEPT ![s] = "failed"]
  /\ UNCHANGED <<server, frames, cache, behind>>

SendRefused(s) ==
  /\ Awaited(s, "refused")
  /\ SendFails(s)
  /\ UNCHANGED <<requests, mishaps>>

\* fetch rejects: the request never reached the API, is still at work there, or
\* its answer was lost.
SendLost(s) ==
  /\ outbox[s] = "sending" /\ mishaps < MaxMishaps
  /\ mishaps' = mishaps + 1
  /\ SendFails(s)
  /\ \/ UNCHANGED requests
     \/ Awaited(s, "sent") /\ request' = [request EXCEPT ![s][tries[s]] = Unused] /\ UNCHANGED tries

\* Thread drops an entry once its message is in the thread.
DropEntry(s) ==
  /\ outbox[s] = "sent" /\ thread[s] # "none"
  /\ outbox' = [outbox EXCEPT ![s] = "dropped"]
  /\ UNCHANGED <<server, requests, frames, cache, mishaps, behind>>

---------------------------------------------------------------------------
(* What happens elsewhere.                                                  *)

\* An inbound message, or one that a campaign, an automation or another tab sends.
OtherMessage(m) ==
  /\ rows[m] = "none"
  /\ \E status \in {"received", "queued"} : rows' = [rows EXCEPT ![m] = status]
  /\ frames' = frames \cup {Frame(m, "none")}
  /\ UNCHANGED <<stored, requests, cache, outbox, mishaps, behind>>

\* What dispatch, fail_stuck_messages and _target_status make of a row's status.
StatusMoves ==
  {<<"queued", "sent">>, <<"queued", "failed">>, <<"sent", "delivered">>, <<"sent", "read">>,
   <<"sent", "failed">>, <<"delivered", "read">>, <<"failed", "delivered">>, <<"failed", "read">>}

\* A worker commits a status, and emit_delivery_updated has it announced.
StatusUpdated(m) ==
  /\ \E status \in Reports :
       /\ <<rows[m], status>> \in StatusMoves
       /\ rows' = [rows EXCEPT ![m] = status]
       /\ frames' = frames \cup {Frame(m, status)}
  /\ UNCHANGED <<stored, requests, cache, outbox, mishaps, behind>>

\* dispatch and _fail read the row again before they announce it.
AnnouncedAnew(frame) ==
  /\ frame.status \in {"sent", "failed"}
  /\ frames' = (frames \ {frame}) \cup {Frame(frame.message, rows[frame.message])}
  /\ UNCHANGED <<server, requests, cache, outbox, mishaps, behind>>

\* _send swallows the failure of a broadcast; or the process dies before it.
FrameLost(frame) ==
  /\ mishaps < MaxMishaps
  /\ mishaps' = mishaps + 1
  /\ frames' = frames \ {frame} /\ behind' = behind \cup {frame.message}
  /\ UNCHANGED <<server, requests, cache, outbox>>

---------------------------------------------------------------------------
(* useInboxRealtime.                                                        *)

Sending == \E s \in Sends : outbox[s] = "sending"

PendingEntry == \E s \in Sends : outbox[s] \in {"sent", "failed"}

\* BUG of useInboxRealtime: entries that are not being sent hold the refetch back too.
MessageCreatedHeld(m) ==
  IF Sending
  THEN behind' = behind \cup {m} /\ UNCHANGED fetch
  ELSE IF PendingEntry THEN UNCHANGED <<fetch, behind>> ELSE Invalidate

\* message.created: while the tab is sending, the refetch is left to the send.
MessageCreated(m) ==
  IF Sending
  THEN behind' = behind \cup {m} /\ UNCHANGED fetch
  ELSE Invalidate

\* patchMessageStatus: the status of a message that the thread or an entry has is
\* patched.
Patched(m) == thread[m] # "none" \/ (m \in Sends /\ outbox[m] = "sent")

\* The patch does not last, or should not: a page read without it is on its way, or
\* the frame with the row's status was taken before this older one.
SetBack(m, status) ==
  \/ fetch.pc = "read" /\ fetch.page[m] # status
  \/ status # rows[m] /\ Frame(m, rows[m]) \notin frames

MessageStatus(m, status) ==
  /\ thread' = [thread EXCEPT ![m] = IF @ = "none" THEN @ ELSE status]
  /\ IF ~Patched(m) \/ status = "failed"
     THEN Invalidate
     ELSE /\ behind' = IF SetBack(m, status) THEN behind \cup {m} ELSE behind
          /\ UNCHANGED fetch

HandleFrame(frame) ==
  /\ frames' = frames \ {frame}
  /\ \/ frame.status = "none" /\ MessageCreated(frame.message) /\ UNCHANGED thread
     \/ frame.status # "none" /\ MessageStatus(frame.message, frame.status)
  /\ UNCHANGED <<server, requests, outbox, mishaps>>

---------------------------------------------------------------------------

SendGoes(s) ==
  \/ SendAnswered(s) \/ SendRefused(s)
  \/ \E k \in Tries : FindExisting(s, k) \/ StoreMessage(s, k)

ThreadNext ==
  \/ \E s \in Sends :
       \/ Send(s) \/ Retry(s) \/ Discard(s) \/ SendGoes(s) \/ SendLost(s)
       \/ DropEntry(s)
       \/ \E k \in Tries : PolicyForbids(s, k)
  \/ \E m \in Others : OtherMessage(m)
  \/ \E m \in Messages : StatusUpdated(m)
  \/ \E frame \in frames : HandleFrame(frame) \/ AnnouncedAnew(frame) \/ FrameLost(frame)
  \/ FetchRead \/ FetchArrives \/ FetchFails

ThreadSpec == ThreadInit /\ [][ThreadNext]_threadVars

---------------------------------------------------------------------------

\* A send is stored once, however often it was retried and although a request
\* that was given up may still be at work (the Idempotency-Key of OutboxEntry).
StoredOnce == \A s \in Sends : stored[s] <= 1

\* A message whose optimistic bubble is gone stays in the thread, whichever
\* refetch was on its way when the API answered the send.
SentStaysVisible ==
  \A s \in Sends : outbox[s] = "dropped" => thread[s] # "none"

Quiet == frames = {} /\ fetch.pc = "none" /\ ~Sending

\* When nothing is on its way, the thread shows every message with its status, but
\* for the messages that one of these left behind, and that the tab has not begun to
\* refetch since: the message came while the tab was sending, and the send failed;
\* a status was patched under a page read before it; the frames of two statuses
\* came in the wrong order; the frame was lost; a refetch failed (then any message).
QuietThreadIsCurrent ==
  Quiet => \A m \in Messages \ behind : thread[m] = rows[m]

\* A message stays in the thread when its bubble goes, and a quiet thread is current
\* but for what QuietThreadIsCurrent's comment names.
ThreadShowsAll == SentStaysVisible /\ QuietThreadIsCurrent
=============================================================================
