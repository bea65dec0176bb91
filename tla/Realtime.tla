------------------------------ MODULE Realtime ------------------------------
(* The realtime connection of a dashboard tab to one workspace              *)
(* (frontend/src/lib/realtime), the API's sockets                           *)
(* (backend/apps/inbox/consumers.py, common/ws_auth.py), and how far the    *)
(* workspace's queries are behind what the API committed.                   *)
(*                                                                          *)
(* connect() is a chain of steps: a ticket is fetched, a socket is made, the*)
(* API lets it join the workspace's group, it opens.  Several chains can be *)
(* under way; each has a slot here, which it leaves when its socket closes. *)
EXTENDS Naturals, Sequences, FiniteSets

CONSTANTS
  Slots,      \* calls of connect() whose chain can be under way at once
  MaxEvents,  \* bound: changes committed in the workspace
  MaxDrops,   \* bound: sockets cut, tickets and broadcasts failed, sessions revoked
  MaxOnline   \* bound: 'online' events of the browser

ASSUME RealtimeAssumption ==
  /\ IsFiniteSet(Slots)
  /\ MaxEvents \in Nat /\ MaxDrops \in Nat /\ MaxOnline \in Nat

NoSocket == "none"
ASSUME SlotAssumption == NoSocket \notin Slots

VARIABLES
  stopped, connStatus, hasOpened,
  socket,      \* this.socket
  timer,       \* this.timer is set
  strays,      \* timers set that this.timer no longer names
  chain,       \* how far each chain is
  pipe,        \* frames on their way to each socket
  member,      \* the user is a member of the workspace
  version,     \* changes the API committed
  shown,       \* changes the queries of the tab show
  refetch,     \* the refetch of them under way, if any
  drops, onlines,
  overlapped,  \* observer: 'online' came while a connect() was under way
  promised     \* observer: the changes committed up to the last one told after the first open

connection == <<stopped, connStatus, hasOpened, socket, timer, strays>>
queries == <<shown, refetch>>
realtimeVars == <<connection, chain, pipe, member, version, queries, drops, onlines, overlapped, promised>>

Idle == [pc |-> "none", got |-> 0]
Frames == {"changed", "revoked"}

\* Every variable has its type; the queries never show a change before it is
\* committed, and this.socket names a socket that is not closed.
RealtimeTypeOK ==
  /\ stopped \in BOOLEAN /\ hasOpened \in BOOLEAN /\ member \in BOOLEAN /\ overlapped \in BOOLEAN
  /\ connStatus \in {"idle", "connecting", "open", "reconnecting", "closed"}
  /\ socket \in Slots \cup {NoSocket}
  /\ timer \in BOOLEAN /\ strays \in Nat
  /\ chain \in [Slots -> {"unused", "ticket", "connecting", "checked", "joined", "open", "dropped"}]
  /\ pipe \in [Slots -> Seq(Frames)]
  /\ version \in 0 .. MaxEvents /\ shown \in 0 .. version /\ promised \in 0 .. version
  /\ refetch \in [pc : {"none", "asked", "read"}, got : 0 .. version]
  /\ drops \in 0 .. MaxDrops /\ onlines \in 0 .. MaxOnline
  /\ socket # NoSocket => chain[socket] \notin {"unused", "ticket"}

RealtimeInit ==
  /\ stopped = TRUE /\ connStatus = "idle" /\ hasOpened = FALSE
  /\ socket = NoSocket /\ timer = FALSE /\ strays = 0
  /\ chain = [c \in Slots |-> "unused"] /\ pipe = [c \in Slots |-> <<>>]
  /\ member = TRUE
  /\ version = 0 /\ shown = 0 /\ refetch = Idle
  /\ drops = 0 /\ onlines = 0
  /\ overlapped = FALSE /\ promised = 0

---------------------------------------------------------------------------
(* RealtimeConnection.                                                      *)

\* connect() up to its request for a ticket.
Connect ==
  IF stopped'
  THEN UNCHANGED <<connStatus, chain>>
  ELSE /\ connStatus' = IF hasOpened THEN "reconnecting" ELSE "connecting"
       /\ \E c \in Slots : chain[c] = "unused" /\ chain' = [chain EXCEPT ![c] = "ticket"]

Start ==
  /\ connStatus = "idle"
  /\ stopped' = FALSE
  /\ Connect
  /\ UNCHANGED <<hasOpened, socket, timer, strays, pipe, member, version, queries, drops, onlines, overlapped, promised>>

\* scheduleReconnect, in the step that ends chain c.  The timer that this.timer
\* may name goes on.
ScheduleReconnect ==
  IF stopped
  THEN UNCHANGED <<connStatus, timer, strays>>
  ELSE /\ connStatus' = "reconnecting"
       /\ timer' = TRUE
       /\ strays' = IF timer THEN strays + 1 ELSE strays

TicketArrives(c) ==
  /\ chain[c] = "ticket" /\ member
  /\ IF stopped
     THEN chain' = [chain EXCEPT ![c] = "unused"] /\ UNCHANGED socket
     ELSE chain' = [chain EXCEPT ![c] = "connecting"] /\ socket' = c
  /\ UNCHANGED <<stopped, connStatus, hasOpened, timer, strays, pipe, member, version, queries, drops, onlines,
                 overlapped, promised>>

\* getTicket fails: the network does, or the user is no longer a member.
TicketFails(c) ==
  /\ chain[c] = "ticket"
  /\ \/ member /\ drops < MaxDrops /\ drops' = drops + 1
     \/ ~member /\ UNCHANGED drops
  /\ chain' = [chain EXCEPT ![c] = "unused"]
  /\ ScheduleReconnect
  /\ UNCHANGED <<stopped, hasOpened, socket, pipe, member, version, queries, onlines, overlapped, promised>>

\* Every query of the workspace is invalidated; a fetch under way is cancelled.
Refetch == refetch' = [pc |-> "asked", got |-> 0]

\* BUG of connect: nothing is fetched again after a reconnect.
OpensAgain == UNCHANGED refetch

\* onopen: after a reconnect what was missed is fetched.
Opens == IF hasOpened THEN Refetch ELSE UNCHANGED refetch

SocketOpens(c) ==
  /\ chain[c] = "joined"
  /\ chain' = [chain EXCEPT ![c] = "open"]
  /\ hasOpened' = TRUE /\ connStatus' = "open"
  /\ Opens
  /\ UNCHANGED <<stopped, socket, timer, strays, pipe, member, version, shown, drops, onlines, overlapped, promised>>

\* stop(): the socket this.socket names is closed with its handlers taken away, and
\* the timer this.timer names is cleared.
Stop(chains, frames) ==
  /\ stopped' = TRUE /\ connStatus' = "closed"
  /\ socket' = NoSocket /\ timer' = FALSE
  /\ chain' = [c \in Slots |-> IF c = socket THEN "unused" ELSE chains[c]]
  /\ pipe' = [c \in Slots |-> IF c = socket THEN <<>> ELSE frames[c]]

\* The user leaves the workspace.
Leave ==
  /\ ~stopped
  /\ Stop(chain, pipe)
  /\ UNCHANGED <<hasOpened, strays, member, version, queries, drops, onlines, overlapped, promised>>

\* onmessage: a frame says that something changed, and the queries it is about are
\* fetched again; session.revoked stops the connection, and the API closes the
\* socket after it.
FrameArrives(c) ==
  LET rest == [pipe EXCEPT ![c] = Tail(@)] IN
  /\ chain[c] \in {"open", "dropped"} /\ pipe[c] # <<>>
  /\ \/ /\ Head(pipe[c]) = "changed"
        /\ Refetch
        /\ pipe' = rest
        /\ UNCHANGED <<stopped, connStatus, socket, timer, chain>>
     \/ /\ Head(pipe[c]) = "revoked"
        /\ Stop([chain EXCEPT ![c] = "dropped"], rest)
        /\ UNCHANGED refetch
  /\ UNCHANGED <<hasOpened, strays, member, version, shown, drops, onlines, overlapped, promised>>

\* onclose, after the frames that came before it.
SocketCloses(c) ==
  /\ chain[c] = "dropped" /\ pipe[c] = <<>>
  /\ chain' = [chain EXCEPT ![c] = "unused"]
  /\ socket' = IF socket = c THEN NoSocket ELSE socket
  /\ ScheduleReconnect
  /\ UNCHANGED <<stopped, hasOpened, pipe, member, version, queries, drops, onlines, overlapped, promised>>

\* The callback of a timer sets this.timer to null, whichever timer that names.
TimerFires ==
  /\ \/ timer /\ UNCHANGED strays
     \/ strays > 0 /\ strays' = IF timer THEN strays ELSE strays - 1
  /\ timer' = FALSE
  /\ UNCHANGED <<stopped, hasOpened, socket, pipe, member, version, queries, drops, onlines, overlapped, promised>>
  /\ Connect

UnderWay == \E c \in Slots : chain[c] # "unused"

\* BUG of handleOnline: the reconnect that waits is not called off.
HandleOnlineKeepsTimer ==
  /\ onlines < MaxOnline /\ onlines' = onlines + 1
  /\ ~stopped /\ connStatus \notin {"open", "connecting"}
  /\ overlapped' = (overlapped \/ UnderWay)
  /\ UNCHANGED <<stopped, hasOpened, socket, timer, strays, pipe, member, version, queries, drops, promised>>
  /\ Connect

\* handleOnline: the browser is online again, so do not wait for the timer.
HandleOnline ==
  /\ onlines < MaxOnline /\ onlines' = onlines + 1
  /\ ~stopped /\ connStatus \notin {"open", "connecting"}
  /\ timer' = FALSE
  /\ overlapped' = (overlapped \/ UnderWay)
  /\ UNCHANGED <<stopped, hasOpened, socket, strays, pipe, member, version, queries, drops, promised>>
  /\ Connect

---------------------------------------------------------------------------
(* The API.                                                                 *)

\* The ticket is consumed and the membership checked again.
CheckMembership(c) ==
  /\ chain[c] = "connecting"
  /\ chain' = [chain EXCEPT ![c] = IF member THEN "checked" ELSE "dropped"]
  /\ UNCHANGED <<connection, pipe, member, version, queries, drops, onlines, overlapped, promised>>

\* The groups are joined and the handshake is accepted, whatever became of the
\* membership since it was checked.
Join(c) ==
  /\ chain[c] = "checked"
  /\ chain' = [chain EXCEPT ![c] = "joined"]
  /\ UNCHANGED <<connection, pipe, member, version, queries, drops, onlines, overlapped, promised>>

\* The group's frame reaches the sockets that have joined it.
ToGroup(frame) ==
  pipe' = [c \in Slots |-> IF chain[c] \in {"joined", "open"} THEN Append(pipe[c], frame) ELSE pipe[c]]

\* Something is committed in the workspace and broadcast.
Change ==
  /\ version < MaxEvents /\ member
  /\ version' = version + 1
  /\ promised' = IF hasOpened THEN version + 1 ELSE promised
  /\ ToGroup("changed")
  /\ UNCHANGED <<connection, chain, member, queries, drops, onlines, overlapped>>

\* A change whose broadcast fails, or whose process dies before it: no socket hears
\* of it, and only a later refetch shows it.
ChangeUnheard ==
  /\ version < MaxEvents /\ member /\ drops < MaxDrops
  /\ version' = version + 1 /\ drops' = drops + 1
  /\ UNCHANGED <<connection, chain, pipe, member, queries, onlines, overlapped, promised>>

\* The membership ends; session.revoked is the last frame a socket is sent.
RevokeMembership ==
  /\ member /\ member' = FALSE
  /\ ToGroup("revoked")
  /\ UNCHANGED <<connection, chain, version, queries, drops, onlines, overlapped, promised>>

\* The user's role changes, or something of theirs in another workspace: the frame
\* goes to all their sockets, and onmessage stops without looking at its workspace.
RevokeSession ==
  /\ member /\ drops < MaxDrops /\ drops' = drops + 1
  /\ ToGroup("revoked")
  /\ UNCHANGED <<connection, chain, member, version, queries, onlines, overlapped, promised>>

\* A socket is cut: what the browser has not received of its frames is lost.
Cut(c) ==
  /\ drops < MaxDrops /\ drops' = drops + 1
  /\ \/ chain[c] \in {"connecting", "checked", "joined"} /\ pipe' = [pipe EXCEPT ![c] = <<>>]
     \/ /\ chain[c] = "open"
        /\ \E n \in 0 .. Len(pipe[c]) : pipe' = [pipe EXCEPT ![c] = SubSeq(@, 1, n)]
  /\ chain' = [chain EXCEPT ![c] = "dropped"]
  /\ UNCHANGED <<connection, member, version, queries, onlines, overlapped, promised>>

RefetchRead ==
  /\ refetch.pc = "asked"
  /\ refetch' = [pc |-> "read", got |-> version]
  /\ UNCHANGED <<connection, chain, pipe, member, version, shown, drops, onlines, overlapped, promised>>

RefetchArrives ==
  /\ refetch.pc = "read"
  /\ shown' = refetch.got /\ refetch' = Idle
  /\ UNCHANGED <<connection, chain, pipe, member, version, drops, onlines, overlapped, promised>>

---------------------------------------------------------------------------

ChainGoes(c) ==
  \/ TicketArrives(c) \/ TicketFails(c) \/ CheckMembership(c) \/ Join(c)
  \/ SocketOpens(c) \/ FrameArrives(c) \/ SocketCloses(c)

RealtimeNext ==
  \/ Start \/ Leave \/ TimerFires \/ HandleOnline
  \/ \E c \in Slots : ChainGoes(c) \/ Cut(c)
  \/ Change \/ ChangeUnheard \/ RevokeMembership \/ RevokeSession \/ RefetchRead \/ RefetchArrives

RealtimeSpec == RealtimeInit /\ [][RealtimeNext]_realtimeVars

\* The browser's event loop and the API go on, timers fire, and a refetch that is
\* not cancelled is answered.
RealtimeFairness ==
  /\ WF_realtimeVars(TimerFires)
  /\ \A c \in Slots : WF_realtimeVars(ChainGoes(c))
  /\ WF_realtimeVars(RefetchRead) /\ WF_realtimeVars(RefetchArrives)

FairRealtimeSpec == RealtimeSpec /\ RealtimeFairness

---------------------------------------------------------------------------

Sockets == {c \in Slots : chain[c] # "unused"}
Waiting == IF timer THEN strays + 1 ELSE strays

\* "One WebSocket per workspace."
OneSocket == Cardinality(Sockets) + Waiting <= 1

\* Unless the browser came online while a connect() was under way, there is one
\* socket, or one attempt at it, or one timer that waits for the next.
OneSocketUnlessOverlapped == ~overlapped => OneSocket

\* Unless they overlapped, stop() leaves nothing behind: no socket, and no timer that makes one.
StopIsFinal ==
  stopped /\ ~overlapped => Waiting = 0 /\ \A c \in Slots : chain[c] \in {"unused", "ticket"}

\* A tab has one connection at most, and none after stop().
OneConnection == OneSocketUnlessOverlapped /\ StopIsFinal

\* What was committed and broadcast since the connection first opened is shown in the
\* end, whichever sockets were cut since and whatever frames were lost with them.  (A
\* change that was not broadcast waits for the next refetch.)
MissedIsMadeUp ==
  \A v \in 1 .. MaxEvents : []<>(promised >= v => shown >= v \/ stopped \/ ~member)
=============================================================================
