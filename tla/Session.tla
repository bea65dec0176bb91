------------------------------ MODULE Session ------------------------------
(* The session of the dashboard in one browser (frontend/src/lib/auth,      *)
(* frontend/src/api/client.ts) against the API's refresh cookie             *)
(* (backend/apps/accounts/views.py).                                        *)
(*                                                                          *)
(* Every tab holds an access token in memory.  The tabs share a marker in   *)
(* localStorage, the cookie jar with the HttpOnly refresh cookie, and,      *)
(* where the browser has them, a Web Lock.  A refresh rotates the cookie:   *)
(* the API blacklists the refresh token it was sent and issues the next     *)
(* one.  Tabs hear of each other late: a BroadcastChannel message and a     *)
(* storage event wait in queues of the receiving tab until its event loop   *)
(* takes them, from either queue first.                                     *)
(*                                                                          *)
(* A refresh token and the access token issued with it have one number, in  *)
(* the order of issue; 0 stands for none.                                   *)
EXTENDS Integers, Sequences, FiniteSets

CONSTANTS
  Tabs,           \* the open tabs of the dashboard
  RunIds,         \* refreshes of one tab that can exist at once
  WebLocks,       \* whether the browser has the Web Locks API, or may: a set of BOOLEAN
  MaxTokens,      \* bound: tokens issued
  MaxLogins,      \* bound
  MaxLogouts,     \* bound
  MaxFaults       \* bound: reloads, answers lost, refreshes throttled, sessions revoked

ASSUME SessionAssumption ==
  /\ WebLocks \subseteq BOOLEAN /\ WebLocks # {}
  /\ MaxTokens \in Nat \ {0}
  /\ MaxLogins \in Nat /\ MaxLogouts \in Nat /\ MaxFaults \in Nat

Tokens == 1 .. MaxTokens
NoToken == 0
NoRun == "none"
Free == [tab |-> NoRun, run |-> NoRun]

ASSUME RunAssumption == NoRun \notin RunIds \cup Tabs

VARIABLES
  locks,        \* this browser has Web Locks
  marker,       \* localStorage upchatz.session is '1'
  cookie,       \* the refresh token in the cookie jar
  holder,       \* who holds the lock upchatz-refresh
  token,        \* the API's view of every refresh token
  access,       \* per tab: accessToken
  inFlight,     \* per tab: the refresh that refresh.ts calls inFlight
  run,          \* per tab: its refreshes
  leaving,      \* per tab: it has logged out and awaits the answer
  channel,      \* per tab: BroadcastChannel messages not yet handled
  storage,      \* per tab: storage events not yet handled
  logins, logouts, faults,  \* what the bounds count
  lost,         \* observer: refresh tokens whose successor never reached the jar
  ending,       \* observer: something that may end a session has happened since the last login
  loggedOut     \* observer: a logout was completed and nobody has logged in since

tabVars == <<access, inFlight>>
queueVars == <<channel, storage>>
counters == <<logins, logouts, faults>>
observers == <<lost, ending, loggedOut>>
sessionVars == <<locks, marker, cookie, holder, token, access, inFlight,
                 run, leaving, channel, storage, logins, logouts, faults, lost, ending, loggedOut>>

RunStates == {"idle", "lock", "reuse", "sent", "granted", "refused", "throttled"}
RunRecord == [pc : RunStates, stale : Tokens \cup {NoToken},
        sent : Tokens \cup {NoToken}, got : Tokens \cup {NoToken}]
IdleRun == [pc |-> "idle", stale |-> NoToken, sent |-> NoToken, got |-> NoToken]
Message == [type : {"access", "logout"}, access : Tokens \cup {NoToken}]
LogoutMessage == [type |-> "logout", access |-> NoToken]

\* Every variable has its type, and the refresh that the callers of a tab would
\* share is one that is still on its way (refresh.ts inFlight).
SessionTypeOK ==
  /\ locks \in BOOLEAN /\ marker \in BOOLEAN
  /\ cookie \in Tokens \cup {NoToken}
  /\ holder \in [tab : Tabs, run : RunIds] \cup {Free}
  /\ token \in [Tokens -> {"unissued", "live", "rotated", "ended"}]
  /\ access \in [Tabs -> Tokens \cup {NoToken}]
  /\ inFlight \in [Tabs -> RunIds \cup {NoRun}]
  /\ run \in [Tabs -> [RunIds -> RunRecord]]
  /\ \A t \in Tabs : inFlight[t] # NoRun => run[t][inFlight[t]] # IdleRun
  /\ leaving \in [Tabs -> BOOLEAN]
  /\ channel \in [Tabs -> Seq(Message)]
  /\ storage \in [Tabs -> Seq({"removed"})]
  /\ logins \in Nat /\ logouts \in Nat /\ faults \in Nat
  /\ lost \subseteq Tokens
  /\ ending \in BOOLEAN /\ loggedOut \in BOOLEAN

SessionInit ==
  /\ locks \in WebLocks
  /\ marker = FALSE /\ cookie = NoToken /\ holder = Free
  /\ token = [k \in Tokens |-> "unissued"]
  /\ access = [t \in Tabs |-> NoToken]
  /\ inFlight = [t \in Tabs |-> NoRun]
  /\ run = [t \in Tabs |-> [r \in RunIds |-> IdleRun]]
  /\ leaving = [t \in Tabs |-> FALSE]
  /\ channel = [t \in Tabs |-> <<>>] /\ storage = [t \in Tabs |-> <<>>]
  /\ logins = 0 /\ logouts = 0 /\ faults = 0
  /\ lost = {} /\ ending = FALSE /\ loggedOut = FALSE

---------------------------------------------------------------------------
(* The token store of a tab (tokens.ts).                                    *)

\* hasSession, mayRefresh and what clear() calls had: sessionInTab is set and
\* unset together with accessToken, so that the three are one.
HasSession(t) == access[t] # NoToken \/ marker

\* A queue of every tab but t, with one more entry: neither a broadcast nor a
\* storage event comes back to the tab that caused it.
ToOthers(t, queue, entry) == [u \in Tabs |-> IF u = t THEN queue[u] ELSE Append(queue[u], entry)]
Taken(t, queue) == [queue EXCEPT ![t] = Tail(@)]

\* post
Post(t, queue, message) == channel' = ToOthers(t, queue, message)

\* writeMarker: a storage event is fired only when the marker changes.  One that
\* sets it re-renders the other tabs and changes nothing, so it is not queued.
WriteMarker(t, queue, present) ==
  /\ marker' = present
  /\ storage' = IF marker /\ ~present THEN ToOthers(t, queue, "removed") ELSE queue

\* tokenStore.clear(), of a tab that knew of a session or not.
ClearStore(t, had, messages, events) ==
  /\ access' = [access EXCEPT ![t] = NoToken]
  /\ WriteMarker(t, events, FALSE)
  /\ IF had THEN Post(t, messages, LogoutMessage) ELSE channel' = messages

---------------------------------------------------------------------------
(* A refresh (refresh.ts).                                                  *)

\* performRefresh up to its request: a token that came meanwhile is used.
Performed(t, stale) ==
  IF access[t] # NoToken /\ access[t] # stale
  THEN [IdleRun EXCEPT !.pc = "reuse", !.stale = stale]
  ELSE [IdleRun EXCEPT !.pc = "sent", !.stale = stale, !.sent = cookie]

\* BUG of performRefresh: the lock of the other tabs is not asked for.
BegunUnlocked(t, stale) == Performed(t, stale)

\* The refresh asks for the lock upchatz-refresh, where there are locks.
Begun(t, stale) ==
  IF locks THEN [IdleRun EXCEPT !.pc = "lock", !.stale = stale] ELSE Performed(t, stale)

\* refreshAccessToken: nothing begins while the tab has a refresh that its
\* callers can share.
RefreshAccessToken(t, stale) ==
  /\ inFlight[t] = NoRun
  /\ \E r \in RunIds :
       /\ run[t][r] = IdleRun
       /\ run' = [run EXCEPT ![t][r] = Begun(t, stale)]
       /\ inFlight' = [inFlight EXCEPT ![t] = r]
  /\ UNCHANGED <<locks, marker, cookie, holder, token, access, leaving, queueVars, counters, observers>>

\* The lock is granted to a waiting refresh, which goes on at once.
GrantLock(t, r) ==
  /\ run[t][r].pc = "lock" /\ holder = Free
  /\ holder' = [tab |-> t, run |-> r]
  /\ run' = [run EXCEPT ![t][r] = Performed(t, run[t][r].stale)]
  /\ UNCHANGED <<locks, marker, cookie, token, tabVars, leaving, queueVars, counters, observers>>

Accepted(k) == k # NoToken /\ token[k] = "live"
NextToken(n) == token[n] = "unissued" /\ \A k \in 1 .. n - 1 : token[k] # "unissued"

\* RefreshView: a valid cookie is rotated; any other request is a 401.  The
\* bound on tokens stands for the 7 days after which a token is not valid.
ServeRefresh(t, r) ==
  LET sent == run[t][r].sent IN
  /\ run[t][r].pc = "sent"
  /\ \/ /\ Accepted(sent)
        /\ \E n \in Tokens :
             /\ NextToken(n)
             /\ token' = [token EXCEPT ![sent] = "rotated", ![n] = "live"]
             /\ run' = [run EXCEPT ![t][r].pc = "granted", ![t][r].got = n]
        /\ UNCHANGED ending
     \/ /\ ~Accepted(sent)
        /\ run' = [run EXCEPT ![t][r].pc = "refused"]
        /\ UNCHANGED <<token, ending>>
     \/ /\ Accepted(sent) /\ token[MaxTokens] # "unissued"
        /\ token' = [token EXCEPT ![sent] = "ended"]
        /\ run' = [run EXCEPT ![t][r].pc = "refused"]
        /\ ending' = TRUE
  /\ UNCHANGED <<locks, marker, cookie, holder, tabVars, leaving, queueVars, counters, lost, loggedOut>>

\* The auth throttle answers 429 before the token is looked at.
ThrottleRefresh(t, r) ==
  /\ run[t][r].pc = "sent" /\ faults < MaxFaults
  /\ run' = [run EXCEPT ![t][r].pc = "throttled"]
  /\ faults' = faults + 1 /\ UNCHANGED <<logins, logouts>>
  /\ ending' = TRUE
  /\ UNCHANGED <<locks, marker, cookie, holder, token, tabVars, leaving, queueVars, lost, loggedOut>>

\* The promise settles: the lock is released, and inFlight is cleared whichever
\* refresh it holds.
Settle(t, r) ==
  /\ run' = [run EXCEPT ![t][r] = IdleRun]
  /\ holder' = IF holder = [tab |-> t, run |-> r] THEN Free ELSE holder
  /\ inFlight' = [inFlight EXCEPT ![t] = NoRun]

\* The answer comes with its Set-Cookie, and performRefresh goes on.
RefreshSucceeds(t, r) ==
  /\ run[t][r].pc = "granted"
  /\ cookie' = run[t][r].got
  /\ access' = [access EXCEPT ![t] = run[t][r].got]
  /\ WriteMarker(t, storage, TRUE)
  /\ Post(t, channel, [type |-> "access", access |-> run[t][r].got])
  /\ Settle(t, r)
  /\ UNCHANGED <<locks, token, leaving, counters, observers>>

RefreshReused(t, r) ==
  /\ run[t][r].pc = "reuse"
  /\ UNCHANGED <<locks, marker, cookie, token, access, leaving, queueVars, counters, observers>>
  /\ Settle(t, r)

\* BUG of performRefresh: a refusal leaves the session of the tab as it is.
RefreshRejectedKeeps(t, r) ==
  /\ run[t][r].pc = "refused"
  /\ cookie' = NoToken
  /\ UNCHANGED <<marker, access, queueVars>>
  /\ Settle(t, r)
  /\ UNCHANGED <<locks, token, leaving, counters, observers>>

\* RefreshRejectedError, and no cookie any more: the session is over, unless
\* another tab's token came.
RefreshRejected(t, r) ==
  /\ run[t][r].pc = "refused"
  /\ cookie' = NoToken
  /\ IF access[t] \in {NoToken, run[t][r].stale}
     THEN ClearStore(t, HasSession(t), channel, storage)
     ELSE UNCHANGED <<marker, access, queueVars>>
  /\ Settle(t, r)
  /\ UNCHANGED <<locks, token, leaving, counters, observers>>

\* Any other error is thrown on, and the store stays; but the API's answer to a
\* throttled refresh drops the cookie all the same (RefreshView.handle_exception).
RefreshThrottled(t, r) ==
  /\ run[t][r].pc = "throttled"
  /\ cookie' = NoToken
  /\ UNCHANGED <<locks, marker, token, access, leaving, queueVars, counters, observers>>
  /\ Settle(t, r)

\* The request or its answer is lost: fetch rejects.
LoseRefresh(t, r) ==
  /\ run[t][r].pc \in {"sent", "granted", "refused"} /\ faults < MaxFaults
  /\ lost' = IF run[t][r].pc = "granted" THEN lost \cup {run[t][r].sent} ELSE lost
  /\ faults' = faults + 1 /\ UNCHANGED <<logins, logouts>>
  /\ ending' = (ending \/ run[t][r].pc = "granted")
  /\ Settle(t, r)
  /\ UNCHANGED <<locks, marker, cookie, token, access, leaving, queueVars, loggedOut>>

---------------------------------------------------------------------------
(* authFetch (client.ts), from anywhere in a tab.  A call is a reason to     *)
(* refresh, before it is sent or when it comes back with a 401; its second  *)
(* answer is final, so that a call keeps no state of its own here.          *)

\* ensureAccessToken
CallWithoutToken(t) ==
  /\ access[t] = NoToken /\ HasSession(t)
  /\ RefreshAccessToken(t, NoToken)

\* A 401: the call was sent with the tab's token, which lives 15 minutes.  (A
\* call sent with an older one takes the tab's token at once and changes nothing.)
CallExpired(t) ==
  /\ access[t] # NoToken
  /\ RefreshAccessToken(t, access[t])

---------------------------------------------------------------------------
(* Logging in and out (session.ts, DashboardApp.tsx).                       *)

\* Nothing of an earlier session is on its way.
SessionQuiet ==
  /\ \A t \in Tabs : ~leaving[t] /\ channel[t] = <<>> /\ storage[t] = <<>>
  /\ \A t \in Tabs, r \in RunIds : run[t][r] = IdleRun

\* LoginPage, shown to a tab without a session: the API sets the cookie and
\* startSession stores the token, with no broadcast.
Login(t) ==
  /\ ~HasSession(t) /\ logins < MaxLogins
  /\ \E n \in Tokens :
       /\ NextToken(n)
       /\ token' = [token EXCEPT ![n] = "live"]
       /\ cookie' = n
       /\ access' = [access EXCEPT ![t] = n]
  /\ WriteMarker(t, storage, TRUE)
  /\ ending' = ~SessionQuiet /\ loggedOut' = FALSE
  /\ logins' = logins + 1
  /\ UNCHANGED <<locks, holder, inFlight, run, leaving, channel, logouts, faults, lost>>

\* useLogout awaits the API's answer before it ends the session locally.
\* LogoutView blacklists the cookie's token, unless it was rotated already.  (A
\* request is served as it is sent: one that a rotation overtakes on its way would
\* leave a successor alive that no cookie holds once the answer takes it away.)
LogoutServed(t) ==
  /\ ~leaving[t] /\ HasSession(t) /\ logouts < MaxLogouts
  /\ leaving' = [leaving EXCEPT ![t] = TRUE]
  /\ token' = [k \in Tokens |-> IF k = cookie /\ token[k] = "live" THEN "ended" ELSE token[k]]
  /\ ending' = TRUE /\ logouts' = logouts + 1
  /\ UNCHANGED <<locks, marker, cookie, holder, tabVars, run, queueVars, logins, faults, lost, loggedOut>>

LogoutEnds(t) ==
  /\ leaving' = [leaving EXCEPT ![t] = FALSE]
  /\ ClearStore(t, HasSession(t), channel, storage)
  /\ inFlight' = [inFlight EXCEPT ![t] = NoRun]
  /\ loggedOut' = TRUE
  /\ UNCHANGED <<locks, holder, token, run, lost, ending>>

LogoutAnswered(t) ==
  /\ leaving[t]
  /\ cookie' = NoToken
  /\ LogoutEnds(t)
  /\ UNCHANGED counters

\* Best effort: a request that failed ends the session locally all the same.
LogoutFails(t) ==
  /\ leaving[t] /\ faults < MaxFaults
  /\ faults' = faults + 1 /\ UNCHANGED <<logins, logouts>>
  /\ LogoutEnds(t)
  /\ UNCHANGED cookie

\* The password is changed somewhere else: every session is blacklisted.
RevokeSessions ==
  /\ faults < MaxFaults /\ \E k \in Tokens : token[k] = "live"
  /\ token' = [k \in Tokens |-> IF token[k] = "live" THEN "ended" ELSE token[k]]
  /\ faults' = faults + 1 /\ UNCHANGED <<logins, logouts>>
  /\ ending' = TRUE
  /\ UNCHANGED <<locks, marker, cookie, holder, tabVars, run, leaving, queueVars, lost, loggedOut>>

---------------------------------------------------------------------------
(* What a tab hears from the others (tokens.ts handleMessage and            *)
(* syncSessionAcrossTabs).                                                  *)

\* endLocally, then the dashboard's endSessionLocally, which clears the store
\* once more and so tells the others once more when the marker is there.
EndRemotely(t, messages, events) ==
  /\ ClearStore(t, marker, messages, events)
  /\ inFlight' = [inFlight EXCEPT ![t] = NoRun]

HandleMessage(t) ==
  /\ channel[t] # <<>>
  /\ LET message == Head(channel[t]) IN
     \/ /\ message.type = "access"
        /\ access' = [access EXCEPT ![t] = message.access]
        /\ channel' = Taken(t, channel)
        /\ UNCHANGED <<marker, storage, inFlight>>
     \/ /\ message.type = "logout"
        /\ EndRemotely(t, Taken(t, channel), storage)
  /\ UNCHANGED <<locks, cookie, holder, token, run, leaving, counters, observers>>

HandleStorage(t) ==
  /\ storage[t] # <<>>
  /\ EndRemotely(t, channel, Taken(t, storage))
  /\ UNCHANGED <<locks, cookie, holder, token, run, leaving, counters, observers>>

\* The page is loaded again: only the marker, the cookie and what the API did
\* are left.  The browser drops the tab's requests, answered or not, and its
\* lock; a request the API had not seen yet it may still see.
Reload(t) ==
  LET Cut(pcs) == {run[t][r].sent : r \in {r \in RunIds : run[t][r].pc \in pcs}} IN
  /\ ~leaving[t] /\ faults < MaxFaults
  /\ access' = [access EXCEPT ![t] = NoToken]
  /\ inFlight' = [inFlight EXCEPT ![t] = NoRun]
  /\ run' = [run EXCEPT ![t] = [r \in RunIds |-> IdleRun]]
  /\ holder' = IF holder.tab = t THEN Free ELSE holder
  /\ channel' = [channel EXCEPT ![t] = <<>>]
  /\ storage' = [storage EXCEPT ![t] = <<>>]
  /\ \E seen \in SUBSET {k \in Cut({"sent"}) \ {NoToken} : token[k] = "live"} :
       /\ token' = [k \in Tokens |-> IF k \in seen THEN "rotated" ELSE token[k]]
       /\ lost' = lost \cup seen \cup Cut({"granted"})
       /\ ending' = (ending \/ seen # {} \/ Cut({"granted", "throttled"}) # {})
  /\ faults' = faults + 1
  /\ UNCHANGED <<locks, marker, cookie, leaving, logins, logouts, loggedOut>>

SessionNext ==
  \/ \E t \in Tabs, r \in RunIds :
       \/ GrantLock(t, r) \/ ServeRefresh(t, r) \/ ThrottleRefresh(t, r)
       \/ LoseRefresh(t, r) \/ RefreshSucceeds(t, r)
       \/ RefreshReused(t, r) \/ RefreshRejected(t, r) \/ RefreshThrottled(t, r)
  \/ \E t \in Tabs :
       \/ CallWithoutToken(t) \/ CallExpired(t)
       \/ Login(t) \/ LogoutServed(t) \/ LogoutAnswered(t)
       \/ LogoutFails(t) \/ HandleMessage(t) \/ HandleStorage(t) \/ Reload(t)
  \/ RevokeSessions

SessionSpec == SessionInit /\ [][SessionNext]_sessionVars

\* A refresh the API or the browser has in hand goes on.
RefreshGoes(t, r) ==
  \/ ServeRefresh(t, r) \/ RefreshSucceeds(t, r)
  \/ RefreshReused(t, r) \/ RefreshRejected(t, r) \/ RefreshThrottled(t, r)

\* Event loops and the API serve everyone, and the lock is granted in turn.  A
\* tab with an access token goes on calling the API, and so finds out when the
\* token has expired.
SessionFairness ==
  /\ \A t \in Tabs, r \in RunIds :
       WF_sessionVars(RefreshGoes(t, r)) /\ WF_sessionVars(GrantLock(t, r))
  /\ \A t \in Tabs :
       /\ WF_sessionVars(HandleMessage(t)) /\ WF_sessionVars(HandleStorage(t))
       /\ WF_sessionVars(CallExpired(t))

FairSessionSpec == SessionSpec /\ SessionFairness

---------------------------------------------------------------------------

\* With Web Locks, no tab ever presents a refresh token that another refresh
\* has used up: a refresh is refused because the session was ended, or because
\* the answer with the next token never came back.
RefusedForAReason ==
  \A t \in Tabs, r \in RunIds :
    run[t][r].pc = "refused" /\ run[t][r].sent # NoToken
      => token[run[t][r].sent] = "ended" \/ run[t][r].sent \in lost

\* A session that nobody ended goes on in every tab, through expiries, reloads
\* and any number of tabs that refresh at once: the marker stays, and between
\* refreshes the jar holds a token that the API accepts.
JarIsGood ==
  ~ending /\ token[1] # "unissued" =>
    /\ marker
    /\ \/ Accepted(cookie)
       \/ \E t \in Tabs, r \in RunIds : run[t][r].pc = "granted" /\ run[t][r].sent = cookie

\* Both hold where the browser has Web Locks (refresh.ts: "a tab waits for another
\* tab's refresh and reuses its token").
SessionIsKept == locks => RefusedForAReason /\ JarIsGood

\* When the session is over, no tab keeps its token for good, in whichever order
\* it takes the broadcasts and the storage events: what they leave behind, its
\* next refresh finds refused.
LogoutReachesEveryTab ==
  \A t \in Tabs : []<>(marker \/ access[t] = NoToken)

\* After a logout nothing but a login gives a tab a session again.
LogoutStands ==
  [][loggedOut /\ loggedOut' => \A t \in Tabs : ~HasSession(t) => ~HasSession(t)']_sessionVars
=============================================================================
