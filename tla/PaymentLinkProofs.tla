------------------------- MODULE PaymentLinkProofs -------------------------
(* What is proved about PaymentLink for any number of processes, any poll   *)
(* schedule and any faults: its type invariant, the inductive invariant     *)
(* LinkInv, and that it implements LinkPromise; and, while the gateway      *)
(* answers and the account stays, that an expired link is closed there.     *)
EXTENDS MCPaymentLink, TLAPS

-----------------------------------------------------------------------------
(* How the helpers move a process: the record stays a call record, and the  *)
(* other processes stay where they are.                                     *)
LEMMA BecomeStep ==
  ASSUME TypeOK, NEW w \in Workers, NEW c \in Calls, Become(w, c)
  PROVE  /\ call' \in [Workers -> Calls]
         /\ call'[w] = c
         /\ \A v \in Workers \ {w} : call'[v] = call[v]
BY DEF TypeOK, Become

LEMMA ReturnStep ==
  ASSUME TypeOK, NEW w \in Workers, Return(w)
  PROVE  /\ call' \in [Workers -> Calls]
         /\ call'[w] = Idle
         /\ call'[w].pc = "idle" /\ call'[w].seen = "none"
         /\ \A v \in Workers \ {w} : call'[v] = call[v]
<1>1. Idle \in Calls /\ Idle.pc = "idle" /\ Idle.seen = "none"
  BY DEF Idle, Calls, PCs, GatewayStatuses, Announceable
<1> QED
  BY <1>1, BecomeStep DEF Return

LEMMA GotoStep ==
  ASSUME TypeOK, NEW w \in Workers, NEW pc \in PCs, Goto(w, pc)
  PROVE  /\ call' \in [Workers -> Calls]
         /\ call'[w].pc = pc /\ call'[w].seen = call[w].seen /\ call'[w].as = call[w].as
         /\ \A v \in Workers \ {w} : call'[v] = call[v]
<1> DEFINE c == [call[w] EXCEPT !.pc = pc]
<1>1. call[w] \in Calls
  BY DEF TypeOK
<1>2. c \in Calls /\ c.pc = pc /\ c.seen = call[w].seen /\ c.as = call[w].as
  BY <1>1 DEF Calls
<1> QED
  BY <1>2, BecomeStep DEF Goto

LEMMA SawStep ==
  ASSUME TypeOK, NEW w \in Workers, NEW s \in GatewayStatuses, NEW pc \in PCs,
         Saw(w, s, pc)
  PROVE  /\ call' \in [Workers -> Calls]
         /\ call'[w].pc = pc /\ call'[w].seen = s
         /\ \A v \in Workers \ {w} : call'[v] = call[v]
<1> DEFINE c == [call[w] EXCEPT !.pc = pc, !.seen = s]
<1>1. call[w] \in Calls
  BY DEF TypeOK
<1>2. c \in Calls /\ c.pc = pc /\ c.seen = s
  BY <1>1 DEF Calls
<1> QED
  BY <1>2, BecomeStep DEF Saw

LEMMA GotoAsStep ==
  ASSUME TypeOK, NEW w \in Workers, NEW pc \in PCs, NEW o \in Announceable,
         GotoAs(w, pc, o)
  PROVE  /\ call' \in [Workers -> Calls]
         /\ call'[w].pc = pc /\ call'[w].seen = call[w].seen /\ call'[w].as = o
         /\ \A v \in Workers \ {w} : call'[v] = call[v]
<1> DEFINE c == [call[w] EXCEPT !.pc = pc, !.as = o]
<1>1. call[w] \in Calls
  BY DEF TypeOK
<1>2. c \in Calls /\ c.pc = pc /\ c.seen = call[w].seen /\ c.as = o
  BY <1>1 DEF Calls
<1> QED
  BY <1>2, BecomeStep DEF GotoAs

LEMMA InitInv == Init => LinkInv
<1> SUFFICES ASSUME Init PROVE LinkInv
  OBVIOUS
<1> USE DEF Init
<1>1. TypeOK
  <2>1. pollCount \in 0 .. PollCap /\ edits \in 0 .. AccountChanges /\ crashes \in 0 .. MaxCrashes
    BY PollAssumption, BoundsAssumption DEF PollCap
  <2>2. Idle \in Calls
    BY DEF Idle, Calls, PCs, GatewayStatuses, Announceable
  <2>3. call \in [Workers -> Calls] /\ announced \in [Announceable -> Nat]
    BY <2>2
  <2> QED
    BY <2>1, <2>3 DEF TypeOK, GatewayStatuses, Statuses, Terminal
<1>2. SeenPaidIsPaid
  BY DEF SeenPaidIsPaid, Idle
<1>3. OneEmitter
  BY DEF Idle, OneEmitter, Emitting, At
<1>4. AnnouncedOutcome
  BY DEF AnnouncedOutcome
<1>5. ClosesAsUnpaid
  BY DEF Idle, ClosesAsUnpaid, At
<1> QED
  BY <1>1, <1>2, <1>3, <1>4, <1>5 DEF LinkInv

(* A step that emits nothing, makes no process hold an event, and changes   *)
(* the status only while the row has no outcome, keeps the two invariants   *)
(* about events.                                                            *)
LEMMA QuietStep ==
  ASSUME LinkInv,
         announced' = announced,
         status' = status \/ status \notin Announceable,
         \A w \in Workers : call'[w].pc = "emit" =>
            call[w].pc = "emit" /\ call'[w].as = call[w].as
  PROVE  OneEmitter' /\ AnnouncedOutcome'
<1>1. \A w \in Workers : Emitting(w) => status \in Announceable /\ status = call[w].as
  BY DEF LinkInv, TypeOK, OneEmitter, Calls, Emitting, At
<1>2. OneEmitter'
  BY <1>1 DEF LinkInv, OneEmitter, Emitting, At
<1>3. AnnouncedOutcome'
  BY DEF LinkInv, AnnouncedOutcome, TypeOK
<1> QED
  BY <1>2, <1>3

(* The transaction that settles the row hands its event to one process.     *)
LEMMA SettleStep ==
  ASSUME LinkInv,
         NEW w \in Workers,
         NEW o \in Announceable,
         status \notin Terminal,
         SettleRow(w, o),
         announced' = announced
  PROVE  OneEmitter' /\ AnnouncedOutcome'
<1>1. status \notin Announceable
  BY DEF Terminal, Announceable
<1>2. \A v \in Workers : ~Emitting(v)
  BY <1>1 DEF LinkInv, TypeOK, OneEmitter, Calls, Emitting, At
<1>3. \A p \in Announceable : announced[p] = 0
  BY <1>1 DEF LinkInv, AnnouncedOutcome
<1>4. /\ call'[w].pc = "emit" /\ call'[w].as = o
      /\ \A v \in Workers \ {w} : call'[v] = call[v]
      /\ status' = o
  BY GotoAsStep DEF SettleRow, LinkInv, PCs
<1>5. OneEmitter'
  BY <1>2, <1>3, <1>4 DEF OneEmitter, Emitting, At
<1>6. AnnouncedOutcome'
  BY <1>3 DEF AnnouncedOutcome
<1> QED
  BY <1>5, <1>6

(* Most steps move one process, emit nothing, and leave a settled row and a *)
(* full payment alone.                                                      *)
LEMMA QuietMove ==
  ASSUME LinkInv, TypeOK',
         NEW w \in Workers,
         call'[w].pc # "emit",
         call'[w].pc = "close" => call'[w].as # "paid",
         call'[w].seen = "paid" => gateway' = "paid",
         \A v \in Workers \ {w} : call'[v] = call[v],
         announced' = announced,
         status' = status \/ (status \notin Announceable /\ status' # "paid"),
         gateway = "paid" => gateway' = "paid"
  PROVE  LinkInv'
<1>1. OneEmitter' /\ AnnouncedOutcome'
  BY QuietStep
<1>2. SeenPaidIsPaid'
  BY DEF LinkInv, SeenPaidIsPaid
<1>3. ClosesAsUnpaid'
  BY DEF LinkInv, ClosesAsUnpaid, At
<1> QED
  BY <1>1, <1>2, <1>3 DEF LinkInv

(* A step of the world moves no process. *)
LEMMA WorldMove ==
  ASSUME LinkInv, TypeOK', UNCHANGED <<call, announced, status>>,
         gateway = "paid" => gateway' = "paid"
  PROVE  LinkInv'
<1>1. OneEmitter' /\ AnnouncedOutcome'
  BY QuietStep
<1>2. SeenPaidIsPaid' /\ ClosesAsUnpaid'
  BY DEF LinkInv, SeenPaidIsPaid, ClosesAsUnpaid, At
<1> QED
  BY <1>1, <1>2 DEF LinkInv

-----------------------------------------------------------------------------
(* One step per action.  Under it: what becomes of the process, the type    *)
(* invariant, and the rest by QuietMove or SettleStep.                      *)
LEMMA NextInv == LinkInv /\ [Next]_vars => LinkInv'
<1> SUFFICES ASSUME LinkInv, [Next]_vars PROVE LinkInv'
  OBVIOUS
<1>t. TypeOK
  BY DEF LinkInv
<1>0. CASE UNCHANGED vars
  BY <1>0 DEF vars, row, clock, LinkInv, TypeOK, SeenPaidIsPaid, ClosesAsUnpaid,
              OneEmitter, AnnouncedOutcome, Emitting, At
<1>1. ASSUME NEW w \in Workers, CreateStart(w) PROVE LinkInv'
  <2>1. /\ call' \in [Workers -> Calls] /\ call'[w].pc # "emit"
        /\ call'[w].pc = "close" => call'[w].as # "paid"
        /\ call'[w].seen = "paid" => gateway' = "paid"
        /\ \A v \in Workers \ {w} : call'[v] = call[v]
    BY <1>t, <1>1, GotoStep DEF CreateStart, PCs, LinkInv, SeenPaidIsPaid
  <2>2. TypeOK'
    BY <1>t, <1>1, <2>1 DEF CreateStart, TypeOK, row, clock, Statuses, Terminal,
                          GatewayStatuses
  <2> QED
    BY <1>1, <2>1, <2>2, QuietMove DEF CreateStart, row, clock, Announceable
<1>2. ASSUME NEW w \in Workers, CancelRead(w) PROVE LinkInv'
  <2>1. /\ call' \in [Workers -> Calls] /\ call'[w].pc # "emit"
        /\ call'[w].pc = "close" => call'[w].as # "paid"
        /\ call'[w].seen = "paid" => gateway' = "paid"
        /\ \A v \in Workers \ {w} : call'[v] = call[v]
    BY <1>t, <1>2, GotoStep, GotoAsStep DEF CancelRead, PCs, LinkInv, SeenPaidIsPaid, Announceable
  <2>2. TypeOK'
    BY <1>t, <1>2, <2>1 DEF CancelRead, TypeOK, row, clock, Statuses, Terminal,
                          GatewayStatuses
  <2> QED
    BY <1>2, <2>1, <2>2, QuietMove DEF CancelRead, row, clock, Announceable
<1>3. ASSUME NEW w \in Workers, RefreshStart(w) PROVE LinkInv'
  <2>1. /\ call' \in [Workers -> Calls] /\ call'[w].pc # "emit"
        /\ call'[w].pc = "close" => call'[w].as # "paid"
        /\ call'[w].seen = "paid" => gateway' = "paid"
        /\ \A v \in Workers \ {w} : call'[v] = call[v]
    BY <1>t, <1>3, GotoStep DEF RefreshStart, PCs, LinkInv, SeenPaidIsPaid
  <2>2. TypeOK'
    BY <1>t, <1>3, <2>1 DEF RefreshStart, TypeOK, row, clock, Statuses, Terminal,
                          GatewayStatuses
  <2> QED
    BY <1>3, <2>1, <2>2, QuietMove DEF RefreshStart, row, clock, Announceable
<1>4. ASSUME NEW w \in Workers, PollClaim(w) PROVE LinkInv'
  <2> DEFINE c == [Idle EXCEPT !.pc = "read_refresh", !.final = IsFinalPoll,
                       !.lastTry = pollCount' > PollOffsets + MaxFinalRetries]
  <2>1. pollCount' \in 0 .. PollCap
    BY <1>t, <1>4, PollAssumption DEF PollClaim, TypeOK, PollCap
  <2>2. IsFinalPoll \in BOOLEAN /\ (pollCount' > PollOffsets + MaxFinalRetries) \in BOOLEAN
    BY <1>t DEF IsFinalPoll, TypeOK
  <2>3. c \in Calls /\ c.pc = "read_refresh" /\ c.seen = "none"
    BY <2>2 DEF Idle, Calls, PCs, GatewayStatuses, Announceable
  <2>4. /\ call' \in [Workers -> Calls] /\ call'[w] = c
        /\ \A v \in Workers \ {w} : call'[v] = call[v]
    BY <1>t, <1>4, <2>3, BecomeStep DEF PollClaim
  <2>5. TypeOK'
    BY <1>t, <1>4, <2>1, <2>4 DEF PollClaim, TypeOK
  <2> QED
    BY <1>4, <2>3, <2>4, <2>5, QuietMove DEF PollClaim
<1>5. ASSUME NEW w \in Workers, WebhookDelivered(w) PROVE LinkInv'
  <2>1. /\ call' \in [Workers -> Calls]
        /\ call'[w].pc # "emit" /\ call'[w].pc # "close"
        /\ call'[w].seen = "paid" => gateway' = "paid"
        /\ \A v \in Workers \ {w} : call'[v] = call[v]
    <3>1. CASE hasId
      <4> DEFINE c == [Idle EXCEPT !.pc = "apply", !.seen = gateway, !.hook = TRUE]
      <4>1. c \in Calls /\ c.pc = "apply" /\ c.seen = gateway
        BY <1>t DEF TypeOK, Idle, Calls, PCs, GatewayStatuses, Announceable
      <4> QED
        BY <1>t, <1>5, <3>1, <4>1, BecomeStep DEF WebhookDelivered
    <3>2. CASE ~hasId
      BY <1>t, <1>5, <3>2 DEF WebhookDelivered, At, TypeOK, LinkInv, SeenPaidIsPaid
    <3> QED
      BY <3>1, <3>2
  <2>2. TypeOK'
    BY <1>t, <1>5, <2>1 DEF WebhookDelivered, TypeOK, row, clock
  <2> QED
    BY <1>5, <2>1, <2>2, QuietMove DEF WebhookDelivered, row
<1>6. ASSUME NEW w \in Workers, CreateAnswered(w) PROVE LinkInv'
  <2>1. /\ call' \in [Workers -> Calls] /\ call'[w].pc # "emit"
        /\ call'[w].pc = "close" => call'[w].as # "paid"
        /\ call'[w].seen = "paid" => gateway' = "paid"
        /\ \A v \in Workers \ {w} : call'[v] = call[v]
    BY <1>t, <1>6, SawStep DEF CreateAnswered, PCs, LinkInv, SeenPaidIsPaid, TypeOK, GatewayStatuses
  <2>2. TypeOK'
    BY <1>t, <1>6, <2>1 DEF CreateAnswered, TypeOK, row, clock, Statuses, Terminal,
                          GatewayStatuses
  <2> QED
    BY <1>6, <2>1, <2>2, QuietMove DEF CreateAnswered, row, clock, Announceable
<1>7. ASSUME NEW w \in Workers, CreateRetryable(w) PROVE LinkInv'
  <2>1. /\ call' \in [Workers -> Calls] /\ call'[w].pc # "emit"
        /\ call'[w].pc = "close" => call'[w].as # "paid"
        /\ call'[w].seen = "paid" => gateway' = "paid"
        /\ \A v \in Workers \ {w} : call'[v] = call[v]
    BY <1>t, <1>7, ReturnStep DEF CreateRetryable, PCs, LinkInv, SeenPaidIsPaid
  <2>2. TypeOK'
    BY <1>t, <1>7, <2>1 DEF CreateRetryable, TypeOK, row, clock, Statuses, Terminal,
                          GatewayStatuses
  <2> QED
    BY <1>7, <2>1, <2>2, QuietMove DEF CreateRetryable, row, clock, Announceable
<1>8. ASSUME NEW w \in Workers, CreateRefused(w) PROVE LinkInv'
  <2>1. /\ call' \in [Workers -> Calls] /\ call'[w].pc # "emit"
        /\ call'[w].pc = "close" => call'[w].as # "paid"
        /\ call'[w].seen = "paid" => gateway' = "paid"
        /\ \A v \in Workers \ {w} : call'[v] = call[v]
    BY <1>t, <1>8, ReturnStep DEF CreateRefused, PCs, LinkInv, SeenPaidIsPaid
  <2>2. TypeOK'
    BY <1>t, <1>8, <2>1 DEF CreateRefused, TypeOK, row, clock, Statuses, Terminal,
                          GatewayStatuses
  <2> QED
    BY <1>8, <2>1, <2>2, QuietMove DEF CreateRefused, row, clock, Announceable
<1>9. ASSUME NEW w \in Workers, ApplyCreated(w) PROVE LinkInv'
  <2>1. /\ call' \in [Workers -> Calls] /\ call'[w].pc # "emit"
        /\ call'[w].pc = "close" => call'[w].as # "paid"
        /\ call'[w].seen = "paid" => gateway' = "paid"
        /\ \A v \in Workers \ {w} : call'[v] = call[v]
    BY <1>t, <1>9, GotoStep, ReturnStep DEF ApplyCreated, PCs, LinkInv, SeenPaidIsPaid
  <2>2. TypeOK'
    <3>1. 0 \in 0 .. PollCap
      BY PollAssumption DEF PollCap
    <3>2. pollCount' \in 0 .. PollCap /\ status' \in Statuses
      BY <1>t, <1>9, <3>1 DEF ApplyCreated, TypeOK, row, Statuses
    <3>3. due' \in BOOLEAN /\ past' \in BOOLEAN /\ hasId' \in BOOLEAN
      BY <1>t, <1>9 DEF ApplyCreated, TypeOK, row, clock
    <3> QED
      BY <1>t, <1>9, <2>1, <3>2, <3>3 DEF ApplyCreated, TypeOK
  <2> QED
    BY <1>9, <2>1, <2>2, QuietMove DEF ApplyCreated, row, clock, Announceable, PollCap
<1>10. ASSUME NEW w \in Workers, DropCreated(w) PROVE LinkInv'
  <2>1. /\ call' \in [Workers -> Calls] /\ call'[w].pc # "emit"
        /\ call'[w].pc = "close" => call'[w].as # "paid"
        /\ call'[w].seen = "paid" => gateway' = "paid"
        /\ \A v \in Workers \ {w} : call'[v] = call[v]
    BY <1>t, <1>10, ReturnStep DEF DropCreated, PCs, LinkInv, SeenPaidIsPaid
  <2>2. TypeOK'
    BY <1>t, <1>10, <2>1 DEF DropCreated, TypeOK, row, clock, Statuses, Terminal,
                          GatewayStatuses
  <2> QED
    BY <1>10, <2>1, <2>2, QuietMove DEF DropCreated, row, clock, Announceable
<1>11. ASSUME NEW w \in Workers, CancelAnswered(w) PROVE LinkInv'
  <2>1. /\ call' \in [Workers -> Calls] /\ call'[w].pc # "emit"
        /\ call'[w].pc = "close" => call'[w].as # "paid"
        /\ call'[w].seen = "paid" => gateway' = "paid"
        /\ \A v \in Workers \ {w} : call'[v] = call[v]
    BY <1>t, <1>11, SawStep DEF CancelAnswered, PCs, LinkInv, SeenPaidIsPaid, TypeOK, GatewayStatuses, CancelledThere
  <2>2. TypeOK'
    BY <1>t, <1>11, <2>1 DEF CancelAnswered, TypeOK, row, clock, Statuses, Terminal,
                          GatewayStatuses, CancelledThere
  <2> QED
    BY <1>11, <2>1, <2>2, QuietMove DEF CancelAnswered, row, clock, Announceable, CancelledThere
<1>12. ASSUME NEW w \in Workers, CancelError(w) PROVE LinkInv'
  <2>1. /\ call' \in [Workers -> Calls] /\ call'[w].pc # "emit"
        /\ call'[w].pc = "close" => call'[w].as # "paid"
        /\ call'[w].seen = "paid" => gateway' = "paid"
        /\ \A v \in Workers \ {w} : call'[v] = call[v]
    BY <1>t, <1>12, ReturnStep DEF CancelError, PCs, LinkInv, SeenPaidIsPaid
  <2>2. TypeOK'
    BY <1>t, <1>12, <2>1 DEF CancelError, TypeOK, row, clock, Statuses, Terminal,
                          GatewayStatuses, CancelledThere
  <2> QED
    BY <1>12, <2>1, <2>2, QuietMove DEF CancelError, row, clock, Announceable, CancelledThere
<1>13. ASSUME NEW w \in Workers, RefreshRead(w) PROVE LinkInv'
  <2>1. /\ call' \in [Workers -> Calls] /\ call'[w].pc # "emit"
        /\ call'[w].pc = "close" => call'[w].as # "paid"
        /\ call'[w].seen = "paid" => gateway' = "paid"
        /\ \A v \in Workers \ {w} : call'[v] = call[v]
    BY <1>t, <1>13, GotoStep, GotoAsStep, ReturnStep DEF RefreshRead, PCs, LinkInv, SeenPaidIsPaid, Announceable
  <2>2. TypeOK'
    BY <1>t, <1>13, <2>1 DEF RefreshRead, TypeOK, row, clock, Statuses, Terminal,
                          GatewayStatuses
  <2> QED
    BY <1>13, <2>1, <2>2, QuietMove DEF RefreshRead, row, clock, Announceable
<1>14. ASSUME NEW w \in Workers, FetchAnswered(w) PROVE LinkInv'
  <2>1. /\ call' \in [Workers -> Calls] /\ call'[w].pc # "emit"
        /\ call'[w].pc = "close" => call'[w].as # "paid"
        /\ call'[w].seen = "paid" => gateway' = "paid"
        /\ \A v \in Workers \ {w} : call'[v] = call[v]
    BY <1>t, <1>14, SawStep DEF FetchAnswered, PCs, LinkInv, SeenPaidIsPaid, TypeOK
  <2>2. TypeOK'
    BY <1>t, <1>14, <2>1 DEF FetchAnswered, TypeOK, row, clock, Statuses, Terminal,
                          GatewayStatuses
  <2> QED
    BY <1>14, <2>1, <2>2, QuietMove DEF FetchAnswered, row, clock, Announceable
<1>15. ASSUME NEW w \in Workers, FetchError(w) PROVE LinkInv'
  <2>1. /\ call' \in [Workers -> Calls] /\ call'[w].pc # "emit"
        /\ call'[w].pc = "close" => call'[w].as # "paid"
        /\ call'[w].seen = "paid" => gateway' = "paid"
        /\ \A v \in Workers \ {w} : call'[v] = call[v]
    BY <1>t, <1>15, GotoAsStep, ReturnStep DEF FetchError, PCs, LinkInv, SeenPaidIsPaid, Announceable
  <2>2. TypeOK'
    BY <1>t, <1>15, <2>1 DEF FetchError, TypeOK, row, clock, Statuses, Terminal,
                          GatewayStatuses
  <2> QED
    BY <1>15, <2>1, <2>2, QuietMove DEF FetchError, row, clock, Announceable
<1>16. ASSUME NEW w \in Workers, FinalCancelAnswered(w) PROVE LinkInv'
  <2>1. /\ call' \in [Workers -> Calls] /\ call'[w].pc # "emit"
        /\ call'[w].pc = "close" => call'[w].as # "paid"
        /\ call'[w].seen = "paid" => gateway' = "paid"
        /\ \A v \in Workers \ {w} : call'[v] = call[v]
    BY <1>t, <1>16, SawStep, GotoAsStep DEF FinalCancelAnswered, PCs, LinkInv, SeenPaidIsPaid,
         TypeOK, GatewayStatuses, CancelledThere, Announceable
  <2>2. TypeOK'
    BY <1>t, <1>16, <2>1 DEF FinalCancelAnswered, TypeOK, row, clock, Statuses, Terminal,
                          GatewayStatuses, CancelledThere
  <2> QED
    BY <1>16, <2>1, <2>2, QuietMove DEF FinalCancelAnswered, row, clock, Announceable, CancelledThere
<1>17. ASSUME NEW w \in Workers, FinalCancelError(w) PROVE LinkInv'
  <2>1. /\ call' \in [Workers -> Calls] /\ call'[w].pc # "emit"
        /\ call'[w].pc = "close" => call'[w].as # "paid"
        /\ call'[w].seen = "paid" => gateway' = "paid"
        /\ \A v \in Workers \ {w} : call'[v] = call[v]
    BY <1>t, <1>17, GotoAsStep DEF FinalCancelError, PCs, LinkInv, SeenPaidIsPaid, Announceable, CancelledThere
  <2>2. TypeOK'
    BY <1>t, <1>17, <2>1 DEF FinalCancelError, TypeOK, row, clock, Statuses, Terminal,
                          GatewayStatuses, CancelledThere
  <2> QED
    BY <1>17, <2>1, <2>2, QuietMove DEF FinalCancelError, row, clock, Announceable, CancelledThere
<1>18. ASSUME NEW w \in Workers, ApplyLinkState(w) PROVE LinkInv'
  <2>1. CASE status \notin Terminal /\ Settles(call[w].seen)
    <3> DEFINE o == call[w].seen
    <3>1. o \in Announceable
      BY <1>t, <2>1 DEF TypeOK, Calls, Settles
    <3>2. SettleRow(w, o) /\ announced' = announced /\ UNCHANGED gateway
      BY <1>18, <2>1 DEF ApplyLinkState
    <3>3. OneEmitter' /\ AnnouncedOutcome'
      BY <2>1, <3>1, <3>2, SettleStep
    <3>4. /\ call' \in [Workers -> Calls] /\ call'[w].seen = call[w].seen
          /\ \A v \in Workers \ {w} : call'[v] = call[v]
          /\ status' = o /\ due' = FALSE
      BY <1>t, <3>1, <3>2, GotoAsStep DEF SettleRow, PCs
    <3>5. TypeOK'
      BY <1>t, <1>18, <2>1, <3>1, <3>4 DEF ApplyLinkState, TypeOK, Statuses, Terminal, Announceable
    <3>6. o = "paid" => gateway = "paid"
      BY DEF LinkInv, SeenPaidIsPaid
    <3>7. SeenPaidIsPaid'
      BY <3>2, <3>4, <3>6 DEF LinkInv, SeenPaidIsPaid
    <3>8. ClosesAsUnpaid'
      BY <1>t, <3>1, <3>2, <3>4, GotoAsStep DEF SettleRow, PCs, LinkInv, ClosesAsUnpaid, At
    <3> QED
      BY <3>3, <3>5, <3>7, <3>8 DEF LinkInv
  <2>2. CASE ~(status \notin Terminal /\ Settles(call[w].seen))
    <3>1. /\ call' \in [Workers -> Calls] /\ call'[w].pc = "idle" /\ call'[w].seen = "none"
          /\ \A v \in Workers \ {w} : call'[v] = call[v]
      BY <1>t, <1>18, <2>2, ReturnStep DEF ApplyLinkState
    <3>2. TypeOK'
      BY <1>t, <1>18, <2>2, <3>1 DEF ApplyLinkState, TypeOK, Calls, MarkProcessed
    <3> QED
      BY <1>18, <2>2, <3>1, <3>2, QuietMove DEF ApplyLinkState
  <2> QED
    BY <2>1, <2>2
<1>19. ASSUME NEW w \in Workers, CloseLocally(w) PROVE LinkInv'
  (* A local close is never a payment: it expires or cancels. *)
  <2>1. CASE status \notin Terminal
    <3> DEFINE o == call[w].as
    <3>1. o \in Announceable
      BY <1>t, <2>1 DEF TypeOK, Calls, Settles
    <3>2. SettleRow(w, o) /\ announced' = announced /\ UNCHANGED gateway
      BY <1>19, <2>1 DEF CloseLocally
    <3>3. OneEmitter' /\ AnnouncedOutcome'
      BY <2>1, <3>1, <3>2, SettleStep
    <3>4. /\ call' \in [Workers -> Calls] /\ call'[w].seen = call[w].seen
          /\ \A v \in Workers \ {w} : call'[v] = call[v]
          /\ status' = o /\ due' = FALSE
      BY <1>t, <3>1, <3>2, GotoAsStep DEF SettleRow, PCs
    <3>5. TypeOK'
      BY <1>t, <1>19, <2>1, <3>1, <3>4 DEF CloseLocally, TypeOK, Statuses, Terminal, Announceable
    <3>6. o = "paid" => gateway = "paid"
      BY <1>19 DEF CloseLocally, LinkInv, ClosesAsUnpaid, At
    <3>7. SeenPaidIsPaid'
      BY <3>2, <3>4, <3>6 DEF LinkInv, SeenPaidIsPaid
    <3>8. ClosesAsUnpaid'
      BY <1>t, <3>1, <3>2, <3>4, GotoAsStep DEF SettleRow, PCs, LinkInv, ClosesAsUnpaid, At
    <3> QED
      BY <3>3, <3>5, <3>7, <3>8 DEF LinkInv
  <2>2. CASE ~(status \notin Terminal)
    <3>1. /\ call' \in [Workers -> Calls] /\ call'[w].pc = "idle" /\ call'[w].seen = "none"
          /\ \A v \in Workers \ {w} : call'[v] = call[v]
      BY <1>t, <1>19, <2>2, ReturnStep DEF CloseLocally
    <3>2. TypeOK'
      BY <1>t, <1>19, <2>2, <3>1 DEF CloseLocally, TypeOK, Calls
    <3> QED
      BY <1>19, <2>2, <3>1, <3>2, QuietMove DEF CloseLocally
  <2> QED
    BY <2>1, <2>2
<1>20. ASSUME NEW w \in Workers, Emit(w) PROVE LinkInv'
  <2>1. /\ call' \in [Workers -> Calls] /\ call'[w].pc = "idle" /\ call'[w].seen = "none"
        /\ \A v \in Workers \ {w} : call'[v] = call[v]
    BY <1>t, <1>20, ReturnStep DEF Emit
  <2> DEFINE o == call[w].as
  <2>2. o \in Announceable /\ call[w].seen \in GatewayStatuses
    BY <1>t DEF TypeOK, Calls
  <2>3. status = o /\ \A p \in Announceable : announced[p] = 0
    BY <1>20 DEF Emit, LinkInv, OneEmitter, Emitting
  <2>4. announced' = [announced EXCEPT ![o] = 1] /\ UNCHANGED <<status, gateway>>
    <3>1. announced[o] + 1 = 1
      BY <2>2, <2>3
    <3> QED
      BY <1>20, <3>1 DEF Emit, row
  <2>5. TypeOK'
    BY <1>t, <1>20, <2>1, <2>2, <2>4 DEF Emit, MarkProcessed, TypeOK, row, clock
  <2>6. AnnouncedOutcome'
    BY <1>t, <2>2, <2>3, <2>4 DEF AnnouncedOutcome, TypeOK
  <2>7. OneEmitter'
    <3>1. \A v \in Workers : ~Emitting(v)'
      BY <1>20, <2>1 DEF Emit, LinkInv, OneEmitter, Emitting, At
    <3> QED
      BY <3>1 DEF OneEmitter
  <2>8. SeenPaidIsPaid'
    BY <2>1, <2>4 DEF LinkInv, SeenPaidIsPaid
  <2>9. ClosesAsUnpaid'
    BY <2>1 DEF LinkInv, ClosesAsUnpaid, At
  <2> QED
    BY <2>5, <2>6, <2>7, <2>8, <2>9 DEF LinkInv
<1>21. ASSUME NEW w \in Workers, Crash(w) PROVE LinkInv'
  <2>1. /\ call' \in [Workers -> Calls] /\ call'[w].pc # "emit"
        /\ call'[w].pc = "close" => call'[w].as # "paid"
        /\ call'[w].seen = "paid" => gateway' = "paid"
        /\ \A v \in Workers \ {w} : call'[v] = call[v]
    BY <1>t, <1>21, ReturnStep DEF Crash, PCs, LinkInv, SeenPaidIsPaid
  <2>2. TypeOK'
    BY <1>t, <1>21, <2>1, BoundsAssumption DEF Crash, TypeOK, row, clock, Statuses, Terminal,
                          GatewayStatuses
  <2> QED
    BY <1>21, <2>1, <2>2, QuietMove DEF Crash, row, clock, Announceable
<1>22. CASE BuyerPays
  <2>1. TypeOK'
    BY <1>t, <1>22, PaymentsAssumption, BoundsAssumption
       DEF BuyerPays, AllPayments, TypeOK, row, clock, GatewayStatuses
  <2> QED
    BY <1>22, <2>1, WorldMove DEF BuyerPays, row, clock
<1>23. CASE GatewayCloses
  <2>1. TypeOK'
    BY <1>t, <1>23, PaymentsAssumption, BoundsAssumption
       DEF GatewayCloses, AllPayments, TypeOK, row, clock, GatewayStatuses
  <2> QED
    BY <1>23, <2>1, WorldMove DEF GatewayCloses, row, clock
<1>24. CASE SellerEditsAccount
  <2>1. TypeOK'
    BY <1>t, <1>24, PaymentsAssumption, BoundsAssumption
       DEF SellerEditsAccount, AllPayments, TypeOK, row, clock, GatewayStatuses
  <2> QED
    BY <1>24, <2>1, WorldMove DEF SellerEditsAccount, row, clock
<1>25. CASE PollFallsDue
  <2>1. TypeOK'
    BY <1>t, <1>25, PaymentsAssumption, BoundsAssumption
       DEF PollFallsDue, AllPayments, TypeOK, row, clock, GatewayStatuses
  <2> QED
    BY <1>25, <2>1, WorldMove DEF PollFallsDue, row, clock
<1>26. CASE DeadlinePasses
  <2>1. TypeOK'
    BY <1>t, <1>26, PaymentsAssumption, BoundsAssumption
       DEF DeadlinePasses, AllPayments, TypeOK, row, clock, GatewayStatuses
  <2> QED
    BY <1>26, <2>1, WorldMove DEF DeadlinePasses, row, clock
<1> QED
  BY <1>0, <1>1, <1>2, <1>3, <1>4, <1>5, <1>6, <1>7, <1>8,
     <1>9, <1>10, <1>11, <1>12, <1>13, <1>14, <1>15, <1>16, <1>17,
     <1>18, <1>19, <1>20, <1>21, <1>22, <1>23, <1>24, <1>25, <1>26
     DEF Next, Start, Continue, Environment

-----------------------------------------------------------------------------
(* PaymentLink keeps its type invariant and the invariant about events and  *)
(* payments, whatever the schedule, the faults and the number of processes. *)
THEOREM LinkInvariant == Spec => []LinkInv
<1>1. Init => LinkInv
  BY InitInv
<1>2. LinkInv /\ [Next]_vars => LinkInv'
  BY NextInv
<1> QED
  BY <1>1, <1>2, PTL DEF Spec

(* Type correctness of the row, the gateway link and the processes' calls.  *)
THEOREM TypeCorrect == Spec => []TypeOK
<1>1. LinkInv => TypeOK
  BY DEF LinkInv
<1> QED
  BY <1>1, LinkInvariant, PTL

-----------------------------------------------------------------------------
(* Refinement.  Only four kinds of step change what LinkPromise sees: the   *)
(* buyer pays, the row is settled by an answer of the gateway or locally,   *)
(* it fails, and an event is emitted.                                       *)
LEMMA InitPromise == Init => Promise!Init
BY DEF Init, Promise!Init, Promise!Outcomes, Announceable, Terminal

LEMMA NextPromise == LinkInv /\ [Next]_vars => [Promise!Next]_(Promise!vars)
<1> SUFFICES ASSUME LinkInv, [Next]_vars PROVE [Promise!Next]_(Promise!vars)
  OBVIOUS
<1>t. TypeOK
  BY DEF LinkInv
<1> DEFINE stutter == /\ (IF status' \in Terminal THEN status' ELSE "open")
                           = (IF status \in Terminal THEN status ELSE "open")
                      /\ (gateway' = "paid") = (gateway = "paid")
                      /\ announced' = announced
<1>s. ASSUME stutter PROVE [Promise!Next]_(Promise!vars)
  BY <1>s DEF Promise!vars
<1>0. CASE UNCHANGED vars
  <2> stutter
    BY <1>0 DEF vars, row
  <2> QED
    BY <1>s
<1>1. ASSUME NEW w \in Workers, Start(w) PROVE [Promise!Next]_(Promise!vars)
  <2> stutter
    BY <1>1 DEF Start, CreateStart, CancelRead, RefreshStart, PollClaim,
                WebhookDelivered, row, Terminal
  <2> QED
    BY <1>s
<1>2. ASSUME NEW w \in Workers,
             \/ CreateAnswered(w) \/ CreateRetryable(w) \/ ApplyCreated(w)
             \/ DropCreated(w) \/ CancelAnswered(w) \/ CancelError(w)
             \/ RefreshRead(w) \/ FetchAnswered(w) \/ FetchError(w)
             \/ FinalCancelAnswered(w) \/ FinalCancelError(w) \/ Crash(w)
      PROVE  [Promise!Next]_(Promise!vars)
  <2> stutter
    BY <1>2 DEF CreateAnswered, CreateRetryable, ApplyCreated, DropCreated,
                CancelAnswered, CancelError, RefreshRead, FetchAnswered, FetchError,
                FinalCancelAnswered, FinalCancelError, Crash, CancelledThere,
                row, clock, Terminal
  <2> QED
    BY <1>s
<1>3. ASSUME NEW w \in Workers, CreateRefused(w) PROVE [Promise!Next]_(Promise!vars)
  <2>1. CASE status = "creating"
    <3> Promise!Settle("failed")
      BY <1>3, <2>1 DEF CreateRefused, Promise!Settle, Terminal
    <3> QED
      BY DEF Promise!Next
  <2>2. CASE status # "creating"
    <3> stutter
      BY <1>3, <2>2 DEF CreateRefused
    <3> QED
      BY <1>s
  <2> QED
    BY <2>1, <2>2
<1>4. ASSUME NEW w \in Workers, NEW o \in Announceable, status \notin Terminal,
             status' = o, o = "paid" => gateway = "paid",
             UNCHANGED <<gateway, announced>>
      PROVE  [Promise!Next]_(Promise!vars)
  <2> Promise!Settle(o)
    BY <1>4 DEF Promise!Settle, Terminal, Announceable
  <2> QED
    BY DEF Promise!Next, Promise!Outcomes, Announceable
<1>5. ASSUME NEW w \in Workers, ApplyLinkState(w) PROVE [Promise!Next]_(Promise!vars)
  <2>1. CASE status \notin Terminal /\ Settles(call[w].seen)
    BY <1>4, <1>5, <2>1 DEF ApplyLinkState, SettleRow, Settles, LinkInv, SeenPaidIsPaid
  <2>2. CASE ~(status \notin Terminal /\ Settles(call[w].seen))
    <3> stutter
      BY <1>5, <2>2 DEF ApplyLinkState
    <3> QED
      BY <1>s
  <2> QED
    BY <2>1, <2>2
<1>6. ASSUME NEW w \in Workers, CloseLocally(w) PROVE [Promise!Next]_(Promise!vars)
  <2>1. CASE status \notin Terminal
    <3>1. call[w].as \in Announceable /\ call[w].as # "paid"
      BY <1>t, <1>6 DEF CloseLocally, TypeOK, Calls, LinkInv, ClosesAsUnpaid
    <3> QED
      BY <1>4, <1>6, <2>1, <3>1 DEF CloseLocally, SettleRow
  <2>2. CASE status \in Terminal
    <3> stutter
      BY <1>6, <2>2 DEF CloseLocally
    <3> QED
      BY <1>s
  <2> QED
    BY <2>1, <2>2
<1>7. ASSUME NEW w \in Workers, Emit(w) PROVE [Promise!Next]_(Promise!vars)
  <2> DEFINE o == call[w].as
  <2>1. o \in Announceable
    BY <1>t DEF TypeOK, Calls
  <2>2. status = o /\ announced[o] = 0
    BY <1>7, <2>1 DEF Emit, LinkInv, OneEmitter, Emitting
  <2>3. announced' = [announced EXCEPT ![o] = 1] /\ UNCHANGED <<status, gateway>>
    <3>1. announced[o] + 1 = 1
      BY <2>2
    <3> QED
      BY <1>7, <3>1 DEF Emit, row
  <2>4. Promise!Announce(o)
    BY <2>1, <2>2, <2>3 DEF Promise!Announce, Terminal, Announceable
  <2> QED
    BY <2>1, <2>4 DEF Promise!Next, Promise!Outcomes, Announceable
<1>8. CASE BuyerPays
  <2>1. CASE gateway' = "paid"
    <3> Promise!Pay
      BY <1>8, <2>1 DEF BuyerPays, Promise!Pay, row
    <3> QED
      BY DEF Promise!Next
  <2>2. CASE gateway' # "paid"
    <3> stutter
      BY <1>8, <2>2 DEF BuyerPays, row
    <3> QED
      BY <1>s
  <2> QED
    BY <2>1, <2>2
<1>9. CASE GatewayCloses \/ SellerEditsAccount \/ PollFallsDue \/ DeadlinePasses
  <2> stutter
    BY <1>9 DEF GatewayCloses, SellerEditsAccount, PollFallsDue, DeadlinePasses, row
  <2> QED
    BY <1>s
<1> QED
  BY <1>0, <1>1, <1>2, <1>3, <1>5, <1>6, <1>7, <1>8, <1>9
     DEF Next, Continue, Environment

(* PaymentLink implements LinkPromise: every link is settled once, as paid  *)
(* only when the gateway holds the full amount, and at most one event, its  *)
(* outcome's, is emitted (apply_link_state, _close_locally, _emit_on_commit).*)
THEOREM Refinement == Spec => PromiseKept
<1>1. Init => Promise!Init
  BY InitPromise
<1>2. LinkInv /\ [Next]_vars => [Promise!Next]_(Promise!vars)
  BY NextPromise
<1> QED
  BY <1>1, <1>2, LinkInvariant, PTL DEF Spec, PromiseKept, Promise!Spec
-----------------------------------------------------------------------------
(* While the gateway answers every call and the account stays, a row is     *)
(* closed as expired only once the link on the gateway is past paying: a    *)
(* process on its way there has heard so from the gateway itself.           *)
Exists == gateway # "none"
Closed == gateway \notin {"none", "created"}

HeardBy(c, exists, closed) ==
  /\ c.pc \in {"created", "fetch_call", "final_cancel_call"} => exists
  /\ c.pc = "close" /\ c.as = "expired" => closed
  /\ c.seen = "expired" => closed

CalmTypes ==
  call \in [Workers -> Calls] /\ gateway \in GatewayStatuses /\ edits \in Nat /\ account # "gone"
CalmInv ==
  /\ CalmTypes
  /\ hasId => Exists
  /\ status = "expired" => Closed
  /\ \A w \in Workers : HeardBy(call[w], Exists, Closed)

(* What the gateway may do is never taken back.                             *)
GatewayGoesOn == gateway' \in GatewayStatuses /\ (Exists => Exists') /\ (Closed => Closed')

LEMMA CalmMove ==
  ASSUME CalmInv, GatewayGoesOn, UNCHANGED <<edits, account>>,
         hasId' => Exists', status' = "expired" => Closed',
         call' = call \/ \E w \in Workers, c \in Calls : Become(w, c) /\ HeardBy(c, Exists', Closed')
  PROVE  CalmInv'
<1>1. call' \in [Workers -> Calls]
  BY DEF CalmInv, CalmTypes, Become
<1>2. ASSUME NEW v \in Workers
      PROVE  HeardBy(call'[v], Exists', Closed')
  <2>1. HeardBy(call[v], Exists', Closed')
    BY DEF CalmInv, GatewayGoesOn, HeardBy
  <2>2. CASE call' = call
    BY <2>1, <2>2
  <2>3. ASSUME NEW w \in Workers, NEW c \in Calls, Become(w, c), HeardBy(c, Exists', Closed')
        PROVE  HeardBy(call'[v], Exists', Closed')
    BY <2>1, <2>3 DEF Become, CalmInv, CalmTypes
  <2> QED
    BY <2>2, <2>3
<1>3. CalmTypes'
  BY <1>1 DEF CalmInv, CalmTypes, GatewayGoesOn
<1> QED
  BY <1>2, <1>3 DEF CalmInv, Exists, Closed

LEMMA CalmCalls ==
  ASSUME CalmInv, NEW w \in Workers
  PROVE  /\ Idle \in Calls /\ HeardBy(Idle, Exists', Closed')
         /\ call[w] \in Calls /\ HeardBy(call[w], Exists, Closed)
         /\ Idle.pc = "idle" /\ Idle.seen = "none"
  BY DEF CalmInv, CalmTypes, Idle, Calls, PCs, GatewayStatuses, Announceable, HeardBy

(* One move of each kind.                                                   *)
LEMMA CalmReturn ==
  ASSUME CalmInv, NEW w \in Workers, Return(w)
  PROVE  \E c \in Calls : Become(w, c) /\ HeardBy(c, Exists', Closed')
BY CalmCalls DEF Return

LEMMA CalmGoto ==
  ASSUME CalmInv, GatewayGoesOn, NEW w \in Workers, NEW pc \in PCs, Goto(w, pc),
         pc # "close", pc \in {"created", "fetch_call", "final_cancel_call"} => Exists'
  PROVE  \E c \in Calls : Become(w, c) /\ HeardBy(c, Exists', Closed')
<1> DEFINE c == [call[w] EXCEPT !.pc = pc]
<1>1. c \in Calls /\ c.pc = pc /\ c.seen = call[w].seen
  BY CalmCalls DEF Calls
<1>2. HeardBy(c, Exists', Closed')
  BY <1>1, CalmCalls DEF HeardBy, GatewayGoesOn
<1> QED
  BY <1>1, <1>2 DEF Goto

LEMMA CalmGotoAs ==
  ASSUME CalmInv, GatewayGoesOn, NEW w \in Workers, NEW pc \in {"close", "emit"}, NEW o \in Announceable,
         GotoAs(w, pc, o), pc = "close" /\ o = "expired" => Closed'
  PROVE  \E c \in Calls : Become(w, c) /\ HeardBy(c, Exists', Closed')
<1> DEFINE c == [call[w] EXCEPT !.pc = pc, !.as = o]
<1>1. c \in Calls /\ c.pc = pc /\ c.seen = call[w].seen /\ c.as = o
  BY CalmCalls DEF Calls, PCs
<1>2. HeardBy(c, Exists', Closed')
  BY <1>1, CalmCalls DEF HeardBy, GatewayGoesOn
<1> QED
  BY <1>1, <1>2 DEF GotoAs

LEMMA CalmSaw ==
  ASSUME CalmInv, GatewayGoesOn, NEW w \in Workers, NEW pc \in PCs, Saw(w, gateway', pc), pc # "close",
         pc \in {"created", "fetch_call", "final_cancel_call"} => Exists'
  PROVE  \E c \in Calls : Become(w, c) /\ HeardBy(c, Exists', Closed')
<1> DEFINE c == [call[w] EXCEPT !.pc = pc, !.seen = gateway']
<1>1. c \in Calls /\ c.pc = pc /\ c.seen = gateway'
  BY CalmCalls DEF Calls, GatewayGoesOn
<1>2. HeardBy(c, Exists', Closed')
  BY <1>1 DEF HeardBy, Closed
<1> QED
  BY <1>1, <1>2 DEF Saw

LEMMA GatewayStays ==
  ASSUME CalmInv, gateway' = gateway \/ gateway' = CancelledThere
  PROVE  GatewayGoesOn
BY DEF CalmInv, CalmTypes, GatewayGoesOn, Exists, Closed, CancelledThere, GatewayStatuses

(* What a process does that started an operation.                           *)
LEMMA CalmStarts ==
  ASSUME CalmInv, NEW w \in Workers,
         UNCHANGED <<gateway, account, edits, hasId>>, status' \in {status, "creating"},
         \/ \E pc \in {"create_call", "cancel_call", "read_refresh"} : Goto(w, pc)
         \/ GotoAs(w, "close", "cancelled")
         \/ \E final, lastTry \in BOOLEAN :
              Become(w, [Idle EXCEPT !.pc = "read_refresh", !.final = final, !.lastTry = lastTry])
         \/ /\ Closed
            /\ \/ Become(w, [Idle EXCEPT !.pc = "apply", !.seen = gateway, !.hook = TRUE])
               \/ UNCHANGED call
  PROVE  CalmInv'
<1>0. GatewayGoesOn /\ (hasId' => Exists') /\ (status' = "expired" => Closed')
  BY GatewayStays DEF CalmInv, Exists, Closed
<1>1. CASE \E pc \in {"create_call", "cancel_call", "read_refresh"} : Goto(w, pc)
  BY <1>0, <1>1, CalmGoto, CalmMove DEF PCs
<1>2. CASE GotoAs(w, "close", "cancelled")
  BY <1>0, <1>2, CalmGotoAs, CalmMove DEF Announceable
<1>3. ASSUME NEW final \in BOOLEAN, NEW lastTry \in BOOLEAN,
             Become(w, [Idle EXCEPT !.pc = "read_refresh", !.final = final, !.lastTry = lastTry])
      PROVE  CalmInv'
  <2> DEFINE c == [Idle EXCEPT !.pc = "read_refresh", !.final = final, !.lastTry = lastTry]
  <2>1. c \in Calls /\ c.pc = "read_refresh" /\ c.seen = "none"
    BY DEF Idle, Calls, PCs, GatewayStatuses, Announceable
  <2>2. HeardBy(c, Exists', Closed')
    BY <2>1 DEF HeardBy
  <2> QED
    BY <1>0, <1>3, <2>1, <2>2, CalmMove
<1>4. CASE Closed /\ Become(w, [Idle EXCEPT !.pc = "apply", !.seen = gateway, !.hook = TRUE])
  <2> DEFINE c == [Idle EXCEPT !.pc = "apply", !.seen = gateway, !.hook = TRUE]
  <2>1. c \in Calls /\ c.pc = "apply"
    BY DEF CalmInv, CalmTypes, Idle, Calls, PCs, Announceable
  <2>2. HeardBy(c, Exists', Closed')
    BY <1>0, <1>4, <2>1 DEF HeardBy, GatewayGoesOn
  <2> QED
    BY <1>0, <1>4, <2>1, <2>2, CalmMove
<1>5. CASE UNCHANGED call
  BY <1>0, <1>5, CalmMove
<1> QED
  BY <1>1, <1>2, <1>3, <1>4, <1>5

LEMMA CalmPoll ==
  ASSUME CalmInv, NEW w \in Workers, PollClaim(w)
  PROVE  CalmInv'
<1>1. UNCHANGED <<gateway, account, edits, hasId, status>>
  BY DEF PollClaim
<1>2. IsFinalPoll \in BOOLEAN /\ (pollCount' > PollOffsets + MaxFinalRetries) \in BOOLEAN
  BY DEF IsFinalPoll
<1>3. Become(w, [Idle EXCEPT !.pc = "read_refresh", !.final = IsFinalPoll,
                             !.lastTry = pollCount' > PollOffsets + MaxFinalRetries])
  BY Zenon DEF PollClaim
<1> HIDE DEF IsFinalPoll
<1>4. \E final, lastTry \in BOOLEAN :
        Become(w, [Idle EXCEPT !.pc = "read_refresh", !.final = final, !.lastTry = lastTry])
  BY <1>2, <1>3, Zenon
<1> QED
  BY <1>1, <1>4, CalmStarts

LEMMA CalmContinues ==
  ASSUME CalmInv, NEW w \in Workers,
         \/ CreateAnswered(w) \/ ApplyCreated(w) \/ DropCreated(w) \/ CancelAnswered(w)
         \/ RefreshRead(w) \/ FetchAnswered(w) \/ FinalCancelAnswered(w)
         \/ ApplyLinkState(w) \/ CloseLocally(w) \/ Emit(w) \/ Crash(w)
  PROVE  CalmInv'
<1>0. /\ call[w] \in Calls /\ HeardBy(call[w], Exists, Closed) /\ account # "gone"
      /\ gateway \in GatewayStatuses /\ (hasId => Exists) /\ (status = "expired" => Closed)
  BY CalmCalls DEF CalmInv, CalmTypes
<1>1. CASE CreateAnswered(w)
  <2>1. GatewayGoesOn /\ Exists'
    BY <1>0, <1>1 DEF CreateAnswered, GatewayGoesOn, Exists, Closed, GatewayStatuses
  <2>2. Saw(w, gateway', "created") /\ UNCHANGED <<edits, account, status, hasId>>
    BY <1>1 DEF CreateAnswered, row
  <2>3. \E c \in Calls : Become(w, c) /\ HeardBy(c, Exists', Closed')
    BY <2>1, <2>2, CalmSaw DEF PCs
  <2> QED
    BY <1>0, <2>1, <2>2, <2>3, CalmMove DEF GatewayGoesOn
<1>2. CASE ApplyCreated(w)
  <2>1. GatewayGoesOn /\ Exists /\ Exists' /\ UNCHANGED <<edits, account, gateway>>
    BY <1>0, <1>2, GatewayStays DEF ApplyCreated, HeardBy, At, Exists
  <2>2. status' \in {status, "created"}
    BY <1>2 DEF ApplyCreated, row
  <2>3. Return(w) \/ \E pc \in {"apply", "drop_call"} : Goto(w, pc)
    BY <1>2, Zenon DEF ApplyCreated
  <2>4. \E c \in Calls : Become(w, c) /\ HeardBy(c, Exists', Closed')
    BY <2>1, <2>3, CalmGoto, CalmReturn DEF PCs
  <2> QED
    BY <1>0, <2>1, <2>2, <2>4, CalmMove DEF GatewayGoesOn
<1>3. CASE DropCreated(w)
  <2>1. GatewayGoesOn /\ UNCHANGED <<edits, account, status, hasId>> /\ Return(w)
    BY <1>3, GatewayStays DEF DropCreated, CancelledThere, row
  <2> QED
    BY <1>0, <2>1, CalmReturn, CalmMove DEF GatewayGoesOn
<1>4. CASE CancelAnswered(w)
  <2>1. GatewayGoesOn /\ Saw(w, gateway', "apply") /\ UNCHANGED <<edits, account, status, hasId>>
    BY <1>4, GatewayStays DEF CancelAnswered, row
  <2>2. \E c \in Calls : Become(w, c) /\ HeardBy(c, Exists', Closed')
    BY <2>1, CalmSaw DEF PCs
  <2> QED
    BY <1>0, <2>1, <2>2, CalmMove DEF GatewayGoesOn
<1>5. CASE RefreshRead(w)
  <2>1. GatewayGoesOn /\ UNCHANGED <<edits, account, status, hasId, gateway>>
    BY <1>5, GatewayStays DEF RefreshRead, row
  <2>2. Return(w) \/ (hasId /\ Goto(w, "fetch_call"))
    BY <1>0, <1>5, Zenon DEF RefreshRead
  <2>3. \E c \in Calls : Become(w, c) /\ HeardBy(c, Exists', Closed')
    BY <1>0, <2>1, <2>2, CalmGoto, CalmReturn DEF PCs, GatewayGoesOn
  <2> QED
    BY <1>0, <2>1, <2>3, CalmMove DEF GatewayGoesOn
<1>6. CASE FetchAnswered(w)
  <2>1. GatewayGoesOn /\ Exists' /\ UNCHANGED <<edits, account, status, hasId, gateway>>
    BY <1>0, <1>6, GatewayStays DEF FetchAnswered, row, HeardBy, At, Exists
  <2>2. Saw(w, gateway', "final_cancel_call") \/ Saw(w, gateway', "apply")
    BY <1>6, <2>1, Zenon DEF FetchAnswered
  <2>3. \E c \in Calls : Become(w, c) /\ HeardBy(c, Exists', Closed')
    BY <2>1, <2>2, CalmSaw DEF PCs
  <2> QED
    BY <1>0, <2>1, <2>3, CalmMove DEF GatewayGoesOn
<1>7. CASE FinalCancelAnswered(w)
  <2>1. GatewayGoesOn /\ UNCHANGED <<edits, account, status, hasId>>
    BY <1>7, GatewayStays DEF FinalCancelAnswered, row
  <2>2. Closed'
    BY <1>0, <1>7 DEF FinalCancelAnswered, HeardBy, At, Exists, Closed, CancelledThere
  <2>3. Saw(w, gateway', "apply") \/ GotoAs(w, "close", "expired")
    BY <1>7, Zenon DEF FinalCancelAnswered
  <2>4. \E c \in Calls : Become(w, c) /\ HeardBy(c, Exists', Closed')
    BY <2>1, <2>2, <2>3, CalmSaw, CalmGotoAs DEF PCs, Announceable
  <2> QED
    BY <1>0, <2>1, <2>4, CalmMove DEF GatewayGoesOn
<1>8. CASE ApplyLinkState(w)
  <2>1. GatewayGoesOn /\ UNCHANGED <<edits, account, hasId, gateway>>
    BY <1>8, GatewayStays DEF ApplyLinkState
  <2>2. CASE Return(w) /\ UNCHANGED status
    BY <1>0, <2>1, <2>2, CalmReturn, CalmMove DEF GatewayGoesOn
  <2>3. CASE Settles(call[w].seen) /\ SettleRow(w, call[w].seen)
    <3>1. call[w].seen \in Announceable /\ status' = call[w].seen /\ GotoAs(w, "emit", call[w].seen)
      BY <2>3 DEF Settles, SettleRow
    <3>2. status' = "expired" => Closed'
      BY <1>0, <2>1, <3>1 DEF HeardBy, GatewayGoesOn
    <3>3. \E c \in Calls : Become(w, c) /\ HeardBy(c, Exists', Closed')
      BY <2>1, <3>1, CalmGotoAs
    <3> QED
      BY <1>0, <2>1, <3>2, <3>3, CalmMove DEF GatewayGoesOn
  <2> QED
    BY <1>8, <2>2, <2>3, Zenon DEF ApplyLinkState
<1>9. CASE CloseLocally(w)
  <2>1. GatewayGoesOn /\ UNCHANGED <<edits, account, hasId, gateway>>
    BY <1>9, GatewayStays DEF CloseLocally
  <2>2. CASE Return(w) /\ UNCHANGED status
    BY <1>0, <2>1, <2>2, CalmReturn, CalmMove DEF GatewayGoesOn
  <2>3. CASE SettleRow(w, call[w].as)
    <3>1. call[w].as \in Announceable /\ status' = call[w].as /\ GotoAs(w, "emit", call[w].as)
      BY <1>0, <2>3 DEF Calls, SettleRow
    <3>2. status' = "expired" => Closed'
      BY <1>0, <1>9, <2>1, <3>1 DEF HeardBy, GatewayGoesOn, CloseLocally, At
    <3>3. \E c \in Calls : Become(w, c) /\ HeardBy(c, Exists', Closed')
      BY <2>1, <3>1, CalmGotoAs
    <3> QED
      BY <1>0, <2>1, <3>2, <3>3, CalmMove DEF GatewayGoesOn
  <2> QED
    BY <1>9, <2>2, <2>3, Zenon DEF CloseLocally
<1>10. CASE Emit(w) \/ Crash(w)
  <2>1. Return(w) /\ UNCHANGED <<edits, account, status, hasId, gateway>>
    BY <1>10 DEF Emit, Crash, row
  <2>2. GatewayGoesOn
    BY <2>1, GatewayStays
  <2> QED
    BY <1>0, <2>1, <2>2, CalmReturn, CalmMove DEF GatewayGoesOn
<1> QED
  BY <1>1, <1>2, <1>3, <1>4, <1>5, <1>6, <1>7, <1>8, <1>9, <1>10

LEMMA CalmWorld ==
  ASSUME CalmInv, UNCHANGED <<call, edits, account, status, hasId>>,
         \/ gateway' = gateway
         \/ gateway \in {"created", "partial"} /\ gateway' \in GatewayStatuses \ {"none", "created"}
  PROVE  CalmInv'
<1>1. GatewayGoesOn
  BY DEF CalmInv, CalmTypes, GatewayGoesOn, Exists, Closed
<1> QED
  BY <1>1, CalmMove DEF CalmInv, GatewayGoesOn

LEMMA CalmStep ==
  ASSUME GatewayErrors = {}, AccountChanges = 0, CalmInv, [Next]_vars
  PROVE  CalmInv'
<1>1. ASSUME NEW w \in Workers, Start(w)
      PROVE  CalmInv'
  <2>1. CASE CreateStart(w) \/ RefreshStart(w)
    <3>1. /\ UNCHANGED <<gateway, account, edits, hasId>> /\ status' \in {status, "creating"}
          /\ \E pc \in {"create_call", "read_refresh"} : Goto(w, pc)
      BY <2>1 DEF CreateStart, RefreshStart, row
    <3> QED
      BY <3>1, CalmStarts
  <2>2. CASE CancelRead(w)
    <3>1. /\ UNCHANGED <<gateway, account, edits, hasId, status>>
          /\ GotoAs(w, "close", "cancelled") \/ Goto(w, "cancel_call")
      BY <2>2 DEF CancelRead, row
    <3> QED
      BY <3>1, CalmStarts
  <2>3. CASE PollClaim(w)
    BY <2>3, CalmPoll
  <2>4. CASE WebhookDelivered(w)
    <3>1. /\ UNCHANGED <<gateway, account, edits, hasId, status>> /\ Closed
          /\ \/ Become(w, [Idle EXCEPT !.pc = "apply", !.seen = gateway, !.hook = TRUE])
             \/ UNCHANGED call
      BY <2>4 DEF WebhookDelivered, row, Closed
    <3> QED
      BY <3>1, CalmStarts
  <2> QED
    BY <1>1, <2>1, <2>2, <2>3, <2>4 DEF Start
<1>2. ASSUME NEW w \in Workers, Continue(w) \/ Crash(w)
      PROVE  CalmInv'
  <2>1. ~(CreateRetryable(w) \/ CreateRefused(w) \/ CancelError(w) \/ FetchError(w) \/ FinalCancelError(w))
    BY DEF CreateRetryable, CreateRefused, CancelError, FetchError, FinalCancelError
  <2> QED
    BY <1>2, <2>1, CalmContinues DEF Continue
<1>3. CASE Environment
  <2>1. ~SellerEditsAccount
    BY DEF SellerEditsAccount, CalmInv, CalmTypes
  <2>2. CASE BuyerPays
    BY <2>2, PaymentsAssumption, CalmWorld DEF BuyerPays, AllPayments, GatewayStatuses, row
  <2>3. CASE GatewayCloses
    BY <2>3, CalmWorld DEF GatewayCloses, GatewayStatuses, row
  <2>4. CASE PollFallsDue \/ DeadlinePasses
    BY <2>4, CalmWorld DEF PollFallsDue, DeadlinePasses, row
  <2> QED
    BY <1>3, <2>1, <2>2, <2>3, <2>4 DEF Environment
<1>4. CASE UNCHANGED vars
  BY <1>4, CalmWorld DEF vars, row
<1> QED
  BY <1>1, <1>2, <1>3, <1>4 DEF Next

LEMMA CalmStarted ==
  ASSUME Init
  PROVE  CalmInv
<1>1. Idle \in Calls /\ HeardBy(Idle, Exists, Closed)
  BY DEF Idle, Calls, PCs, GatewayStatuses, Announceable, HeardBy
<1> QED
  BY <1>1 DEF Init, CalmInv, CalmTypes, GatewayStatuses

(* While the gateway answers every call and the seller keeps the account, a *)
(* link that is expired here can no longer be paid there, whoever creates,  *)
(* cancels, polls or hears of it at the same time, and whoever dies.        *)
THEOREM ExpiredStaysClosed ==
  ASSUME GatewayErrors = {}, AccountChanges = 0
  PROVE  Spec => []ExpiredIsClosedThere
<1>1. Init => CalmInv
  BY CalmStarted
<1>2. CalmInv /\ [Next]_vars => CalmInv'
  BY CalmStep
<1>3. CalmInv => ExpiredIsClosedThere
  BY DEF CalmInv, Closed, ExpiredIsClosedThere
<1> QED
  BY <1>1, <1>2, <1>3, PTL DEF Spec

-----------------------------------------------------------------------------
(* A calm behaviour of MCPaymentLink takes only steps of PaymentLink that    *)
(* meet no error and edit no account.                                        *)
LEMMA CalmSameContinue ==
  ASSUME NEW w \in Workers, Calm!Continue(w) \/ Calm!Crash(w)
  PROVE  \/ CreateAnswered(w) \/ ApplyCreated(w) \/ DropCreated(w) \/ CancelAnswered(w)
         \/ RefreshRead(w) \/ FetchAnswered(w) \/ FinalCancelAnswered(w)
         \/ ApplyLinkState(w) \/ CloseLocally(w) \/ Emit(w) \/ Crash(w)
<1>1. ~(\/ Calm!CreateRetryable(w) \/ Calm!CreateRefused(w) \/ Calm!CancelError(w)
        \/ Calm!FetchError(w) \/ Calm!FinalCancelError(w))
  BY DEF Calm!CreateRetryable, Calm!CreateRefused, Calm!CancelError, Calm!FetchError,
         Calm!FinalCancelError
<1>2. Calm!CreateAnswered(w) => CreateAnswered(w)
  BY DEF Calm!CreateAnswered, CreateAnswered, Calm!At, At, Calm!Saw, Saw, Calm!Become, Become,
         Calm!row, row, Calm!clock, clock
<1>3. Calm!ApplyCreated(w) => ApplyCreated(w)
  BY DEF Calm!ApplyCreated, ApplyCreated, Calm!At, At, Calm!Goto, Goto, Calm!Return, Return,
         Calm!Idle, Idle, Calm!Become, Become, Calm!row, row, Calm!clock, clock
<1>4. Calm!DropCreated(w) => DropCreated(w)
  BY DEF Calm!DropCreated, DropCreated, Calm!At, At, Calm!Return, Return, Calm!Idle, Idle,
         Calm!Become, Become, Calm!row, row, Calm!clock, clock
<1>5. Calm!CancelAnswered(w) => CancelAnswered(w)
  BY DEF Calm!CancelAnswered, CancelAnswered, Calm!CancelledThere, CancelledThere, Calm!At, At,
         Calm!Saw, Saw, Calm!Become, Become, Calm!row, row, Calm!clock, clock
<1>6. Calm!RefreshRead(w) => RefreshRead(w)
  BY DEF Calm!RefreshRead, RefreshRead, Calm!At, At, Calm!Goto, Goto, Calm!GotoAs, GotoAs,
         Calm!Return, Return, Calm!Idle, Idle, Calm!Become, Become, Calm!row, row, Calm!clock, clock,
         Calm!Terminal, Terminal
<1>7. Calm!FetchAnswered(w) => FetchAnswered(w)
  BY DEF Calm!FetchAnswered, FetchAnswered, Calm!At, At, Calm!Saw, Saw, Calm!Become, Become,
         Calm!row, row, Calm!clock, clock
<1>8. Calm!FinalCancelAnswered(w) => FinalCancelAnswered(w)
  BY DEF Calm!FinalCancelAnswered, FinalCancelAnswered, Calm!CancelledThere, CancelledThere,
         Calm!At, At, Calm!Saw, Saw, Calm!GotoAs, GotoAs, Calm!Become, Become, Calm!row, row,
         Calm!clock, clock
<1>9. Calm!ApplyLinkState(w) => ApplyLinkState(w)
  BY DEF Calm!ApplyLinkState, ApplyLinkState, Calm!Settles, Settles, Calm!SettleRow, SettleRow,
         Calm!MarkProcessed, MarkProcessed, Calm!Terminal, Terminal, Calm!Announceable, Announceable,
         Calm!At, At, Calm!GotoAs, GotoAs, Calm!Return, Return, Calm!Idle, Idle, Calm!Become, Become
<1>10. Calm!CloseLocally(w) => CloseLocally(w)
  BY DEF Calm!CloseLocally, CloseLocally, Calm!SettleRow, SettleRow, Calm!Terminal, Terminal,
         Calm!At, At, Calm!GotoAs, GotoAs, Calm!Return, Return, Calm!Idle, Idle, Calm!Become, Become
<1>11. Calm!Emit(w) => Emit(w)
  BY DEF Calm!Emit, Emit, Calm!MarkProcessed, MarkProcessed, Calm!At, At, Calm!Return, Return,
         Calm!Idle, Idle, Calm!Become, Become, Calm!row, row, Calm!clock, clock
<1>12. Calm!Crash(w) => Crash(w)
  BY DEF Calm!Crash, Crash, Calm!At, At, Calm!Return, Return, Calm!Idle, Idle, Calm!Become, Become,
         Calm!row, row, Calm!clock, clock
<1> QED
  BY <1>1, <1>2, <1>3, <1>4, <1>5, <1>6, <1>7, <1>8, <1>9, <1>10, <1>11, <1>12, Zenon
     DEF Calm!Continue

LEMMA CalmMCStep ==
  ASSUME CalmInv, Calm!Next
  PROVE  CalmInv'
<1>1. ASSUME NEW w \in Workers, Calm!Start(w)
      PROVE  CalmInv'
  <2>1. CASE Calm!CreateStart(w)
    <3>1. UNCHANGED <<gateway, account, edits, hasId>> /\ status' = "creating" /\ Goto(w, "create_call")
      BY <2>1 DEF Calm!CreateStart, Calm!Goto, Goto, Calm!Become, Become
    <3> QED
      BY <3>1, CalmStarts
  <2>2. CASE Calm!RefreshStart(w)
    <3>1. UNCHANGED <<gateway, account, edits, hasId, status>> /\ Goto(w, "read_refresh")
      BY <2>2 DEF Calm!RefreshStart, Calm!row, Calm!Goto, Goto, Calm!Become, Become
    <3> QED
      BY <3>1, CalmStarts
  <2>3. CASE Calm!PollClaim(w)
    <3>1. PollClaim(w)
      BY <2>3 DEF Calm!PollClaim, PollClaim, Calm!At, At, Calm!Become, Become, Calm!Idle, Idle,
                  Calm!IsFinalPoll, IsFinalPoll, Calm!PollCap, PollCap
    <3> QED
      BY <3>1, CalmPoll
  <2>4. CASE Calm!WebhookDelivered(w)
    <3>1. /\ UNCHANGED <<gateway, account, edits, hasId, status>> /\ Closed
          /\ \/ Become(w, [Idle EXCEPT !.pc = "apply", !.seen = gateway, !.hook = TRUE])
             \/ UNCHANGED call
      BY <2>4 DEF Calm!WebhookDelivered, Calm!row, Closed, Calm!Become, Become, Calm!Idle, Idle
    <3> QED
      BY <3>1, CalmStarts
  <2>5. ~Calm!CancelRead(w)
    BY DEF Calm!CancelRead
  <2> QED
    BY <1>1, <2>1, <2>2, <2>3, <2>4, <2>5 DEF Calm!Start
<1>2. ASSUME NEW w \in Workers, Calm!Continue(w) \/ Calm!Crash(w)
      PROVE  CalmInv'
  BY <1>2, CalmSameContinue, CalmContinues
<1>3. CASE Calm!Environment
  <2>1. ~Calm!SellerEditsAccount
    BY DEF Calm!SellerEditsAccount, CalmInv, CalmTypes
  <2>2. CASE Calm!BuyerPays
    BY <2>2, CalmWorld DEF Calm!BuyerPays, GatewayStatuses, Calm!row
  <2>3. CASE Calm!GatewayCloses
    BY <2>3, CalmWorld DEF Calm!GatewayCloses, GatewayStatuses, Calm!row
  <2>4. CASE Calm!PollFallsDue \/ Calm!DeadlinePasses
    BY <2>4, CalmWorld DEF Calm!PollFallsDue, Calm!DeadlinePasses, Calm!row
  <2> QED
    BY <1>3, <2>1, <2>2, <2>3, <2>4 DEF Calm!Environment
<1> QED
  BY <1>1, <1>2, <1>3 DEF Calm!Next

(* The same of the behaviours MCPaymentLink runs: in a calm one, a link that *)
(* is expired here can no longer be paid there, and it does not matter what  *)
(* an uncalm one does.                                                       *)
THEOREM CalmStaysClosed == MCSpec => []CalmExpiredIsClosedThere
<1> DEFINE MCInv == calm \in BOOLEAN /\ (calm => CalmInv)
<1>1. MCInit => MCInv
  BY CalmStarted DEF MCInit
<1>2. MCInv /\ [MCNext]_<<vars, calm>> => MCInv'
  <2> SUFFICES ASSUME MCInv, [MCNext]_<<vars, calm>> PROVE MCInv'
    OBVIOUS
  <2>1. CASE MCNext
    <3>1. calm' = calm /\ (calm => Calm!Next)
      BY <2>1 DEF MCNext
    <3> QED
      BY <3>1, CalmMCStep
  <2>2. CASE UNCHANGED <<vars, calm>>
    BY <2>2, CalmWorld DEF vars, row
  <2> QED
    BY <2>1, <2>2
<1>3. MCInv => CalmExpiredIsClosedThere
  BY DEF CalmInv, Closed, ExpiredIsClosedThere, CalmExpiredIsClosedThere
<1>4. MCSpec => MCInit /\ [][MCNext]_<<vars, calm>>
  BY DEF MCSpec
<1> HIDE DEF MCInv
<1> QED
  BY <1>1, <1>2, <1>3, <1>4, PTL
=============================================================================
