--------------------------- MODULE CheckoutProofs ---------------------------
(***************************************************************************)
(* CheckoutSaga for any number of requests, keys, deliveries and mishaps.  *)
(* The invariant says, for every step a request can be at, what inventory  *)
(* and payment were told (Progress), which status its order can have       *)
(* (Recorded) and which events were enqueued (Counted), and from which     *)
(* requests a cached answer or a confirmation can come (Sourced).  Once,   *)
(* Ahead and Marks say the same of the events in the outbox: how many, in  *)
(* which order, and which webhook deliveries may still send one.           *)
(***************************************************************************)
EXTENDS CheckoutSaga, FiniteSetTheorems, TLAPS

Paid == {"reserved", "charged"}
AfterConfirm == {"publishCreated", "publishCharged", "getOrder", "storeResult", "storeNil",
                 "created", "panicked"}
Stored == {"created", "panicked"}

Progress == \A r \in Requests :
    /\ pc[r] \in {"new", "tryLock", "reserve", "cached", "conflict"} => did[r] = {}
    /\ pc[r] \in {"create", "inserting", "charge"} => did[r] = {"reserved"}
    /\ pc[r] \in {"confirm", "undoCharge"} \cup AfterConfirm => did[r] = Paid
    /\ pc[r] \in {"undoCreate", "undoReserve"} =>
          did[r] \in {{"reserved"}, Paid \cup {"refunded"}}
    /\ pc[r] = "failed" =>
          did[r] \in {{}, {"reserved", "released"}, Paid \cup {"refunded", "released"}}
    /\ pc[r] = "dead" => did[r] \in {{}, {"reserved"}, Paid, Paid \cup {"refunded"}}

Recorded == \A r \in Requests :
    /\ orderStatus[r] = "confirmed" => pc[r] \in AfterConfirm
    /\ orderStatus[r] = "cancelled" => pc[r] \in {"undoReserve", "failed"}

Counted == \A r \in Requests :
    /\ pc[r] \notin AfterConfirm \cup {"dead"} =>
          /\ sent[<<"order.created", r>>] = 0
          /\ sent[<<"payment.charged", r>>] = 0
          /\ sent[<<"payment.confirmed", r>>] = 0
    /\ pc[r] = "publishCreated" => sent[<<"order.created", r>>] = 0
    /\ pc[r] \in {"publishCreated", "publishCharged"} => sent[<<"payment.charged", r>>] = 0
    /\ pc[r] \in AfterConfirm \ {"publishCreated"} => sent[<<"order.created", r>>] = 1
    /\ pc[r] \in AfterConfirm \ {"publishCreated", "publishCharged"} =>
          sent[<<"payment.charged", r>>] = 1
    /\ pc[r] = "dead" /\ sent[<<"payment.confirmed", r>>] > 0 => did[r] = Paid

Sourced ==
    /\ \A w \in Webhooks : hpc[w] = "send" => pc[OrderOf[w]] \in AfterConfirm
    /\ \A k \in Keys : cached[k] # NoOrder => KeyOf[cached[k]] = k /\ pc[cached[k]] \in Stored
    /\ \A r \in Requests : pc[r] = "cached" =>
          /\ echo[r] \in Requests
          /\ KeyOf[echo[r]] = KeyOf[r] /\ pc[echo[r]] \in Stored

Inv == SagaTypeOK /\ Progress /\ Recorded /\ Counted /\ Sourced

\* Inv holds in the initial states.
LEMMA Initially == SagaInit => Inv
<1> SUFFICES ASSUME SagaInit PROVE Inv
  OBVIOUS
<1>1. SagaTypeOK
  BY SizeAssumption DEF SagaInit, SagaTypeOK, Statuses, ChannelOK, CountsOK, BoundsOK
<1>2. Progress /\ Recorded
  BY DEF SagaInit, Progress, Recorded, AfterConfirm
<1>3. Counted
  BY DEF SagaInit, Counted, AfterConfirm, Events, EventTypes
<1>4. Sourced
  BY DEF SagaInit, Sourced
<1> QED
  BY <1>1, <1>2, <1>3, <1>4 DEF Inv

-----------------------------------------------------------------------------
(* Every step preserves the invariant *)

\* Each way a step may touch the counters of the model keeps them in their ranges.
LEMMA BoundsType ==
    SagaTypeOK => /\ UNCHANGED bounds => BoundsOK'
                  /\ Fault => BoundsOK'
                  /\ MayGoWrong /\ expiries' = expiries + 1 /\ UNCHANGED <<faults, crashes>> => BoundsOK'
                  /\ MayGoWrong /\ crashes' = crashes + 1 /\ UNCHANGED <<faults, expiries>> => BoundsOK'
BY SizeAssumption DEF SagaTypeOK, BoundsOK, bounds, Fault, MayGoWrong

\* A publication, a consumption or neither keeps the channel and the counts typed.
LEMMA EventsType ==
    ASSUME SagaTypeOK
    PROVE  /\ UNCHANGED events => ChannelOK' /\ CountsOK'
           /\ \A e \in Events : Send(e) => ChannelOK' /\ CountsOK'
           /\ ConsumeOutbox => ChannelOK' /\ CountsOK'
<1>1. UNCHANGED events => ChannelOK' /\ CountsOK'
  BY DEF SagaTypeOK, ChannelOK, CountsOK, events
<1>2. ASSUME NEW e \in Events, Send(e) PROVE ChannelOK' /\ CountsOK'
  <2>1. outbox \in Seq(Events) /\ Len(outbox) < OutboxCap /\ outbox' = Append(outbox, e)
    BY <1>2 DEF SagaTypeOK, ChannelOK, Send
  <2>2. ChannelOK'
    BY <2>1, SizeAssumption DEF ChannelOK
  <2>3. CountsOK'
    BY <1>2 DEF SagaTypeOK, CountsOK, Send
  <2> QED
    BY <2>2, <2>3
<1>3. ASSUME ConsumeOutbox PROVE ChannelOK' /\ CountsOK'
  <2>1. outbox \in Seq(Events) /\ outbox # <<>> /\ Len(outbox) <= OutboxCap /\ outbox' = Tail(outbox)
    BY <1>3 DEF SagaTypeOK, ChannelOK, ConsumeOutbox
  <2>2. ChannelOK'
    BY <2>1, SizeAssumption DEF ChannelOK
  <2>3. Head(outbox) \in Events
    BY <2>1
  <2>4. CountsOK'
    BY <1>3, <2>3 DEF SagaTypeOK, CountsOK, ConsumeOutbox
  <2> QED
    BY <2>2, <2>4
<1> QED
  BY <1>1, <1>2, <1>3

\* Every step keeps SagaTypeOK.
LEMMA TypeStep == SagaTypeOK /\ [SagaNext]_sagaVars => SagaTypeOK'
<1> SUFFICES ASSUME SagaTypeOK, [SagaNext]_sagaVars PROVE SagaTypeOK'
  OBVIOUS
<1> USE RequestAssumption, BoundsType, EventsType
<1> USE DEF SagaTypeOK, Steps, Answers, HookSteps, HookAnswers, Statuses, redis, events, bounds
<1>1. ASSUME NEW r \in Requests, GetResult(r) PROVE SagaTypeOK'
  BY <1>1 DEF GetResult, Goto
<1>2. ASSUME NEW r \in Requests, TryLock(r) PROVE SagaTypeOK'
  BY <1>2 DEF TryLock, Goto
<1>3. ASSUME NEW r \in Requests, ReserveInventory(r) PROVE SagaTypeOK'
  BY <1>3 DEF ReserveInventory, Goto, Tell
<1>4. ASSUME NEW r \in Requests, InsertOrder(r) PROVE SagaTypeOK'
  BY <1>4 DEF InsertOrder, Goto
<1>5. ASSUME NEW r \in Requests, OrderInserted(r) PROVE SagaTypeOK'
  BY <1>5 DEF OrderInserted, Goto
<1>6. ASSUME NEW r \in Requests, ChargePayment(r) PROVE SagaTypeOK'
  BY <1>6 DEF ChargePayment, Goto, Tell
<1>7. ASSUME NEW r \in Requests, ConfirmOrder(r) PROVE SagaTypeOK'
  BY <1>7 DEF ConfirmOrder, Goto, GetOrder, SetStatus
<1>8. ASSUME NEW r \in Requests, PublishEvents(r) PROVE SagaTypeOK'
  <2>1. <<"order.created", r>> \in Events /\ <<"payment.charged", r>> \in Events
    BY DEF Events, EventTypes
  <2> QED
    BY <1>8, <2>1 DEF PublishEvents, Goto
<1>9. ASSUME NEW r \in Requests, RefundPayment(r) PROVE SagaTypeOK'
  BY <1>9 DEF RefundPayment, Goto, Tell
<1>10. ASSUME NEW r \in Requests, CancelOrder(r) PROVE SagaTypeOK'
  BY <1>10 DEF CancelOrder, Goto, GetOrder, SetStatus
<1>11. ASSUME NEW r \in Requests, ReleaseInventory(r) PROVE SagaTypeOK'
  BY <1>11 DEF ReleaseInventory, Goto, Tell
<1>12. ASSUME NEW r \in Requests, FetchOrder(r) PROVE SagaTypeOK'
  BY <1>12 DEF FetchOrder, Goto, GetOrder
<1>13. ASSUME NEW r \in Requests, StoreResult(r) PROVE SagaTypeOK'
  BY <1>13 DEF StoreResult, Goto
<1>14. ASSUME NEW w \in Webhooks, IsWebhookProcessed(w) PROVE SagaTypeOK'
  BY <1>14 DEF IsWebhookProcessed, HookGoto
<1>15. ASSUME NEW w \in Webhooks, MarkWebhookProcessed(w) PROVE SagaTypeOK'
  BY <1>15 DEF MarkWebhookProcessed, HookGoto, MarkedNext
<1>16. ASSUME NEW w \in Webhooks, ConfirmPayment(w) PROVE SagaTypeOK'
  BY <1>16 DEF ConfirmPayment, HookGoto, GetOrder
<1>17. ASSUME NEW w \in Webhooks, SendConfirmation(w) PROVE SagaTypeOK'
  <2>1. <<"payment.confirmed", OrderOf[w]>> \in Events
    BY DEF Events, EventTypes
  <2> QED
    BY <1>17, <2>1 DEF SendConfirmation, HookGoto
<1>18. CASE ConsumeOutbox
  BY <1>18 DEF ConsumeOutbox
<1>19. CASE Expire
  BY <1>19 DEF Expire, MayGoWrong
<1>20. CASE Crash
  <2>1. ChannelOK'
    BY <1>20, SizeAssumption DEF Crash, ChannelOK
  <2>2. CountsOK' /\ BoundsOK'
    BY <1>20 DEF Crash, CountsOK
  <2> QED
    BY <1>20, <2>1, <2>2 DEF Crash
<1>21. CASE UNCHANGED sagaVars
  BY <1>21 DEF sagaVars
<1> QED
  BY <1>1, <1>2, <1>3, <1>4, <1>5, <1>6, <1>7, <1>8, <1>9, <1>10, <1>11, <1>12, <1>13, <1>14, <1>15, <1>16, <1>17, <1>18, <1>19, <1>20, <1>21
  DEF SagaNext, Checkout, Execute, Webhook

\* Every step keeps Progress.
LEMMA ProgressStep == SagaTypeOK /\ Progress /\ [SagaNext]_sagaVars => Progress'
<1> SUFFICES ASSUME SagaTypeOK /\ Progress, [SagaNext]_sagaVars PROVE Progress'
  OBVIOUS
<1>0. /\ pc \in [Requests -> {"new"} \cup Steps \cup Answers]
      /\ did \in [Requests -> SUBSET {"reserved", "released", "charged", "refunded"}]
  BY DEF SagaTypeOK
<1> USE <1>0
<1> USE DEF Progress, AfterConfirm, Paid, redis, events, bounds
<1>1. ASSUME NEW r \in Requests, GetResult(r) PROVE Progress'
  BY <1>1 DEF GetResult, Goto
<1>2. ASSUME NEW r \in Requests, TryLock(r) PROVE Progress'
  BY <1>2 DEF TryLock, Goto
<1>3. ASSUME NEW r \in Requests, ReserveInventory(r) PROVE Progress'
  BY <1>3 DEF ReserveInventory, Goto, Tell
<1>4. ASSUME NEW r \in Requests, InsertOrder(r) PROVE Progress'
  BY <1>4 DEF InsertOrder, Goto
<1>5. ASSUME NEW r \in Requests, OrderInserted(r) PROVE Progress'
  BY <1>5 DEF OrderInserted, Goto
<1>6. ASSUME NEW r \in Requests, ChargePayment(r) PROVE Progress'
  BY <1>6 DEF ChargePayment, Goto, Tell
<1>7. ASSUME NEW r \in Requests, ConfirmOrder(r) PROVE Progress'
  BY <1>7 DEF ConfirmOrder, Goto, GetOrder, SetStatus
<1>8. ASSUME NEW r \in Requests, PublishEvents(r) PROVE Progress'
  BY <1>8 DEF PublishEvents, Goto
<1>9. ASSUME NEW r \in Requests, RefundPayment(r) PROVE Progress'
  BY <1>9 DEF RefundPayment, Goto, Tell
<1>10. ASSUME NEW r \in Requests, CancelOrder(r) PROVE Progress'
  BY <1>10 DEF CancelOrder, Goto, GetOrder, SetStatus
<1>11. ASSUME NEW r \in Requests, ReleaseInventory(r) PROVE Progress'
  BY <1>11 DEF ReleaseInventory, Goto, Tell
<1>12. ASSUME NEW r \in Requests, FetchOrder(r) PROVE Progress'
  BY <1>12 DEF FetchOrder, Goto, GetOrder
<1>13. ASSUME NEW r \in Requests, StoreResult(r) PROVE Progress'
  BY <1>13 DEF StoreResult, Goto
<1>14. ASSUME NEW w \in Webhooks, IsWebhookProcessed(w) PROVE Progress'
  BY <1>14 DEF IsWebhookProcessed, HookGoto
<1>15. ASSUME NEW w \in Webhooks, MarkWebhookProcessed(w) PROVE Progress'
  BY <1>15 DEF MarkWebhookProcessed, HookGoto, MarkedNext
<1>16. ASSUME NEW w \in Webhooks, ConfirmPayment(w) PROVE Progress'
  BY <1>16 DEF ConfirmPayment, HookGoto, GetOrder
<1>17. ASSUME NEW w \in Webhooks, SendConfirmation(w) PROVE Progress'
  BY <1>17 DEF SendConfirmation, HookGoto
<1>18. CASE ConsumeOutbox
  BY <1>18 DEF ConsumeOutbox
<1>19. CASE Expire
  BY <1>19 DEF Expire, MayGoWrong
<1>20. CASE Crash
  BY <1>20 DEF Crash, Steps, Answers
<1>21. CASE UNCHANGED sagaVars
  BY <1>21 DEF sagaVars
<1> QED
  BY <1>1, <1>2, <1>3, <1>4, <1>5, <1>6, <1>7, <1>8, <1>9, <1>10, <1>11, <1>12, <1>13, <1>14, <1>15, <1>16, <1>17, <1>18, <1>19, <1>20, <1>21
  DEF SagaNext, Checkout, Execute, Webhook

\* Every step keeps Recorded.
LEMMA RecordedStep == SagaTypeOK /\ Recorded /\ [SagaNext]_sagaVars => Recorded'
<1> SUFFICES ASSUME SagaTypeOK /\ Recorded, [SagaNext]_sagaVars PROVE Recorded'
  OBVIOUS
<1>0. /\ pc \in [Requests -> {"new"} \cup Steps \cup Answers]
      /\ orderStatus \in [Requests -> Statuses]
  BY DEF SagaTypeOK
<1> USE <1>0
<1> USE DEF Recorded, AfterConfirm, redis, events, bounds
<1>1. ASSUME NEW r \in Requests, GetResult(r) PROVE Recorded'
  BY <1>1 DEF GetResult, Goto
<1>2. ASSUME NEW r \in Requests, TryLock(r) PROVE Recorded'
  BY <1>2 DEF TryLock, Goto
<1>3. ASSUME NEW r \in Requests, ReserveInventory(r) PROVE Recorded'
  BY <1>3 DEF ReserveInventory, Goto, Tell
<1>4. ASSUME NEW r \in Requests, InsertOrder(r) PROVE Recorded'
  BY <1>4 DEF InsertOrder, Goto
<1>5. ASSUME NEW r \in Requests, OrderInserted(r) PROVE Recorded'
  BY <1>5 DEF OrderInserted, Goto
<1>6. ASSUME NEW r \in Requests, ChargePayment(r) PROVE Recorded'
  BY <1>6 DEF ChargePayment, Goto, Tell
<1>7. ASSUME NEW r \in Requests, ConfirmOrder(r) PROVE Recorded'
  BY <1>7 DEF ConfirmOrder, Goto, GetOrder, SetStatus
<1>8. ASSUME NEW r \in Requests, PublishEvents(r) PROVE Recorded'
  BY <1>8 DEF PublishEvents, Goto
<1>9. ASSUME NEW r \in Requests, RefundPayment(r) PROVE Recorded'
  BY <1>9 DEF RefundPayment, Goto, Tell
<1>10. ASSUME NEW r \in Requests, CancelOrder(r) PROVE Recorded'
  BY <1>10 DEF CancelOrder, Goto, GetOrder, SetStatus
<1>11. ASSUME NEW r \in Requests, ReleaseInventory(r) PROVE Recorded'
  BY <1>11 DEF ReleaseInventory, Goto, Tell
<1>12. ASSUME NEW r \in Requests, FetchOrder(r) PROVE Recorded'
  BY <1>12 DEF FetchOrder, Goto, GetOrder
<1>13. ASSUME NEW r \in Requests, StoreResult(r) PROVE Recorded'
  BY <1>13 DEF StoreResult, Goto
<1>14. ASSUME NEW w \in Webhooks, IsWebhookProcessed(w) PROVE Recorded'
  BY <1>14 DEF IsWebhookProcessed, HookGoto
<1>15. ASSUME NEW w \in Webhooks, MarkWebhookProcessed(w) PROVE Recorded'
  BY <1>15 DEF MarkWebhookProcessed, HookGoto, MarkedNext
<1>16. ASSUME NEW w \in Webhooks, ConfirmPayment(w) PROVE Recorded'
  BY <1>16 DEF ConfirmPayment, HookGoto, GetOrder
<1>17. ASSUME NEW w \in Webhooks, SendConfirmation(w) PROVE Recorded'
  BY <1>17 DEF SendConfirmation, HookGoto
<1>18. CASE ConsumeOutbox
  BY <1>18 DEF ConsumeOutbox
<1>19. CASE Expire
  BY <1>19 DEF Expire, MayGoWrong
<1>20. CASE Crash
  BY <1>20 DEF Crash, MayGoWrong
<1>21. CASE UNCHANGED sagaVars
  BY <1>21 DEF sagaVars
<1> QED
  BY <1>1, <1>2, <1>3, <1>4, <1>5, <1>6, <1>7, <1>8, <1>9, <1>10, <1>11, <1>12, <1>13, <1>14, <1>15, <1>16, <1>17, <1>18, <1>19, <1>20, <1>21
  DEF SagaNext, Checkout, Execute, Webhook

\* Enqueueing one event leaves the counts of the others as they were.
LEMMA SendCounts ==
    ASSUME SagaTypeOK, NEW t \in EventTypes, NEW r \in Requests, Send(<<t, r>>)
    PROVE  /\ sent[<<t, r>>] \in Nat /\ sent'[<<t, r>>] = sent[<<t, r>>] + 1
           /\ \A u \in EventTypes, q \in Requests :
                 u # t \/ q # r => sent'[<<u, q>>] = sent[<<u, q>>]
<1>1. sent \in [Events -> Nat] /\ sent' = [sent EXCEPT ![<<t, r>>] = @ + 1]
  BY DEF SagaTypeOK, CountsOK, Send
<1>2. \A u \in EventTypes, q \in Requests : <<u, q>> \in Events
  BY DEF Events
<1>3. sent[<<t, r>>] \in Nat /\ sent'[<<t, r>>] = sent[<<t, r>>] + 1
  BY <1>1, <1>2
<1>4. ASSUME NEW u \in EventTypes, NEW q \in Requests, u # t \/ q # r
      PROVE  sent'[<<u, q>>] = sent[<<u, q>>]
  <2>1. <<u, q>> # <<t, r>>
    BY <1>4
  <2> QED
    BY <1>1, <1>2, <2>1
<1> QED
  BY <1>3, <1>4

\* Every step keeps Counted.
LEMMA CountedStep == Inv /\ [SagaNext]_sagaVars => Counted'
<1> SUFFICES ASSUME Inv, [SagaNext]_sagaVars PROVE Counted'
  OBVIOUS
<1>0. /\ pc \in [Requests -> {"new"} \cup Steps \cup Answers]
      /\ did \in [Requests -> SUBSET {"reserved", "released", "charged", "refunded"}]
      /\ SagaTypeOK /\ Progress /\ Counted
  BY DEF Inv, SagaTypeOK
<1> USE <1>0
<1> USE DEF Counted, AfterConfirm, Paid, redis, events, bounds
<1>1. ASSUME NEW r \in Requests, GetResult(r) PROVE Counted'
  BY ZenonT(60), <1>1 DEF GetResult, Goto
<1>2. ASSUME NEW r \in Requests, TryLock(r) PROVE Counted'
  BY ZenonT(60), <1>2 DEF TryLock, Goto
<1>3. ASSUME NEW r \in Requests, ReserveInventory(r) PROVE Counted'
  BY ZenonT(60), <1>3 DEF ReserveInventory, Goto, Tell
<1>4. ASSUME NEW r \in Requests, InsertOrder(r) PROVE Counted'
  BY <1>4 DEF InsertOrder, Goto
<1>5. ASSUME NEW r \in Requests, OrderInserted(r) PROVE Counted'
  BY <1>5 DEF OrderInserted, Goto
<1>6. ASSUME NEW r \in Requests, ChargePayment(r) PROVE Counted'
  BY ZenonT(60), <1>6 DEF ChargePayment, Goto, Tell
<1>7. ASSUME NEW r \in Requests, ConfirmOrder(r) PROVE Counted'
  BY ZenonT(60), <1>7 DEF ConfirmOrder, Goto, GetOrder, SetStatus
<1>8. ASSUME NEW r \in Requests, PublishEvents(r) PROVE Counted'
  <2>1. {"order.created", "payment.charged", "payment.confirmed"} \subseteq EventTypes
    BY DEF EventTypes
  <2>2. CASE Goto(r, "publishCreated", "publishCharged") /\ Send(<<"order.created", r>>)
    <3>1. /\ sent'[<<"order.created", r>>] = sent[<<"order.created", r>>] + 1
          /\ \A u \in EventTypes, q \in Requests :
                u # "order.created" \/ q # r => sent'[<<u, q>>] = sent[<<u, q>>]
      BY ZenonT(60), <2>1, <2>2, SendCounts, <1>0
    <3>2. \A q \in Requests :
            /\ q # r => sent'[<<"order.created", q>>] = sent[<<"order.created", q>>]
            /\ sent'[<<"payment.charged", q>>] = sent[<<"payment.charged", q>>]
            /\ sent'[<<"payment.confirmed", q>>] = sent[<<"payment.confirmed", q>>]
      BY <2>1, <3>1
    <3>3. sent[<<"order.created", r>>] = 0
      BY <1>0, <2>2 DEF Counted, Goto
    <3>4. sent'[<<"order.created", r>>] = 1
      BY <3>1, <3>3
    <3> QED
      BY ZenonT(60), <1>8, <2>2, <3>2, <3>4 DEF PublishEvents, Goto
  <2>3. CASE Goto(r, "publishCharged", "getOrder") /\ Send(<<"payment.charged", r>>)
    <3>1. /\ sent'[<<"payment.charged", r>>] = sent[<<"payment.charged", r>>] + 1
          /\ \A u \in EventTypes, q \in Requests :
                u # "payment.charged" \/ q # r => sent'[<<u, q>>] = sent[<<u, q>>]
      BY ZenonT(60), <2>1, <2>3, SendCounts, <1>0
    <3>2. \A q \in Requests :
            /\ sent'[<<"order.created", q>>] = sent[<<"order.created", q>>]
            /\ q # r => sent'[<<"payment.charged", q>>] = sent[<<"payment.charged", q>>]
            /\ sent'[<<"payment.confirmed", q>>] = sent[<<"payment.confirmed", q>>]
      BY <2>1, <3>1
    <3>3. sent[<<"payment.charged", r>>] = 0
      BY <1>0, <2>3 DEF Counted, Goto
    <3>4. sent'[<<"payment.charged", r>>] = 1
      BY <3>1, <3>3
    <3> QED
      BY ZenonT(60), <1>8, <2>3, <3>2, <3>4 DEF PublishEvents, Goto
  <2> QED
    BY <1>8, <2>2, <2>3 DEF PublishEvents
<1>9. ASSUME NEW r \in Requests, RefundPayment(r) PROVE Counted'
  BY <1>9 DEF RefundPayment, Goto, Tell
<1>10. ASSUME NEW r \in Requests, CancelOrder(r) PROVE Counted'
  BY <1>10 DEF CancelOrder, Goto, GetOrder, SetStatus
<1>11. ASSUME NEW r \in Requests, ReleaseInventory(r) PROVE Counted'
  BY <1>11 DEF ReleaseInventory, Goto, Tell
<1>12. ASSUME NEW r \in Requests, FetchOrder(r) PROVE Counted'
  BY ZenonT(60), <1>12 DEF FetchOrder, Goto, GetOrder
<1>13. ASSUME NEW r \in Requests, StoreResult(r) PROVE Counted'
  BY ZenonT(60), <1>13 DEF StoreResult, Goto
<1>14. ASSUME NEW w \in Webhooks, IsWebhookProcessed(w) PROVE Counted'
  BY <1>14 DEF IsWebhookProcessed, HookGoto
<1>15. ASSUME NEW w \in Webhooks, MarkWebhookProcessed(w) PROVE Counted'
  BY <1>15 DEF MarkWebhookProcessed, HookGoto, MarkedNext
<1>16. ASSUME NEW w \in Webhooks, ConfirmPayment(w) PROVE Counted'
  BY <1>16 DEF ConfirmPayment, HookGoto, GetOrder
<1>17. ASSUME NEW w \in Webhooks, SendConfirmation(w) PROVE Counted'
  <2>1. {"order.created", "payment.charged", "payment.confirmed"} \subseteq EventTypes
    BY DEF EventTypes
  <2>2. OrderOf[w] \in Requests /\ pc[OrderOf[w]] \in AfterConfirm
    BY <1>17, RequestAssumption DEF Inv, Sourced, SendConfirmation, HookGoto
  <2>3. \A u \in EventTypes, q \in Requests :
            u # "payment.confirmed" \/ q # OrderOf[w] => sent'[<<u, q>>] = sent[<<u, q>>]
    BY <1>17, <2>1, <2>2, SendCounts DEF SendConfirmation
  <2>4. \A q \in Requests :
          /\ sent'[<<"order.created", q>>] = sent[<<"order.created", q>>]
          /\ sent'[<<"payment.charged", q>>] = sent[<<"payment.charged", q>>]
          /\ q # OrderOf[w] => sent'[<<"payment.confirmed", q>>] = sent[<<"payment.confirmed", q>>]
    BY <2>1, <2>3
  <2> QED
    BY <1>17, <2>2, <2>4 DEF SendConfirmation
<1>18. CASE ConsumeOutbox
  BY <1>18 DEF ConsumeOutbox
<1>19. CASE Expire
  BY <1>19 DEF Expire, MayGoWrong
<1>20. CASE Crash
  <2>1. ASSUME NEW r \in Requests, pc[r] \notin AfterConfirm \cup {"dead"}
        PROVE  ~(sent[<<"payment.confirmed", r>>] > 0)
    <3>1. sent[<<"payment.confirmed", r>>] = 0
      BY <1>0, <2>1 DEF Counted
    <3> QED
      BY <3>1
  <2>2. \A r \in Requests : sent[<<"payment.confirmed", r>>] > 0 => did[r] = Paid
    BY <1>0, <2>1 DEF Counted, Progress
  <2> QED
    BY <1>20, <2>2 DEF Crash, Steps
<1>21. CASE UNCHANGED sagaVars
  BY <1>21 DEF sagaVars
<1> QED
  BY <1>1, <1>2, <1>3, <1>4, <1>5, <1>6, <1>7, <1>8, <1>9, <1>10, <1>11, <1>12, <1>13, <1>14, <1>15, <1>16, <1>17, <1>18, <1>19, <1>20, <1>21
  DEF SagaNext, Checkout, Execute, Webhook

\* Every step keeps Sourced.
LEMMA SourcedStep == Inv /\ [SagaNext]_sagaVars => Sourced'
<1> SUFFICES ASSUME Inv, [SagaNext]_sagaVars PROVE Sourced'
  OBVIOUS
<1>0. /\ pc \in [Requests -> {"new"} \cup Steps \cup Answers]
      /\ hpc \in [Webhooks -> {"new"} \cup HookSteps \cup HookAnswers]
      /\ cached \in [Keys -> Requests \cup {NoOrder}]
      /\ echo \in [Requests -> Requests \cup {NoOrder}]
      /\ Recorded /\ Sourced
  BY DEF Inv, SagaTypeOK
<1> USE <1>0, RequestAssumption
<1> USE DEF Sourced, AfterConfirm, Stored, redis, events, bounds
<1>1. ASSUME NEW r \in Requests, GetResult(r) PROVE Sourced'
  BY <1>1 DEF GetResult, Goto
<1>2. ASSUME NEW r \in Requests, TryLock(r) PROVE Sourced'
  BY <1>2 DEF TryLock, Goto
<1>3. ASSUME NEW r \in Requests, ReserveInventory(r) PROVE Sourced'
  BY <1>3 DEF ReserveInventory, Goto, Tell
<1>4. ASSUME NEW r \in Requests, InsertOrder(r) PROVE Sourced'
  BY <1>4 DEF InsertOrder, Goto
<1>5. ASSUME NEW r \in Requests, OrderInserted(r) PROVE Sourced'
  BY <1>5 DEF OrderInserted, Goto
<1>6. ASSUME NEW r \in Requests, ChargePayment(r) PROVE Sourced'
  BY <1>6 DEF ChargePayment, Goto, Tell
<1>7. ASSUME NEW r \in Requests, ConfirmOrder(r) PROVE Sourced'
  BY <1>7 DEF ConfirmOrder, Goto, GetOrder, SetStatus
<1>8. ASSUME NEW r \in Requests, PublishEvents(r) PROVE Sourced'
  BY <1>8 DEF PublishEvents, Goto
<1>9. ASSUME NEW r \in Requests, RefundPayment(r) PROVE Sourced'
  BY <1>9 DEF RefundPayment, Goto, Tell
<1>10. ASSUME NEW r \in Requests, CancelOrder(r) PROVE Sourced'
  BY <1>10 DEF CancelOrder, Goto, GetOrder, SetStatus
<1>11. ASSUME NEW r \in Requests, ReleaseInventory(r) PROVE Sourced'
  BY <1>11 DEF ReleaseInventory, Goto, Tell
<1>12. ASSUME NEW r \in Requests, FetchOrder(r) PROVE Sourced'
  BY <1>12 DEF FetchOrder, Goto, GetOrder
<1>13. ASSUME NEW r \in Requests, StoreResult(r) PROVE Sourced'
  BY <1>13 DEF StoreResult, Goto
<1>14. ASSUME NEW w \in Webhooks, IsWebhookProcessed(w) PROVE Sourced'
  BY <1>14 DEF IsWebhookProcessed, HookGoto
<1>15. ASSUME NEW w \in Webhooks, MarkWebhookProcessed(w) PROVE Sourced'
  BY <1>15 DEF MarkWebhookProcessed, HookGoto, MarkedNext
<1>16. ASSUME NEW w \in Webhooks, ConfirmPayment(w) PROVE Sourced'
  <2>1. hpc'[w] = "send" => orderStatus[OrderOf[w]] = "confirmed"
    BY <1>16 DEF ConfirmPayment, HookGoto, GetOrder
  <2>2. hpc'[w] = "send" => pc[OrderOf[w]] \in AfterConfirm
    BY <2>1 DEF Recorded
  <2> QED
    BY <1>16, <2>2 DEF ConfirmPayment, HookGoto
<1>17. ASSUME NEW w \in Webhooks, SendConfirmation(w) PROVE Sourced'
  BY <1>17 DEF SendConfirmation, HookGoto
<1>18. CASE ConsumeOutbox
  BY <1>18 DEF ConsumeOutbox
<1>19. CASE Expire
  BY <1>19 DEF Expire, MayGoWrong
<1>20. CASE Crash
  BY <1>20 DEF Crash, Steps, HookSteps
<1>21. CASE UNCHANGED sagaVars
  BY <1>21 DEF sagaVars
<1> QED
  BY <1>1, <1>2, <1>3, <1>4, <1>5, <1>6, <1>7, <1>8, <1>9, <1>10, <1>11, <1>12, <1>13, <1>14, <1>15, <1>16, <1>17, <1>18, <1>19, <1>20, <1>21
  DEF SagaNext, Checkout, Execute, Webhook

\* The invariant holds in every state of every behaviour.
LEMMA Invariance == SagaSpec => []Inv
<1>1. Inv /\ [SagaNext]_sagaVars => Inv'
  BY TypeStep, ProgressStep, RecordedStep, CountedStep, SourcedStep DEF Inv
<1> QED
  BY Initially, <1>1, PTL DEF SagaSpec

-----------------------------------------------------------------------------
(* What follows *)

\* The types of CheckoutSaga, and the capacity of its channel.
THEOREM TypeCorrect == SagaSpec => []SagaTypeOK
<1>1. Inv => SagaTypeOK
  BY DEF Inv
<1> QED
  BY <1>1, Invariance, PTL

\* SagaOrchestrator.Execute: a failed checkout is undone in full.
THEOREM FailuresAreUndone == SagaSpec => []FailureIsUndone
<1>1. Inv => FailureIsUndone
  BY DEF Inv, Progress, Recorded, Counted, FailureIsUndone, StockHeld, Charged, AfterConfirm, Paid, EventTypes
<1> QED
  BY <1>1, Invariance, PTL

\* The order of steps and compensations: nobody pays for what is not held.
THEOREM PaymentsAreHeld == SagaSpec => []PaidIsHeld
<1>1. Inv => PaidIsHeld
  <2> SUFFICES ASSUME Inv, NEW r \in Requests, Charged(r)
               PROVE  StockHeld(r) /\ orderStatus[r] # "cancelled"
    BY DEF PaidIsHeld
  <2>1. pc[r] \in {"new"} \cup Steps \cup Answers
    BY DEF Inv, SagaTypeOK
  <2>2. pc[r] \notin {"undoReserve", "failed"} /\ did[r] = Paid
    BY <2>1 DEF Inv, Progress, Charged, AfterConfirm, Paid, Steps, Answers
  <2> QED
    BY <2>2 DEF Inv, Recorded, StockHeld, Paid
<1> QED
  BY <1>1, Invariance, PTL

\* ConfirmPayment against a saga that is rolled back.
THEOREM ConfirmationsStand == SagaSpec => []ConfirmedPaymentStands
<1>1. Inv => ConfirmedPaymentStands
  <2> SUFFICES ASSUME Inv, NEW r \in Requests, sent[<<"payment.confirmed", r>>] > 0
               PROVE  Charged(r) /\ pc[r] # "failed" /\ orderStatus[r] # "cancelled"
    BY DEF ConfirmedPaymentStands
  <2>1. sent[<<"payment.confirmed", r>>] # 0
    OBVIOUS
  <2>2. pc[r] \in AfterConfirm \cup {"dead"}
    BY <2>1 DEF Inv, Counted
  <2>3. did[r] = Paid
    BY <2>2 DEF Inv, Progress, Counted
  <2> QED
    BY <2>2, <2>3 DEF Inv, Recorded, Charged, Paid, AfterConfirm
<1> QED
  BY <1>1, Invariance, PTL

\* StoreResult and GetResult: a cached answer is that of a paid order of its key.
THEOREM EchoesAreGenuine == SagaSpec => []EchoIsGenuine
<1>1. Inv => EchoIsGenuine
  <2> SUFFICES ASSUME Inv, NEW r \in Requests, pc[r] = "cached"
               PROVE  /\ KeyOf[echo[r]] = KeyOf[r]
                      /\ Charged(echo[r])
                      /\ sent[<<"payment.charged", echo[r]>>] = 1
    BY DEF EchoIsGenuine
  <2>1. echo[r] \in Requests /\ KeyOf[echo[r]] = KeyOf[r] /\ pc[echo[r]] \in Stored
    BY DEF Inv, Sourced
  <2>2. did[echo[r]] = Paid
    BY <2>1 DEF Inv, Progress, Stored, AfterConfirm
  <2>3. sent[<<"payment.charged", echo[r]>>] = 1
    BY <2>1 DEF Inv, Counted, Stored, AfterConfirm
  <2> QED
    BY <2>1, <2>2, <2>3 DEF Charged, Paid
<1> QED
  BY <1>1, Invariance, PTL

-----------------------------------------------------------------------------
(* The order of events *)

\* An event of a request enters the channel once and leaves it once.
InQueue(e) == \E i \in 1..Len(outbox) : outbox[i] = e
Once(e) ==
    /\ sent[e] = 0 => consumed[e] = 0 /\ ~InQueue(e)
    /\ consumed[e] <= 1
    /\ consumed[e] = 1 => ~InQueue(e)
    /\ \A i, j \in 1..Len(outbox) : outbox[i] = e /\ outbox[j] = e => i = j

\* Whenever the charge of r is in the channel or about to enter it, its creation
\* is ahead of it or consumed.
Ahead(r) ==
    /\ \A i \in 1..Len(outbox) : outbox[i] = <<"payment.charged", r>> =>
          \/ consumed[<<"order.created", r>>] = 1
          \/ \E j \in 1..Len(outbox) : j < i /\ outbox[j] = <<"order.created", r>>
    /\ pc[r] = "publishCharged" =>
          consumed[<<"order.created", r>>] = 1 \/ InQueue(<<"order.created", r>>)
    /\ consumed[<<"payment.charged", r>>] <= consumed[<<"order.created", r>>]

Ordered == \A r \in Requests :
    Once(<<"order.created", r>>) /\ Once(<<"payment.charged", r>>) /\ Ahead(r)

-----------------------------------------------------------------------------
(* The number of confirmations *)

\* The deliveries about r that passed the mark and have not answered.
Confirming(r) == {w \in Webhooks : OrderOf[w] = r /\ hpc[w] \in {"confirm", "send"}}

\* Each of them, and each confirmation sent, had its own mark, failure or expiry.
Marks == \A r \in Requests :
    /\ IsFiniteSet(Confirming(r))
    /\ sent[<<"payment.confirmed", r>>] + Cardinality(Confirming(r))
          <= faults + expiries + (IF r \in marked THEN 1 ELSE 0)

-----------------------------------------------------------------------------
(* Events stay in order *)

\* The three events of a request are events.
LEMMA EventNames ==
    \A r \in Requests :
        /\ <<"order.created", r>> \in Events /\ <<"payment.charged", r>> \in Events
        /\ <<"payment.confirmed", r>> \in Events
BY DEF Events, EventTypes

\* Send adds at the end, the consumer takes from the front.
LEMMA SendQueue ==
    ASSUME SagaTypeOK, NEW e \in Events, Send(e)
    PROVE  /\ Len(outbox) \in Nat /\ Len(outbox') = Len(outbox) + 1
           /\ \A i \in 1..Len(outbox) : outbox'[i] = outbox[i]
           /\ outbox'[Len(outbox) + 1] = e
           /\ UNCHANGED consumed /\ consumed \in [Events -> Nat]
           /\ sent \in [Events -> Nat] /\ sent' = [sent EXCEPT ![e] = @ + 1]
<1>1. outbox \in Seq(Events) /\ outbox' = Append(outbox, e)
  BY DEF SagaTypeOK, ChannelOK, Send
<1> QED
  BY <1>1 DEF SagaTypeOK, CountsOK, Send

\* What the consumer does to the channel: the head goes, the rest moves up one place.
LEMMA ConsumeQueue ==
    ASSUME SagaTypeOK, ConsumeOutbox
    PROVE  /\ Len(outbox) \in Nat \ {0} /\ Len(outbox') = Len(outbox) - 1
           /\ \A i \in 1..Len(outbox') : outbox'[i] = outbox[i + 1]
           /\ outbox[1] \in Events
           /\ consumed \in [Events -> Nat] /\ consumed' = [consumed EXCEPT ![outbox[1]] = @ + 1]
           /\ UNCHANGED <<sent, pc>> /\ sent \in [Events -> Nat]
<1>1. outbox \in Seq(Events) /\ outbox # <<>> /\ outbox' = Tail(outbox) /\ Head(outbox) = outbox[1]
  BY DEF SagaTypeOK, ChannelOK, ConsumeOutbox
<1>2. /\ Len(outbox) \in Nat \ {0} /\ Len(outbox') = Len(outbox) - 1
      /\ \A i \in 1..Len(outbox') : outbox'[i] = outbox[i + 1]
      /\ outbox[1] \in Events
  BY <1>1
<1> QED
  BY <1>1, <1>2 DEF SagaTypeOK, CountsOK, ConsumeOutbox

\* Publishing an event leaves each event sent, queued and consumed at most once.
LEMMA OnceSent ==
    ASSUME SagaTypeOK, NEW d \in Events, NEW e \in Events, Send(e), Once(d), d = e => sent[d] = 0
    PROVE  Once(d)'
<1>1. CASE d = e
  <2>1. consumed'[d] = 0 /\ sent'[d] = 1 /\ \A i \in 1..Len(outbox) : outbox[i] # d
    BY <1>1, SendQueue DEF Once, InQueue
  <2>2. \A i \in 1..Len(outbox') : outbox'[i] = d => i = Len(outbox) + 1
    BY <2>1, SendQueue
  <2> QED
    BY <2>1, <2>2 DEF Once, InQueue
<1>2. CASE d # e
  <2>1. consumed'[d] = consumed[d] /\ sent'[d] = sent[d]
    BY <1>2, SendQueue
  <2>2. \A i \in 1..Len(outbox') : outbox'[i] = d => i \in 1..Len(outbox) /\ outbox[i] = d
    BY <1>2, SendQueue
  <2> QED
    BY <2>1, <2>2 DEF Once, InQueue
<1> QED
  BY <1>1, <1>2

\* Consuming an event leaves each event sent, queued and consumed at most once.
LEMMA OnceConsumed ==
    ASSUME SagaTypeOK, NEW d \in Events, ConsumeOutbox, Once(d)
    PROVE  Once(d)'
<1>1. /\ consumed[d] \in Nat /\ sent'[d] = sent[d]
      /\ \A i \in 1..Len(outbox') : i + 1 \in 1..Len(outbox) /\ outbox'[i] = outbox[i + 1]
  BY ConsumeQueue
<1>2. CASE outbox[1] = d
  <2>1. InQueue(d) /\ consumed'[d] = consumed[d] + 1 /\ 1 \in 1..Len(outbox)
    BY <1>2, ConsumeQueue DEF InQueue
  <2>2. sent[d] # 0 /\ consumed'[d] = 1
    BY <1>1, <2>1 DEF Once
  <2>3. \A i \in 1..Len(outbox') : outbox'[i] # d
    <3>1. \A i \in 1..Len(outbox') : outbox[i + 1] = d => i + 1 = 1
      BY <1>1, <1>2, <2>1 DEF Once
    <3> QED
      BY <1>1, <3>1
  <2> QED
    BY <1>1, <2>2, <2>3 DEF Once, InQueue
<1>3. CASE outbox[1] # d
  <2>1. consumed'[d] = consumed[d]
    BY <1>3, ConsumeQueue
  <2>2. \A i, j \in 1..Len(outbox') : outbox'[i] = d /\ outbox'[j] = d => i = j
    <3>1. \A i, j \in 1..Len(outbox') : outbox[i + 1] = d /\ outbox[j + 1] = d => i + 1 = j + 1
      BY <1>1 DEF Once
    <3> QED
      BY <1>1, <3>1
  <2>3. InQueue(d)' => InQueue(d)
    BY <1>1 DEF InQueue
  <2> QED
    BY <1>1, <2>1, <2>2, <2>3 DEF Once
<1> QED
  BY <1>2, <1>3

\* Publishing keeps the creation of an order ahead of its charge.
LEMMA AheadSent ==
    ASSUME SagaTypeOK, NEW r \in Requests, NEW e \in Events, Send(e), Ahead(r),
           e = <<"payment.charged", r>> =>
              consumed[<<"order.created", r>>] = 1 \/ InQueue(<<"order.created", r>>),
           pc'[r] = "publishCharged" => pc[r] = "publishCharged" \/ e = <<"order.created", r>>
    PROVE  Ahead(r)'
<1> DEFINE c == <<"order.created", r>>
           p == <<"payment.charged", r>>
<1>0. c \in Events /\ p \in Events
  BY EventNames
<1>d. /\ Ahead(r) <=>
           /\ \A i \in 1..Len(outbox) : outbox[i] = p =>
                 consumed[c] = 1 \/ \E j \in 1..Len(outbox) : j < i /\ outbox[j] = c
           /\ pc[r] = "publishCharged" => consumed[c] = 1 \/ InQueue(c)
           /\ consumed[p] <= consumed[c]
      /\ Ahead(r)' <=>
           /\ \A i \in 1..Len(outbox') : outbox'[i] = p =>
                 consumed'[c] = 1 \/ \E j \in 1..Len(outbox') : j < i /\ outbox'[j] = c
           /\ pc'[r] = "publishCharged" => consumed'[c] = 1 \/ InQueue(c)'
           /\ consumed'[p] <= consumed'[c]
      /\ e = p => consumed[c] = 1 \/ InQueue(c)
      /\ pc'[r] = "publishCharged" => pc[r] = "publishCharged" \/ e = c
  BY DEF Ahead
<1> HIDE DEF c, p
<1>1. consumed' = consumed /\ Len(outbox) \in Nat /\ Len(outbox') = Len(outbox) + 1
      /\ outbox'[Len(outbox) + 1] = e /\ \A i \in 1..Len(outbox) : outbox'[i] = outbox[i]
  BY SendQueue
<1>2. InQueue(c) => InQueue(c)'
  BY <1>1 DEF InQueue
<1>3. ASSUME NEW i \in 1..Len(outbox'), outbox'[i] = p
      PROVE  consumed'[c] = 1 \/ \E j \in 1..Len(outbox') : j < i /\ outbox'[j] = c
  <2>1. CASE i \in 1..Len(outbox)
    <3>1. consumed[c] = 1 \/ \E j \in 1..Len(outbox) : j < i /\ outbox[j] = c
      BY <1>1, <1>3, <1>d, <2>1
    <3> QED
      BY <1>1, <3>1
  <2>2. CASE i = Len(outbox) + 1
    <3>1. consumed[c] = 1 \/ InQueue(c)
      BY <1>1, <1>3, <1>d, <2>2
    <3> QED
      BY <1>1, <2>2, <3>1 DEF InQueue
  <2> QED
    BY <1>1, <2>1, <2>2
<1>4. e = c => InQueue(c)'
  BY <1>1 DEF InQueue
<1> QED
  BY <1>1, <1>2, <1>3, <1>4, <1>d

\* Consuming keeps the creation of an order ahead of its charge.
LEMMA AheadConsumed ==
    ASSUME SagaTypeOK, NEW r \in Requests, ConsumeOutbox, Ahead(r),
           Once(<<"order.created", r>>), Once(<<"payment.charged", r>>)
    PROVE  Ahead(r)'
<1> DEFINE c == <<"order.created", r>>
           p == <<"payment.charged", r>>
<1>0. c \in Events /\ p \in Events /\ c # p
  BY EventNames
<1>d. /\ \A i \in 1..Len(outbox) : outbox[i] = p =>
           consumed[c] = 1 \/ \E j \in 1..Len(outbox) : j < i /\ outbox[j] = c
      /\ pc[r] = "publishCharged" => consumed[c] = 1 \/ InQueue(c)
      /\ consumed[p] <= consumed[c]
      /\ Once(c) /\ Once(p)
      /\ Ahead(r)' <=>
           /\ \A i \in 1..Len(outbox') : outbox'[i] = p =>
                 consumed'[c] = 1 \/ \E j \in 1..Len(outbox') : j < i /\ outbox'[j] = c
           /\ pc'[r] = "publishCharged" => consumed'[c] = 1 \/ InQueue(c)'
           /\ consumed'[p] <= consumed'[c]
  BY DEF Ahead
<1> HIDE DEF c, p
<1>1. /\ Len(outbox) \in Nat \ {0} /\ Len(outbox') = Len(outbox) - 1
      /\ \A i \in 1..Len(outbox') : i + 1 \in 1..Len(outbox) /\ outbox'[i] = outbox[i + 1]
      /\ consumed \in [Events -> Nat] /\ consumed' = [consumed EXCEPT ![outbox[1]] = @ + 1]
      /\ outbox[1] \in Events /\ UNCHANGED pc /\ 1 \in 1..Len(outbox)
  BY ConsumeQueue
<1>2. consumed[c] \in {0, 1} /\ consumed[p] \in {0, 1}
  BY <1>0, <1>1, <1>d DEF Once
<1>3. outbox[1] = c => consumed'[c] = 1
  BY <1>0, <1>1, <1>2, <1>d DEF Once, InQueue
<1>4. consumed[c] = 1 => consumed'[c] = 1
  BY <1>0, <1>1, <1>d DEF Once, InQueue
<1>5. ASSUME NEW i \in 1..Len(outbox'), outbox'[i] = p
      PROVE  consumed'[c] = 1 \/ \E j \in 1..Len(outbox') : j < i /\ outbox'[j] = c
  <2>1. consumed[c] = 1 \/ \E j \in 1..Len(outbox) : j < i + 1 /\ outbox[j] = c
    BY <1>1, <1>5, <1>d
  <2>2. ASSUME NEW j \in 1..Len(outbox), j < i + 1, outbox[j] = c
        PROVE  consumed'[c] = 1 \/ \E k \in 1..Len(outbox') : k < i /\ outbox'[k] = c
    <3>1. CASE j = 1
      BY <1>3, <2>2, <3>1
    <3>2. CASE j # 1
      <4>1. j - 1 \in 1..Len(outbox') /\ j - 1 < i /\ (j - 1) + 1 = j
        BY <1>1, <2>2, <3>2
      <4>2. outbox'[j - 1] = c
        BY <1>1, <2>2, <4>1
      <4> QED
        BY <4>1, <4>2
    <3> QED
      BY <3>1, <3>2
  <2> QED
    BY <1>4, <2>1, <2>2
<1>6. InQueue(c) => consumed'[c] = 1 \/ InQueue(c)'
  <2> SUFFICES ASSUME NEW j \in 1..Len(outbox), outbox[j] = c
               PROVE  consumed'[c] = 1 \/ InQueue(c)'
    BY DEF InQueue
  <2>1. CASE j = 1
    BY <1>3, <2>1
  <2>2. CASE j # 1
    <3>1. j - 1 \in 1..Len(outbox') /\ (j - 1) + 1 = j
      BY <1>1, <2>2
    <3>2. outbox'[j - 1] = c
      BY <1>1, <3>1
    <3> QED
      BY <3>1, <3>2 DEF InQueue
  <2> QED
    BY <2>1, <2>2
<1>7. consumed'[p] <= consumed'[c]
  <2>1. CASE outbox[1] = p
    <3>1. consumed[c] = 1
      BY <1>1, <1>d, <2>1
    <3>2. consumed[p] = 0
      BY <1>1, <1>2, <1>d, <2>1 DEF Once, InQueue
    <3> QED
      BY <1>0, <1>1, <2>1, <3>1, <3>2
  <2>2. CASE outbox[1] # p
    <3>1. consumed'[p] = consumed[p] /\ consumed'[c] \in Nat /\ consumed'[c] >= consumed[c]
      BY <1>0, <1>1, <2>2
    <3> QED
      BY <1>2, <1>d, <3>1
  <2> QED
    BY <2>1, <2>2
<1> QED
  BY <1>1, <1>4, <1>5, <1>6, <1>7, <1>d

\* Every step keeps Ordered.
LEMMA OrderedStep == Inv /\ Ordered /\ [SagaNext]_sagaVars => Ordered'
<1> SUFFICES ASSUME Inv, Ordered, [SagaNext]_sagaVars PROVE Ordered'
  OBVIOUS
<1>0. SagaTypeOK /\ pc \in [Requests -> {"new"} \cup Steps \cup Answers]
  BY DEF Inv, SagaTypeOK
\* A step that leaves the events alone and nobody about to enqueue a charge.
<1>1. ASSUME UNCHANGED events,
             \A r \in Requests : pc'[r] = "publishCharged" => pc[r] = "publishCharged"
      PROVE  Ordered'
  <2>1. outbox' = outbox /\ sent' = sent /\ consumed' = consumed
    BY <1>1 DEF events
  <2>2. ASSUME NEW e, Once(e) PROVE Once(e)'
    BY <2>1, <2>2 DEF Once, InQueue
  <2>3. ASSUME NEW r \in Requests, Ahead(r) PROVE Ahead(r)'
    BY <1>1, <2>1, <2>3 DEF Ahead, InQueue
  <2> QED
    BY <2>2, <2>3 DEF Ordered
\* One event enqueued for the first time, a charge after its creation.
<1>2. ASSUME NEW e \in Events, Send(e),
             \A r \in Requests :
                /\ e = <<"order.created", r>> => sent[e] = 0
                /\ e = <<"payment.charged", r>> =>
                      sent[e] = 0 /\ (consumed[<<"order.created", r>>] = 1 \/ InQueue(<<"order.created", r>>))
                /\ pc'[r] = "publishCharged" => pc[r] = "publishCharged" \/ e = <<"order.created", r>>
      PROVE  Ordered'
  <2> SUFFICES ASSUME NEW r \in Requests
               PROVE  Once(<<"order.created", r>>)' /\ Once(<<"payment.charged", r>>)' /\ Ahead(r)'
    BY DEF Ordered
  <2>1. <<"order.created", r>> \in Events /\ <<"payment.charged", r>> \in Events
    BY EventNames
  <2>2. Once(<<"order.created", r>>) /\ Once(<<"payment.charged", r>>) /\ Ahead(r)
    BY DEF Ordered
  <2>3. Once(<<"order.created", r>>)'
    BY <1>0, <1>2, <2>1, <2>2, OnceSent
  <2>4. Once(<<"payment.charged", r>>)'
    BY <1>0, <1>2, <2>1, <2>2, OnceSent
  <2>5. Ahead(r)'
    BY <1>0, <1>2, <2>2, AheadSent
  <2> QED
    BY <2>3, <2>4, <2>5
<1>3. ASSUME NEW r \in Requests, PublishEvents(r) PROVE Ordered'
  <2>1. CASE pc[r] = "publishCreated" /\ pc' = [pc EXCEPT ![r] = "publishCharged"]
             /\ Send(<<"order.created", r>>)
    <3>1. sent[<<"order.created", r>>] = 0
      BY <2>1 DEF Inv, Counted
    <3>2. \A q \in Requests : pc'[q] = "publishCharged" => pc[q] = "publishCharged" \/ q = r
      BY <1>0, <2>1
    <3> QED
      BY <1>2, <2>1, <3>1, <3>2, EventNames
  <2>2. CASE pc[r] = "publishCharged" /\ pc' = [pc EXCEPT ![r] = "getOrder"]
             /\ Send(<<"payment.charged", r>>)
    <3>1. sent[<<"payment.charged", r>>] = 0
      BY <2>2 DEF Inv, Counted
    <3>2. consumed[<<"order.created", r>>] = 1 \/ InQueue(<<"order.created", r>>)
      BY <2>2 DEF Ordered, Ahead
    <3>3. \A q \in Requests : pc'[q] = "publishCharged" => pc[q] = "publishCharged"
      BY <1>0, <2>2
    <3> QED
      BY <1>2, <2>2, <3>1, <3>2, <3>3, EventNames
  <2> QED
    BY <1>3, <2>1, <2>2 DEF PublishEvents, Goto
<1>4. ASSUME NEW w \in Webhooks, SendConfirmation(w) PROVE Ordered'
  <2>1. OrderOf[w] \in Requests /\ UNCHANGED pc /\ Send(<<"payment.confirmed", OrderOf[w]>>)
    BY <1>4, RequestAssumption DEF SendConfirmation
  <2> QED
    BY <1>2, <2>1, EventNames
<1>5. ASSUME ConsumeOutbox PROVE Ordered'
  BY <1>0, <1>5, EventNames, OnceConsumed, AheadConsumed DEF Ordered
<1>6. ASSUME Crash PROVE Ordered'
  <2>1. /\ outbox' = <<>> /\ UNCHANGED <<sent, consumed>>
        /\ \A r \in Requests : pc'[r] # "publishCharged"
    BY <1>0, <1>6 DEF Crash, Steps
  <2>2. 1..Len(outbox') = {}
    BY <2>1
  <2>3. \A e : ~InQueue(e)'
    BY <2>2 DEF InQueue
  <2> QED
    BY <2>1, <2>2, <2>3 DEF Ordered, Once, Ahead
<1>7. ASSUME NEW r \in Requests,
             \/ GetResult(r) \/ TryLock(r) \/ ReserveInventory(r) \/ InsertOrder(r)
             \/ OrderInserted(r) \/ ChargePayment(r) \/ ConfirmOrder(r) \/ RefundPayment(r)
             \/ CancelOrder(r) \/ ReleaseInventory(r) \/ FetchOrder(r) \/ StoreResult(r)
      PROVE  Ordered'
  <2>1. UNCHANGED events
    BY <1>7 DEF GetResult, TryLock, ReserveInventory, InsertOrder, OrderInserted, ChargePayment,
       ConfirmOrder, RefundPayment, CancelOrder, ReleaseInventory, FetchOrder, StoreResult
  <2>2. \E to \in Steps \cup Answers : to # "publishCharged" /\ pc' = [pc EXCEPT ![r] = to]
    BY <1>7 DEF GetResult, TryLock, ReserveInventory, InsertOrder, OrderInserted, ChargePayment,
       ConfirmOrder, RefundPayment, CancelOrder, ReleaseInventory, FetchOrder, StoreResult,
       Goto, Steps, Answers
  <2> QED
    BY <1>0, <1>1, <2>1, <2>2
<1>8. ASSUME UNCHANGED <<events, pc>> PROVE Ordered'
  BY <1>1, <1>8
<1> QED
  BY <1>3, <1>4, <1>5, <1>6, <1>7, <1>8
     DEF SagaNext, Checkout, Execute, Webhook, IsWebhookProcessed, MarkWebhookProcessed,
         ConfirmPayment, Expire, sagaVars

\* Ordered holds in the initial states.
LEMMA OrderedInitially == SagaInit => Ordered
<1> SUFFICES ASSUME SagaInit PROVE Ordered
  OBVIOUS
<1>1. 1..Len(outbox) = {}
  BY DEF SagaInit
<1>2. \A e \in Events : sent[e] = 0 /\ consumed[e] = 0
  BY DEF SagaInit
<1>3. \A e : ~InQueue(e)
  BY <1>1 DEF InQueue
<1>4. ASSUME NEW e \in Events PROVE Once(e)
  BY <1>1, <1>2, <1>3, <1>4 DEF Once
<1>5. ASSUME NEW r \in Requests PROVE Ahead(r)
  <2>1. consumed[<<"order.created", r>>] = 0 /\ consumed[<<"payment.charged", r>>] = 0
    BY <1>2, EventNames
  <2>2. pc[r] = "new"
    BY DEF SagaInit
  <2> QED
    BY <1>1, <2>1, <2>2 DEF Ahead
<1> QED
  BY <1>4, <1>5, EventNames DEF Ordered

\* The consumer sees each event of an order once and the creation first, and a
\* checkout that was answered has enqueued both, however many requests and
\* deliveries write to the channel and whatever its capacity.
THEOREM EventsAreInOrder == SagaSpec => []EventsInOrder
<1>1. Inv /\ Ordered => EventsInOrder
  <2> SUFFICES ASSUME Inv, Ordered, NEW r \in Requests
               PROVE  /\ consumed[<<"payment.charged", r>>] <= consumed[<<"order.created", r>>]
                      /\ consumed[<<"order.created", r>>] <= 1
                      /\ pc[r] \in {"created", "panicked"} =>
                            sent[<<"order.created", r>>] = 1 /\ sent[<<"payment.charged", r>>] = 1
    BY DEF EventsInOrder
  <2> QED
    BY DEF Inv, Counted, AfterConfirm, Ordered, Once, Ahead
<1>2. Inv /\ Ordered /\ [SagaNext]_sagaVars => Ordered'
  BY OrderedStep
<1> QED
  BY <1>1, <1>2, OrderedInitially, Invariance, PTL DEF SagaSpec

-----------------------------------------------------------------------------
(* Payments are confirmed once *)

\* The counters of the model are numbers.
LEMMA BoundsNat == SagaTypeOK => faults \in Nat /\ expiries \in Nat /\ crashes \in Nat
BY DEF SagaTypeOK, BoundsOK

\* A fault is counted and never uncounted.
LEMMA FaultsGrow ==
    ASSUME SagaTypeOK, UNCHANGED bounds \/ Fault
    PROVE  /\ faults' \in Nat /\ expiries' = expiries
           /\ faults' + expiries' >= faults + expiries
<1>1. faults \in Nat /\ expiries \in Nat
  BY BoundsNat
<1>2. CASE UNCHANGED bounds
  BY <1>1, <1>2 DEF bounds
<1>3. CASE Fault
  BY <1>1, <1>3 DEF Fault
<1> QED
  BY <1>2, <1>3

\* Marks survives a step that sends no confirmation, removes no mark and lets no
\* delivery past the mark.
LEMMA NobodyPasses ==
    ASSUME SagaTypeOK, Marks, faults' + expiries' >= faults + expiries,
           faults' \in Nat, expiries' \in Nat, marked \subseteq marked',
           \A w \in Webhooks : hpc'[w] \in {"confirm", "send"} => hpc[w] \in {"confirm", "send"},
           \A r \in Requests : sent'[<<"payment.confirmed", r>>] = sent[<<"payment.confirmed", r>>]
    PROVE  Marks'
<1> SUFFICES ASSUME NEW r \in Requests
             PROVE  /\ IsFiniteSet(Confirming(r)')
                    /\ sent'[<<"payment.confirmed", r>>] + Cardinality(Confirming(r)')
                          <= faults' + expiries' + (IF r \in marked' THEN 1 ELSE 0)
  BY DEF Marks
<1>1. Confirming(r)' \in SUBSET Confirming(r)
  BY DEF Confirming
<1>2. IsFiniteSet(Confirming(r)) /\ Cardinality(Confirming(r)) \in Nat
  BY FS_CardinalityType DEF Marks
<1>3. IsFiniteSet(Confirming(r)') /\ Cardinality(Confirming(r)') <= Cardinality(Confirming(r))
      /\ Cardinality(Confirming(r)') \in Nat
  BY <1>1, <1>2, FS_Subset, FS_CardinalityType
<1>4. sent[<<"payment.confirmed", r>>] \in Nat
  BY EventNames DEF SagaTypeOK, CountsOK
<1> QED
  BY <1>2, <1>3, <1>4, BoundsNat DEF Marks

\* One delivery passes the mark and pays for it, with the mark or a failure.
LEMMA OnePasses ==
    ASSUME SagaTypeOK, Marks, NEW w \in Webhooks, UNCHANGED <<sent, expiries>>, hpc[w] = "mark",
           hpc' = [hpc EXCEPT ![w] = "confirm"], marked \subseteq marked',
           \/ OrderOf[w] \notin marked /\ OrderOf[w] \in marked' /\ faults' = faults
           \/ faults' = faults + 1
    PROVE  Marks'
<1> SUFFICES ASSUME NEW r \in Requests
             PROVE  /\ IsFiniteSet(Confirming(r)')
                    /\ sent'[<<"payment.confirmed", r>>] + Cardinality(Confirming(r)')
                          <= faults' + expiries' + (IF r \in marked' THEN 1 ELSE 0)
  BY DEF Marks
<1>1. hpc \in [Webhooks -> {"new"} \cup HookSteps \cup HookAnswers]
  BY DEF SagaTypeOK
<1>2. Confirming(r)' = IF r = OrderOf[w] THEN Confirming(r) \cup {w} ELSE Confirming(r)
  BY <1>1 DEF Confirming
<1> DEFINE C == Confirming(r)
<1>3. /\ IsFiniteSet(C) /\ Cardinality(C) \in Nat
      /\ sent[<<"payment.confirmed", r>>] + Cardinality(C)
            <= faults + expiries + (IF r \in marked THEN 1 ELSE 0)
  BY FS_CardinalityType DEF Marks
<1>4. sent[<<"payment.confirmed", r>>] \in Nat
  BY EventNames DEF SagaTypeOK, CountsOK
<1>5. C' = IF r = OrderOf[w] THEN C \cup {w} ELSE C
  BY <1>2
<1> HIDE DEF C
<1>6. IsFiniteSet(C \cup {w}) /\ Cardinality(C \cup {w}) \in {Cardinality(C), Cardinality(C) + 1}
  BY <1>3, FS_AddElement
<1>7. CASE r = OrderOf[w]
  <2>1. IsFiniteSet(C') /\ Cardinality(C') \in {Cardinality(C), Cardinality(C) + 1}
    BY <1>5, <1>6, <1>7
  <2>2. sent[<<"payment.confirmed", r>>] + Cardinality(C')
            <= faults' + expiries + (IF r \in marked' THEN 1 ELSE 0)
    BY <1>3, <1>4, <1>7, <2>1, BoundsNat
  <2> QED
    BY <2>1, <2>2 DEF C
<1>8. CASE r # OrderOf[w]
  <2>1. IsFiniteSet(C') /\ Cardinality(C') = Cardinality(C)
    BY <1>3, <1>5, <1>8
  <2>2. sent[<<"payment.confirmed", r>>] + Cardinality(C')
            <= faults' + expiries + (IF r \in marked' THEN 1 ELSE 0)
    BY <1>3, <1>4, <2>1, BoundsNat
  <2> QED
    BY <2>1, <2>2 DEF C
<1> QED
  BY <1>7, <1>8

\* Every step keeps Marks.
LEMMA MarksStep == Inv /\ Inv' /\ Marks /\ [SagaNext]_sagaVars => Marks'
<1> SUFFICES ASSUME Inv, Inv', Marks, [SagaNext]_sagaVars PROVE Marks'
  OBVIOUS
<1>0. /\ SagaTypeOK /\ hpc \in [Webhooks -> {"new"} \cup HookSteps \cup HookAnswers]
      /\ faults \in Nat /\ expiries \in Nat /\ faults' \in Nat /\ expiries' \in Nat
      /\ \A r \in Requests : sent[<<"payment.confirmed", r>>] \in Nat
  <2>1. SagaTypeOK /\ SagaTypeOK'
    BY DEF Inv
  <2>2. faults' \in Nat /\ expiries' \in Nat
    BY <2>1 DEF SagaTypeOK, BoundsOK
  <2>3. sent \in [Events -> Nat] /\ hpc \in [Webhooks -> {"new"} \cup HookSteps \cup HookAnswers]
    BY <2>1 DEF SagaTypeOK, CountsOK
  <2> QED
    BY <2>1, <2>2, <2>3, BoundsNat, EventNames
<1>1. ASSUME UNCHANGED <<hpc, sent, marked>>, UNCHANGED bounds \/ Fault PROVE Marks'
  <2>1. faults' + expiries' >= faults + expiries
    BY <1>0, <1>1, FaultsGrow
  <2>2. /\ marked \subseteq marked'
        /\ \A w \in Webhooks : hpc'[w] \in {"confirm", "send"} => hpc[w] \in {"confirm", "send"}
        /\ \A r \in Requests : sent'[<<"payment.confirmed", r>>] = sent[<<"payment.confirmed", r>>]
    BY <1>1
  <2> QED
    BY <1>0, <2>1, <2>2, NobodyPasses
<1>2. ASSUME NEW r \in Requests, GetResult(r) \/ Checkout(r), ~PublishEvents(r) PROVE Marks'
  BY <1>1, <1>2 DEF GetResult, Checkout, Execute, TryLock, ReserveInventory, InsertOrder,
     OrderInserted, ChargePayment, ConfirmOrder, RefundPayment, CancelOrder,
     ReleaseInventory, FetchOrder, StoreResult, redis, events
<1>3. ASSUME NEW r \in Requests, PublishEvents(r) PROVE Marks'
  <2>1. \A q \in Requests : sent'[<<"payment.confirmed", q>>] = sent[<<"payment.confirmed", q>>]
    <3>1. {"order.created", "payment.charged", "payment.confirmed"} \subseteq EventTypes
      BY DEF EventTypes
    <3>2. Send(<<"order.created", r>>) \/ Send(<<"payment.charged", r>>)
      BY <1>3 DEF PublishEvents
    <3> QED
      BY ZenonT(60), <1>0, <3>1, <3>2, SendCounts
  <2>2. UNCHANGED <<hpc, marked, faults, expiries>>
    BY <1>3 DEF PublishEvents, redis, bounds
  <2> QED
    BY <1>0, <2>1, <2>2, NobodyPasses
<1>4. ASSUME NEW w \in Webhooks, IsWebhookProcessed(w) PROVE Marks'
  <2>1. /\ UNCHANGED <<marked, sent>>
        /\ UNCHANGED bounds \/ Fault
        /\ \E to \in {"already_processed", "mark"} : hpc' = [hpc EXCEPT ![w] = to]
    BY <1>4 DEF IsWebhookProcessed, HookGoto, redis, events
  <2>2. faults' + expiries' >= faults + expiries
    BY <1>0, <2>1, FaultsGrow
  <2>3. /\ marked \subseteq marked'
        /\ \A v \in Webhooks : hpc'[v] \in {"confirm", "send"} => hpc[v] \in {"confirm", "send"}
        /\ \A r \in Requests : sent'[<<"payment.confirmed", r>>] = sent[<<"payment.confirmed", r>>]
    <3>1. sent' = sent /\ marked' = marked
      BY <2>1
    <3>2. PICK to \in {"already_processed", "mark"} : hpc' = [hpc EXCEPT ![w] = to]
      BY <2>1
    <3>3. \A v \in Webhooks : hpc'[v] = hpc[v] \/ hpc'[v] \in {"already_processed", "mark"}
      BY <1>0, <3>2
    <3> QED
      BY <3>1, <3>3
  <2> QED
    BY <1>0, <2>2, <2>3, NobodyPasses
<1>5. ASSUME NEW w \in Webhooks, MarkWebhookProcessed(w) PROVE Marks'
  <2>1. /\ hpc[w] = "mark" /\ UNCHANGED <<sent, expiries>> /\ marked \subseteq marked'
        /\ \/ hpc' = [hpc EXCEPT ![w] = "confirm"]
           \/ hpc' = [hpc EXCEPT ![w] = "ok"] \/ hpc' = [hpc EXCEPT ![w] = "already_processing"]
        /\ faults' = faults \/ faults' = faults + 1
    BY <1>5 DEF MarkWebhookProcessed, MarkedNext, HookGoto, Fault, events, bounds
  <2>2. CASE hpc' = [hpc EXCEPT ![w] = "confirm"]
    <3>1. hpc'[w] = "confirm"
      BY <1>0, <2>2
    <3>2. \/ OrderOf[w] \notin marked /\ OrderOf[w] \in marked' /\ faults' = faults
          \/ faults' = faults + 1
      <4>1. CASE OrderOf[w] \in marked /\ HookGoto(w, "mark", "already_processing")
        BY <1>0, <3>1, <4>1 DEF HookGoto
      <4> QED
        BY <1>5, <4>1 DEF MarkWebhookProcessed, Fault, bounds
    <3> QED
      BY <1>0, <2>1, <2>2, <3>2, OnePasses
  <2>3. CASE hpc' = [hpc EXCEPT ![w] = "ok"] \/ hpc' = [hpc EXCEPT ![w] = "already_processing"]
    <3>1. faults' + expiries' >= faults + expiries
      <4>1. /\ expiries' = expiries /\ faults \in Nat /\ expiries \in Nat
            /\ faults' = faults \/ faults' = faults + 1
        BY <1>0, <2>1
      <4> QED
        BY <4>1
    <3>2. /\ \A v \in Webhooks : hpc'[v] \in {"confirm", "send"} => hpc[v] \in {"confirm", "send"}
          /\ \A r \in Requests : sent'[<<"payment.confirmed", r>>] = sent[<<"payment.confirmed", r>>]
      BY <1>0, <2>1, <2>3
    <3> QED
      BY <1>0, <2>1, <3>1, <3>2, NobodyPasses
  <2> QED
    BY <2>1, <2>2, <2>3
<1>6. ASSUME NEW w \in Webhooks, ConfirmPayment(w) PROVE Marks'
  <2>1. /\ UNCHANGED <<marked, sent, faults, expiries>> /\ hpc[w] = "confirm"
        /\ \E to \in {"send", "error"} : hpc' = [hpc EXCEPT ![w] = to]
    BY <1>6 DEF ConfirmPayment, HookGoto, redis, events, bounds
  <2> QED
    BY <1>0, <2>1, NobodyPasses
<1>7. ASSUME NEW w \in Webhooks, SendConfirmation(w) PROVE Marks'
  <2> DEFINE o == OrderOf[w]
  <2>1. /\ hpc[w] = "send" /\ hpc' = [hpc EXCEPT ![w] = "ok"]
        /\ UNCHANGED <<marked, faults, expiries>> /\ Send(<<"payment.confirmed", o>>) /\ o \in Requests
    BY <1>7, RequestAssumption DEF SendConfirmation, HookGoto, redis, bounds
  <2>2. "payment.confirmed" \in EventTypes
    BY DEF EventTypes
  <2>3. /\ sent'[<<"payment.confirmed", o>>] = sent[<<"payment.confirmed", o>>] + 1
        /\ \A q \in Requests : q # o => sent'[<<"payment.confirmed", q>>] = sent[<<"payment.confirmed", q>>]
    BY ZenonT(60), <1>0, <2>1, <2>2, SendCounts
  <2>4. ASSUME NEW r \in Requests
        PROVE  /\ IsFiniteSet(Confirming(r)')
               /\ sent'[<<"payment.confirmed", r>>] + Cardinality(Confirming(r)')
                     <= faults' + expiries' + (IF r \in marked' THEN 1 ELSE 0)
    <3> DEFINE C == Confirming(r)
    <3>1. C' = IF r = o THEN C \ {w} ELSE C
      BY <1>0, <2>1 DEF Confirming
    <3>2. r = o => w \in C
      BY <2>1 DEF Confirming
    <3>3. /\ IsFiniteSet(C) /\ Cardinality(C) \in Nat
          /\ sent[<<"payment.confirmed", r>>] + Cardinality(C)
                <= faults + expiries + (IF r \in marked THEN 1 ELSE 0)
      BY FS_CardinalityType DEF Marks
    <3> HIDE DEF C
    <3>4. CASE r = o
      <4>1. IsFiniteSet(C \ {w}) /\ Cardinality(C \ {w}) = Cardinality(C) - 1
        BY <3>2, <3>3, <3>4, FS_RemoveElement
      <4>2. IsFiniteSet(C') /\ Cardinality(C') = Cardinality(C) - 1
        BY <3>1, <3>4, <4>1
      <4>3. sent'[<<"payment.confirmed", r>>] + Cardinality(C')
                <= faults' + expiries' + (IF r \in marked' THEN 1 ELSE 0)
        BY <1>0, <2>1, <2>3, <3>3, <3>4, <4>2
      <4> QED
        BY <4>2, <4>3 DEF C
    <3>5. CASE r # o
      <4>1. C' = C /\ sent'[<<"payment.confirmed", r>>] = sent[<<"payment.confirmed", r>>]
        BY <2>3, <3>1, <3>5
      <4>2. /\ IsFiniteSet(C')
            /\ sent'[<<"payment.confirmed", r>>] + Cardinality(C')
                  <= faults' + expiries' + (IF r \in marked' THEN 1 ELSE 0)
        BY <2>1, <3>3, <4>1
      <4> QED
        BY <4>2 DEF C
    <3> QED
      BY <3>4, <3>5
  <2> QED
    BY <2>4 DEF Marks
<1>8. ASSUME Expire PROVE Marks'
  <2>1. /\ UNCHANGED <<hpc, sent, faults>> /\ expiries' = expiries + 1
    BY <1>8 DEF Expire, events
  <2>2. \A r \in Requests : Confirming(r)' = Confirming(r)
    BY <2>1 DEF Confirming
  <2>3. ASSUME NEW r \in Requests
        PROVE  /\ IsFiniteSet(Confirming(r)')
               /\ sent'[<<"payment.confirmed", r>>] + Cardinality(Confirming(r)')
                     <= faults' + expiries' + (IF r \in marked' THEN 1 ELSE 0)
    <3>1. IsFiniteSet(Confirming(r)) /\ Cardinality(Confirming(r)) \in Nat
      BY FS_CardinalityType DEF Marks
    <3> QED
      BY <1>0, <2>1, <2>2, <3>1 DEF Marks
  <2> QED
    BY <2>3 DEF Marks
<1>9. ASSUME Crash PROVE Marks'
  <2>1. /\ UNCHANGED <<marked, sent, faults, expiries>>
        /\ \A w \in Webhooks : hpc'[w] \notin {"confirm", "send"}
    BY <1>0, <1>9 DEF Crash, HookSteps, redis
  <2> QED
    BY <1>0, <2>1, NobodyPasses
<1>10. ASSUME ConsumeOutbox \/ UNCHANGED sagaVars PROVE Marks'
  BY <1>1, <1>10 DEF ConsumeOutbox, sagaVars, redis, events, bounds
<1> QED
  BY <1>2, <1>3, <1>4, <1>5, <1>6, <1>7, <1>8, <1>9, <1>10 DEF SagaNext, Webhook

\* Marks holds in the initial states.
LEMMA MarksInitially == SagaInit => Marks
<1> SUFFICES ASSUME SagaInit, NEW r \in Requests
             PROVE  /\ IsFiniteSet(Confirming(r))
                    /\ sent[<<"payment.confirmed", r>>] + Cardinality(Confirming(r))
                          <= faults + expiries + (IF r \in marked THEN 1 ELSE 0)
  BY DEF Marks
<1>1. Confirming(r) = {}
  BY DEF SagaInit, Confirming
<1>2. IsFiniteSet(Confirming(r)) /\ Cardinality(Confirming(r)) = 0
  BY <1>1, FS_EmptySet
<1>3. sent[<<"payment.confirmed", r>>] = 0
  BY EventNames DEF SagaInit
<1> QED
  BY <1>2, <1>3 DEF SagaInit

\* A payment is confirmed once, plus once for every failed command and every
\* expired key, however often the gateway delivers the webhook.
THEOREM PaymentsConfirmedOnce == SagaSpec => []ConfirmedOnce
<1>1. Inv /\ Marks => ConfirmedOnce
  <2> SUFFICES ASSUME Inv, Marks, NEW r \in Requests
               PROVE  sent[<<"payment.confirmed", r>>] <= 1 + faults + expiries
    BY DEF ConfirmedOnce
  <2>1. Cardinality(Confirming(r)) \in Nat
    BY FS_CardinalityType DEF Marks
  <2>2. SagaTypeOK /\ sent[<<"payment.confirmed", r>>] \in Nat
    BY EventNames DEF Inv, SagaTypeOK, CountsOK
  <2> QED
    BY <2>1, <2>2, BoundsNat DEF Marks
<1>2. Inv /\ Inv' /\ Marks /\ [SagaNext]_sagaVars => Marks'
  BY MarksStep
<1> QED
  BY <1>1, <1>2, MarksInitially, Invariance, PTL DEF SagaSpec
=============================================================================
