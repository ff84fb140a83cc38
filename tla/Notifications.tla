---------------------------- MODULE Notifications ----------------------------
(***************************************************************************)
(* services/notification-system: neither the sequence nor the slice of the   *)
(* store is locked, so that requests that overlap lose numbers and entries.  *)
(* All requests fall into one millisecond: the time in an id tells nothing.  *)
(***************************************************************************)
EXTENDS Integers, Sequences, SequencesExt

CONSTANTS
    Sends,          \* requests that name a user, a channel, a title and a body
    ChannelOf,      \* ChannelOf[s]: "in_app", "email", "push", or one that nobody knows
    UserOf          \* UserOf[s]

NoStatus == ""          \* before a sender has set one

VARIABLES
    idSeq,
    notifications,  \* the slice of the store
    sending,        \* sending[s]: a request: pc, what it read, its id and its status
    overlapped      \* history: requests that were under way while another one was

notifyVars == <<idSeq, notifications, sending, overlapped>>

NotifyInit ==
    /\ idSeq = 0 /\ notifications = <<>> /\ overlapped = {}
    /\ sending = [s \in Sends |-> [pc |-> "new", number |-> 0, id |-> 0, slice |-> <<>>, status |-> NoStatus]]

UnderWay == {s \in Sends : sending[s].pc \in {"count", "name", "send", "append"}}

\* An unknown channel is an error; else the counter is read to be increased.
SendNotification(s) ==
    /\ sending[s].pc = "new" /\ UNCHANGED <<idSeq, notifications>>
    /\ IF ChannelOf[s] \in {"in_app", "email", "push"}
       THEN /\ sending' = [sending EXCEPT ![s].pc = "count", ![s].number = idSeq]
            /\ overlapped' = overlapped \cup UnderWay \cup (IF UnderWay = {} THEN {} ELSE {s})
       ELSE /\ sending' = [sending EXCEPT ![s].pc = "refused"]
            /\ UNCHANGED overlapped

StoreSeq(s) ==
    /\ sending[s].pc = "count"
    /\ idSeq' = sending[s].number + 1
    /\ sending' = [sending EXCEPT ![s].pc = "name"]
    /\ UNCHANGED <<notifications, overlapped>>

\* The id is made from the counter as it is now.
MakeNotification(s) ==
    /\ sending[s].pc = "name"
    /\ sending' = [sending EXCEPT ![s].pc = "send", ![s].id = idSeq]
    /\ UNCHANGED <<idSeq, notifications, overlapped>>

\* Mail and push messages are logged and never stored; an append reads the slice...
DispatchToSender(s) ==
    /\ sending[s].pc = "send" /\ UNCHANGED <<idSeq, notifications, overlapped>>
    /\ sending' = IF ChannelOf[s] = "in_app"
                  THEN [sending EXCEPT ![s].pc = "append", ![s].status = "delivered", ![s].slice = notifications]
                  ELSE [sending EXCEPT ![s].pc = "answered", ![s].status = "sent"]

\* ... and writes it back with one element more.
Save(s) ==
    /\ sending[s].pc = "append"
    /\ notifications' = Append(sending[s].slice, s)
    /\ sending' = [sending EXCEPT ![s].pc = "answered"]
    /\ UNCHANGED <<idSeq, overlapped>>

NotifyNext ==
    \E s \in Sends : SendNotification(s) \/ StoreSeq(s) \/ MakeNotification(s) \/ DispatchToSender(s) \/ Save(s)

NotifySpec == NotifyInit /\ [][NotifyNext]_notifyVars

\* Where the slice has the entries of a user, and those with an id.
GetByUser(u) == {i \in DOMAIN notifications : UserOf[notifications[i]] = u}
NotificationsById(id) == {i \in DOMAIN notifications : sending[notifications[i]].id = id}

-----------------------------------------------------------------------------
NotifyTypeOK ==
    /\ idSeq \in Nat
    /\ Range(notifications) \subseteq Sends
    /\ \A s \in Sends :
          /\ sending[s].pc \in {"new", "count", "name", "send", "append", "answered", "refused"}
          /\ sending[s].number \in Nat /\ sending[s].id \in Nat
          /\ Range(sending[s].slice) \subseteq Sends
          /\ sending[s].status \in {NoStatus, "delivered", "sent"}
    /\ overlapped \subseteq Sends

\* A request that ran alone keeps what it did: its in-app notification is among its
\* user's for ever, once, and no other request that ran alone has its id.
NotificationsKept ==
    \A s \in Sends : sending[s].pc = "answered" /\ s \notin overlapped =>
        /\ ChannelOf[s] = "in_app" =>
              \E i \in GetByUser(UserOf[s]) \cap NotificationsById(sending[s].id) :
                  \A j \in DOMAIN notifications : notifications[j] = s <=> j = i
        /\ \A t \in Sends \ (overlapped \cup {s}) :
              sending[t].pc = "answered" => sending[t].id # sending[s].id
=============================================================================
