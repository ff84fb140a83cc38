------------------------------ MODULE ChatRoom ------------------------------
(***************************************************************************)
(* services/chat-system: one room, whose goroutine owns the clients and the *)
(* history, and for each client the goroutine that serves its websocket and *)
(* the pump that writes to it.  Joining and leaving are handed over on       *)
(* unbuffered channels.  A panic in the room's goroutine ends the process; a *)
(* panic in a handler is recovered and ends that connection only.            *)
(***************************************************************************)
EXTENDS Integers, Sequences, SequencesExt

CONSTANTS
    Clients,
    MaxMessages,    \* bound: messages sent in all
    MaxHistory,     \* 100
    RoomCap,        \* capacity of the broadcast channel: 256
    SendCap         \* capacity of a client's channel: 256

ASSUME ChatAssumption ==
    /\ MaxMessages \in Nat
    /\ MaxHistory \in Nat \ {0} /\ RoomCap \in Nat \ {0} /\ SendCap \in Nat \ {0}

VARIABLES
    members,    \* Room.clients
    history,    \* Room.history; a message is the number of its sending
    broadcast,  \* the room's broadcast channel
    sendq,      \* sendq[c]: Client.Send
    shut,       \* clients whose Send is closed
    serving,    \* serving[c]: where ServeWS is, and the history it has yet to send
    pump,       \* pump[c]: writePump, "off" before it starts and "over" after
    received,   \* received[c]: what was written to the websocket
    sent,       \* messages sent so far
    crashed,    \* the process has panicked
    overflowed  \* history: clients dropped by a broadcast that found their channel full

roomVars == <<members, history, broadcast, overflowed>>
chatVars == <<roomVars, sendq, shut, serving, pump, received, sent, crashed>>

ChatInit ==
    /\ members = {} /\ history = <<>> /\ broadcast = <<>> /\ overflowed = {}
    /\ sendq = [c \in Clients |-> <<>>] /\ shut = {}
    /\ serving = [c \in Clients |-> [pc |-> "new", todo |-> <<>>]]
    /\ pump = [c \in Clients |-> "off"]
    /\ received = [c \in Clients |-> <<>>]
    /\ sent = 0 /\ crashed = FALSE

Serve(c, from, to) == serving[c].pc = from /\ serving' = [serving EXCEPT ![c].pc = to]

-----------------------------------------------------------------------------
(* ServeWS: join, send the history, start the pump, read.                    *)

JoinRoom_HistoryFirst(c) ==
    /\ \/ /\ serving[c].pc = "new"
          /\ serving' = [serving EXCEPT ![c] = [pc |-> "late", todo |-> history]]
          /\ UNCHANGED members
       \/ Serve(c, "late", "replay") /\ members' = members \cup {c}
    /\ UNCHANGED <<history, broadcast, overflowed, sendq, shut, pump, received, sent, crashed>>

JoinRoom(c) ==
    /\ Serve(c, "new", "joined") /\ members' = members \cup {c}
    /\ UNCHANGED <<history, broadcast, overflowed, sendq, shut, pump, received, sent, crashed>>

ReadHistory(c) ==
    /\ serving[c].pc = "joined"
    /\ serving' = [serving EXCEPT ![c] = [pc |-> "replay", todo |-> history]]
    /\ UNCHANGED <<roomVars, sendq, shut, pump, received, sent, crashed>>

\* A full channel blocks: no pump drains it yet.  On a channel that a broadcast has
\* closed the send panics, and the client never leaves the room.
Replay(c) ==
    /\ serving[c].pc = "replay" /\ serving[c].todo # <<>>
    /\ IF c \in shut THEN Serve(c, "replay", "panicked") /\ UNCHANGED sendq
       ELSE /\ Len(sendq[c]) < SendCap
            /\ sendq' = [sendq EXCEPT ![c] = Append(@, Head(serving[c].todo))]
            /\ serving' = [serving EXCEPT ![c].todo = Tail(@)]
    /\ UNCHANGED <<roomVars, shut, pump, received, sent, crashed>>

StartPumps(c) ==
    /\ serving[c].todo = <<>> /\ Serve(c, "replay", "read")
    /\ pump' = [pump EXCEPT ![c] = "on"]
    /\ UNCHANGED <<roomVars, sendq, shut, received, sent, crashed>>

Say(c) ==
    /\ serving[c].pc = "read" /\ sent < MaxMessages /\ Len(broadcast) < RoomCap
    /\ sent' = sent + 1 /\ broadcast' = Append(broadcast, sent + 1)
    /\ UNCHANGED <<members, history, overflowed, sendq, shut, serving, pump, received, crashed>>

Hangup(c) ==
    /\ Serve(c, "read", "leave")
    /\ UNCHANGED <<roomVars, sendq, shut, pump, received, sent, crashed>>

-----------------------------------------------------------------------------
(* The room's goroutine, and the pumps.  Closing a closed channel panics.    *)

LeaveRoom_BothPumps(c) ==
    /\ Serve(c, "leave", "again") \/ Serve(c, "again", "gone")
    /\ members' = members \ {c}
    /\ IF c \in shut THEN crashed' = TRUE /\ UNCHANGED shut
       ELSE shut' = shut \cup {c} /\ UNCHANGED crashed
    /\ UNCHANGED <<history, broadcast, overflowed, sendq, pump, received, sent>>

LeaveRoom(c) ==
    /\ Serve(c, "leave", "gone")
    /\ members' = members \ {c}
    /\ IF c \in shut THEN crashed' = TRUE /\ UNCHANGED shut
       ELSE shut' = shut \cup {c} /\ UNCHANGED crashed
    /\ UNCHANGED <<history, broadcast, overflowed, sendq, pump, received, sent>>

Latest_Untrimmed(h) == h
Latest(h) == IF Len(h) > MaxHistory THEN SubSeq(h, Len(h) - MaxHistory + 1, Len(h)) ELSE h

Broadcast ==
    LET m == Head(broadcast)
        full == {c \in members : Len(sendq[c]) >= SendCap}
    IN  /\ broadcast # <<>> /\ broadcast' = Tail(broadcast)
        /\ history' = Latest(Append(history, m))
        /\ sendq' = [c \in Clients |-> IF c \in members \ full THEN Append(sendq[c], m) ELSE sendq[c]]
        /\ members' = members \ full /\ shut' = shut \cup full /\ overflowed' = overflowed \cup full
        /\ UNCHANGED <<serving, pump, received, sent, crashed>>

WritePump(c) ==
    /\ pump[c] = "on"
    /\ IF sendq[c] # <<>>
       THEN /\ sendq' = [sendq EXCEPT ![c] = Tail(@)]
            /\ \/ received' = [received EXCEPT ![c] = Append(@, Head(sendq[c]))] /\ UNCHANGED pump
               \/ pump' = [pump EXCEPT ![c] = "over"] /\ UNCHANGED received    \* the write fails
       ELSE c \in shut /\ pump' = [pump EXCEPT ![c] = "over"] /\ UNCHANGED <<sendq, received>>
    /\ UNCHANGED <<roomVars, shut, serving, sent, crashed>>

ChatNext ==
    /\ ~crashed
    /\ \/ Broadcast
       \/ \E c \in Clients :
             \/ JoinRoom(c) \/ ReadHistory(c) \/ Replay(c) \/ StartPumps(c)
             \/ Say(c) \/ Hangup(c) \/ LeaveRoom(c) \/ WritePump(c)

ChatSpec == ChatInit /\ [][ChatNext]_chatVars

-----------------------------------------------------------------------------
ChatTypeOK ==
    /\ members \subseteq Clients /\ shut \subseteq Clients /\ overflowed \subseteq Clients
    /\ Len(history) <= MaxHistory /\ Len(broadcast) <= RoomCap
    /\ \A c \in Clients :
          /\ Len(sendq[c]) <= SendCap
          /\ serving[c].pc \in {"new", "joined", "replay", "read", "leave", "gone", "panicked"}
          /\ pump[c] \in {"off", "on", "over"}
    /\ sent \in 0 .. MaxMessages /\ crashed \in BOOLEAN

\* No gap at the join: what the room remembers has reached every member that asked
\* for the history, or is on its way to it, unless its pump has stopped.
NoGap ==
    \A c \in members :
        serving[c].pc \in {"replay", "read", "leave"} /\ pump[c] # "over" =>
            Range(history) \subseteq Range(received[c]) \cup Range(sendq[c]) \cup Range(serving[c].todo)

\* The process goes down only after some client was dropped for a full channel and
\* then hung up: while every client keeps up, no channel is closed twice.
CrashNeedsOverflow ==
    crashed => \E c \in overflowed : serving[c].pc = "gone"
=============================================================================
