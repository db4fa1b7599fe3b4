----------------------------- MODULE HubFanout -----------------------------
(***************************************************************************)
(* The hub of realtime-go between Redis and the clients (hub/hub.go and    *)
(* the two loops of wsserver/handler.go): one goroutine takes messages     *)
(* from the pubsub and fans them out, and every connection has one that    *)
(* reads commands and one that writes events.                              *)
(*                                                                         *)
(* Messages are numbered in the order they are published.  A client sends  *)
(* a command after the answer to the one before.  Commands that only get   *)
(* an answer (ping, a bad channel, invalid JSON) and the pings of the      *)
(* connection are left out; when a ping goes unanswered, a write times out *)
(* or the peer leaves, the socket closes.                                  *)
(***************************************************************************)
EXTENDS Naturals, Sequences

CONSTANTS
    Clients,      \* connections
    Channels,     \* channels that clients may subscribe to and the hub listens to
    Buffer,       \* ClientSendBuffer
    Malformed,    \* messages whose payload is not JSON
    MaxMessages,  \* bound on published messages
    MaxCommands,  \* bound on commands
    MaxLosses     \* bound on messages lost while the hub reconnects to Redis

\* A buffer may be of size 0; the bounds are numbers.
HubConstants ==
    /\ Buffer \in Nat
    /\ MaxMessages \in Nat /\ MaxCommands \in Nat /\ MaxLosses \in Nat

VARIABLES
    published,  \* the channel of each message
    feed,       \* h.pubsub.Channel()
    fan,        \* fanout: the message, and the clients of the snapshot still to serve
    socket,     \* "none", "open", "closed", "removed"
    channels,   \* c.channels
    bySub,      \* h.bySub; a channel without clients has no entry
    send,       \* c.send
    hand,       \* the message writeLoop writes; 0 if none
    command,    \* the command on its way to readLoop, or its answer on the way back
    got,        \* the events a client received, in order
    view,       \* what a client knows of a channel, and how many messages were out then
    dropped,    \* messages fanout had no room for
    commands,   \* commands so far
    losses      \* losses so far

vars == <<published, feed, fan, socket, channels, bySub, send, hand, command, got, view,
          dropped, commands, losses>>

NoCommand == [do |-> "none"]
Idle == [message |-> 0, left |-> {}]
Messages == DOMAIN published
ChannelOf(m) == published[m]

Init ==
    /\ published = <<>> /\ feed = <<>>
    /\ fan = Idle
    /\ socket = [c \in Clients |-> "none"]
    /\ channels \in [Clients -> SUBSET Channels \ {{}}]
    /\ bySub = [ch \in {} |-> {}]
    /\ send = [c \in Clients |-> <<>>]
    /\ hand = [c \in Clients |-> 0]
    /\ command = [c \in Clients |-> NoCommand]
    /\ got = [c \in Clients |-> <<>>]
    /\ view = [c \in Clients |-> [ch \in Channels |-> [is |-> "off", at |-> 0]]]
    /\ dropped = [c \in Clients |-> {}]
    /\ commands = 0 /\ losses = 0

-----------------------------------------------------------------------------
(* Publishers, and the goroutine of consume *)

\* Another service publishes; the hub gets the message unless it is reconnecting.
Publish(ch) ==
    /\ Len(published) < MaxMessages
    /\ published' = Append(published, ch)
    /\ \/ feed' = Append(feed, Len(published')) /\ UNCHANGED losses
       \/ losses < MaxLosses /\ losses' = losses + 1 /\ UNCHANGED feed
    /\ UNCHANGED <<fan, socket, channels, bySub, send, hand, command, got, view, dropped, commands>>

\* Subscribers of a channel.
Subs(ch) == IF ch \in DOMAIN bySub THEN bySub[ch] ELSE {}

\* fanout: the snapshot under the read lock.
Take ==
    /\ fan.left = {} /\ feed # <<>>
    /\ fan' = [message |-> Head(feed), left |-> Subs(ChannelOf(Head(feed)))]
    /\ feed' = Tail(feed)
    /\ UNCHANGED <<published, socket, channels, bySub, send, hand, command, got, view, dropped,
                   commands, losses>>

\* c.send <- m, or the default case when its buffer is full.
Offer(c) ==
    \/ /\ Len(send[c]) < Buffer
       /\ send' = [send EXCEPT ![c] = Append(@, fan.message)]
       /\ UNCHANGED dropped
    \/ /\ Len(send[c]) = Buffer
       /\ dropped' = [dropped EXCEPT ![c] = @ \cup {fan.message}]
       /\ UNCHANGED send

FanOut ==
    \E c \in fan.left :
        /\ Offer(c)
        /\ fan' = IF fan.left = {c} THEN Idle ELSE [fan EXCEPT !.left = @ \ {c}]
        /\ UNCHANGED <<published, feed, socket, channels, bySub, hand, command, got, view,
                       commands, losses>>

-----------------------------------------------------------------------------
(* The index of the hub; every method holds the lock. *)

With(index, chs, c) ==
    [ch \in DOMAIN index \cup chs |->
        (IF ch \in DOMAIN index THEN index[ch] ELSE {}) \cup (IF ch \in chs THEN {c} ELSE {})]

\* Mutant: the entry is left behind.
WithoutCleaning(index, chs, c) ==
    [ch \in DOMAIN index |-> IF ch \in chs THEN index[ch] \ {c} ELSE index[ch]]

Without(index, chs, c) ==
    LET rest(ch) == IF ch \in chs THEN index[ch] \ {c} ELSE index[ch]
    IN [ch \in {k \in DOMAIN index : rest(k) # {}} |-> rest(ch)]

Knows(c, ch, is) == view' = [view EXCEPT ![c][ch] = [is |-> is, at |-> Len(published)]]

-----------------------------------------------------------------------------
(* ServeWS *)

\* Hub.Add, with the channels of the URL, after the upgrade; nothing tells the client.
Add(c) ==
    /\ socket[c] = "none"
    /\ socket' = [socket EXCEPT ![c] = "open"]
    /\ bySub' = With(bySub, channels[c], c)
    /\ view' = [view EXCEPT ![c] = [ch \in Channels |->
          [is |-> IF ch \in channels[c] THEN "on" ELSE "off", at |-> Len(published)]]]
    /\ UNCHANGED <<published, feed, fan, channels, send, hand, command, got, dropped, commands,
                   losses>>

\* The client asks for a change.
Send(c, do, ch) ==
    /\ socket[c] = "open" /\ command[c] = NoCommand
    /\ commands < MaxCommands
    /\ commands' = commands + 1
    /\ command' = [command EXCEPT ![c] = [do |-> do, channel |-> ch, at |-> "server"]]
    /\ \/ do = "subscribe" /\ view[c][ch].is = "on" /\ UNCHANGED view
       \/ do = "subscribe" /\ view[c][ch].is # "on" /\ Knows(c, ch, "joining")
       \/ do = "unsubscribe" /\ Knows(c, ch, "leaving")
    /\ UNCHANGED <<published, feed, fan, socket, channels, bySub, send, hand, got, dropped, losses>>

\* readLoop: Hub.Subscribe ...
Subscribe(c) ==
    /\ channels' = [channels EXCEPT ![c] = @ \cup {command[c].channel}]
    /\ bySub' = With(bySub, {command[c].channel}, c)

\* Mutant: the client forgets the channel, the index does not.
UnsubscribeClient(c) ==
    /\ channels' = [channels EXCEPT ![c] = @ \ {command[c].channel}]
    /\ UNCHANGED bySub

\* ... or Hub.Unsubscribe ...
Unsubscribe(c) ==
    /\ channels' = [channels EXCEPT ![c] = @ \ {command[c].channel}]
    /\ bySub' = Without(bySub, {command[c].channel}, c)

Read(c) ==
    /\ socket[c] = "open" /\ command[c].do # "none" /\ command[c].at = "server"
    /\ \/ command[c].do = "subscribe" /\ Subscribe(c)
       \/ command[c].do = "unsubscribe" /\ Unsubscribe(c)
    /\ command' = [command EXCEPT ![c].at = "client"]
    /\ UNCHANGED <<published, feed, fan, socket, send, hand, got, view, dropped, commands, losses>>

\* ... and the ack, which the connection writes in between two events.
Ack(c) ==
    LET ch == command[c].channel IN
    /\ socket[c] = "open" /\ command[c].do # "none" /\ command[c].at = "client"
    /\ command' = [command EXCEPT ![c] = NoCommand]
    /\ IF command[c].do = "subscribe"
       THEN IF view[c][ch].is = "on" THEN UNCHANGED view ELSE Knows(c, ch, "on")
       ELSE Knows(c, ch, "off")
    /\ UNCHANGED <<published, feed, fan, socket, channels, bySub, send, hand, got, dropped,
                   commands, losses>>

\* writeLoop takes a message ...
Receive(c) ==
    /\ socket[c] = "open" /\ hand[c] = 0 /\ send[c] # <<>>
    /\ hand' = [hand EXCEPT ![c] = Head(send[c])]
    /\ send' = [send EXCEPT ![c] = Tail(@)]
    /\ UNCHANGED <<published, feed, fan, socket, channels, bySub, command, got, view, dropped,
                   commands, losses>>

\* ... and writes it; json.Marshal refuses a payload that is not JSON, silently.
Write(c) ==
    /\ socket[c] = "open" /\ hand[c] # 0
    /\ hand' = [hand EXCEPT ![c] = 0]
    /\ got' = IF hand[c] \in Malformed THEN got ELSE [got EXCEPT ![c] = Append(@, hand[c])]
    /\ UNCHANGED <<published, feed, fan, socket, channels, bySub, send, command, view, dropped,
                   commands, losses>>

\* The peer leaves, a ping is not answered, a write takes longer than WriteWait.
Close(c) ==
    /\ socket[c] = "open"
    /\ socket' = [socket EXCEPT ![c] = "closed"]
    /\ UNCHANGED <<published, feed, fan, channels, bySub, send, hand, command, got, view, dropped,
                   commands, losses>>

\* Hub.Remove; the loops have ended.
Remove(c) ==
    /\ socket[c] = "closed"
    /\ socket' = [socket EXCEPT ![c] = "removed"]
    /\ bySub' = Without(bySub, channels[c], c)
    /\ UNCHANGED <<published, feed, fan, channels, send, hand, command, got, view, dropped,
                   commands, losses>>

-----------------------------------------------------------------------------
Consume == Take \/ FanOut
Serve(c) ==
    \/ Add(c) \/ Read(c) \/ Ack(c) \/ Receive(c) \/ Write(c) \/ Close(c) \/ Remove(c)

Next ==
    \/ Consume
    \/ \E ch \in Channels : Publish(ch)
    \/ \E c \in Clients :
          \/ Serve(c)
          \/ \E ch \in Channels, do \in {"subscribe", "unsubscribe"} : Send(c, do, ch)

Spec == Init /\ [][Next]_vars

-----------------------------------------------------------------------------
TypeOK ==
    /\ \A m \in Messages : ChannelOf(m) \in Channels
    /\ feed \in Seq(Messages) /\ fan.message \in 0..Len(published) /\ fan.left \subseteq Clients
    /\ socket \in [Clients -> {"none", "open", "closed", "removed"}]
    /\ channels \in [Clients -> SUBSET Channels]
    /\ DOMAIN bySub \subseteq Channels
    /\ \A c \in Clients :
          /\ send[c] \in Seq(Messages) /\ Len(send[c]) <= Buffer
          /\ hand[c] \in {0} \cup Messages /\ got[c] \in Seq(Messages)
          /\ dropped[c] \subseteq Messages
    /\ commands \in 0..MaxCommands /\ losses \in 0..MaxLosses

\* Everything on its way to a client, in the order it will see it.
Stream(c) == got[c] \o (IF hand[c] = 0 THEN <<>> ELSE <<hand[c]>>) \o send[c]
Holds(c, m) == \E i \in DOMAIN Stream(c) : Stream(c)[i] = m

\* Add, Remove, Subscribe and Unsubscribe keep two maps: a channel leads to exactly the
\* registered clients that have it, and no entry stays behind.
IndexIsExact ==
    \A ch \in Channels :
        /\ Subs(ch) = {c \in Clients : socket[c] \in {"open", "closed"} /\ ch \in channels[c]}
        /\ ch \in DOMAIN bySub => bySub[ch] # {}

\* A client sees messages in the order they were published, and none twice, although
\* fanout, writeLoop and readLoop run side by side.
StreamsAreOrdered ==
    \A c \in Clients : \A i, j \in DOMAIN Stream(c) : i < j => Stream(c)[i] < Stream(c)[j]

\* fanout has dealt with a message as far as the client is concerned.
Handled(c, m) ==
    /\ ~\E i \in DOMAIN feed : feed[i] = m
    /\ ~(fan.message = m /\ c \in fan.left)

\* A client that knows it is subscribed to a channel misses a message published since then
\* only because its buffer was full, it is not JSON, or Redis did not deliver it.
NothingIsMissed ==
    \A c \in Clients, m \in Messages :
        /\ socket[c] = "open" /\ Handled(c, m) /\ m \notin Malformed
        /\ view[c][ChannelOf(m)].is = "on" /\ m > view[c][ChannelOf(m)].at
        => Holds(c, m) \/ m \in dropped[c] \/ losses > 0

\* Once a client knows that it has left a channel, nothing published later reaches it.
NothingAfterLeaving ==
    \A c \in Clients, m \in Messages :
        view[c][ChannelOf(m)].is = "off" /\ m > view[c][ChannelOf(m)].at => ~Holds(c, m)

\* The four together, over states of the right types.
FanoutIsSound ==
    TypeOK /\ IndexIsExact /\ StreamsAreOrdered /\ NothingIsMissed /\ NothingAfterLeaving
=============================================================================
