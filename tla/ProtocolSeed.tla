----------------------------- MODULE ProtocolSeed -----------------------------
(***************************************************************************)
(* The seed protocol of src/net/protocol/protocol_seed.rs: a node that has *)
(* connected to a seed server advertises its own external addresses      *)
(* (send_my_addrs), asks the seed for addresses (GetAddrs) and stores the *)
(* seed's answer in its greylist (start).                                  *)
(*                                                                         *)
(* The channel, ping_node and the hosts store are collaborators outside   *)
(* this file and are modelled at their interface: the channel is a FIFO   *)
(* connection in each direction that may be stopped at any time, after    *)
(* which send and receive return an error; ping_node answers TRUE or       *)
(* FALSE; the seed answers a GetAddrs with an Addrs message of at most     *)
(* max addresses it knows.  Address lists are sets: their order and the   *)
(* last_seen stamps play no part in what is checked.                       *)
(***************************************************************************)
EXTENDS Naturals, Sequences, FiniteSets

CONSTANTS ExternalAddrs,          \* settings.external_addrs
          AdvertiseSettings,      \* the values settings.advertise may have
          OutboundConnections,    \* settings.outbound_connections
          SeedAddrs               \* the addresses the seed server knows

VARIABLES pc,        \* where start() is
          toPing,    \* external addresses the loop has not pinged yet
          addrs,     \* the addrs vector send_my_addrs collects
          pinged,    \* addresses whose self-ping succeeded
          toSeed,    \* messages in flight from the node to the seed
          sentToSeed,\* every message the node has sent, in order
          fromSeed,  \* messages in flight from the seed to the node
          stopped,   \* the channel was stopped
          greylist,  \* the hosts greylist
          advertise  \* settings.advertise, fixed for the run

vars == <<pc, toPing, addrs, pinged, toSeed, sentToSeed, fromSeed, stopped, greylist, advertise>>

Addrs(as) == [type |-> "addrs", addrs |-> as]
GetAddrs(max) == [type |-> "getaddrs", max |-> max]

(* ProtocolSeed::init subscribed to AddrsMessage; start() begins with      *)
(* send_my_addrs.                                                          *)
Init ==
    /\ pc = "send_my_addrs"
    /\ toPing = ExternalAddrs /\ addrs = {} /\ pinged = {}
    /\ toSeed = <<>> /\ sentToSeed = <<>> /\ fromSeed = <<>>
    /\ stopped = FALSE
    /\ greylist = {}
    /\ advertise \in AdvertiseSettings

(* channel.send: an error once the channel is stopped, propagated by ?.    *)
Send(m, next) ==
    IF stopped
    THEN pc' = "failed" /\ UNCHANGED <<toSeed, sentToSeed>>
    ELSE /\ toSeed' = Append(toSeed, m) /\ sentToSeed' = Append(sentToSeed, m)
         /\ pc' = next

(* send_my_addrs, lines 67-79: nothing to advertise ends it with Ok.       *)
SendMyAddrs ==
    /\ pc = "send_my_addrs"
    /\ pc' = IF ExternalAddrs = {} \/ ~advertise THEN "send_get" ELSE "ping"
    /\ UNCHANGED <<toPing, addrs, pinged, toSeed, sentToSeed, fromSeed, stopped, greylist>>

(* Mutant: a failed self-ping skips the address instead of returning.     *)
PingSelfSkip ==
    /\ pc = "ping" /\ toPing # {}
    /\ \E a \in toPing, ok \in BOOLEAN :
        /\ toPing' = toPing \ {a}
        /\ IF ok THEN addrs' = addrs \cup {a} /\ pinged' = pinged \cup {a}
                 ELSE UNCHANGED <<addrs, pinged>>
        /\ pc' = IF toPing' = {} THEN "send_addrs" ELSE "ping"
    /\ UNCHANGED <<toSeed, sentToSeed, fromSeed, stopped, greylist>>

(* One iteration of the loop of lines 82-94: ping_node(addr); success     *)
(* pushes the address, failure returns Ok(()) without sending anything.   *)
PingSelf ==
    /\ pc = "ping" /\ toPing # {}
    /\ \E a \in toPing, ok \in BOOLEAN :
        /\ toPing' = toPing \ {a}
        /\ IF ok THEN /\ addrs' = addrs \cup {a} /\ pinged' = pinged \cup {a}
                      /\ pc' = IF toPing' = {} THEN "send_addrs" ELSE "ping"
                 ELSE /\ UNCHANGED <<addrs, pinged>>
                      /\ pc' = "send_get"
    /\ UNCHANGED <<toSeed, sentToSeed, fromSeed, stopped, greylist>>

(* Lines 96-97: the AddrsMessage goes out; a send error ends start().     *)
SendMyAddrsMsg ==
    /\ pc = "send_addrs"
    /\ Send(Addrs(addrs), "send_get")
    /\ UNCHANGED <<toPing, addrs, pinged, fromSeed, stopped, greylist>>

(* Lines 116-120: GetAddrs with max = outbound_connections as u32 (the    *)
(* cast keeps the small values the model uses).                           *)
SendGetAddrs ==
    /\ pc = "send_get"
    /\ Send(GetAddrs(OutboundConnections), "receive")
    /\ UNCHANGED <<toPing, addrs, pinged, fromSeed, stopped, greylist>>

(* Mutant: the node greylists its own addrs vector instead of the        *)
(* received addrs_msg.addrs.                                               *)
ReceiveAddrsOwn ==
    /\ pc = "receive"
    /\ \/ /\ fromSeed # <<>>
          /\ greylist' = greylist \cup addrs
          /\ fromSeed' = Tail(fromSeed)
          /\ pc' = "done"
       \/ stopped /\ fromSeed = <<>> /\ pc' = "failed" /\ UNCHANGED <<greylist, fromSeed>>
    /\ UNCHANGED <<toPing, addrs, pinged, toSeed, sentToSeed, stopped>>

(* Mutant: receive() keeps waiting on a stopped channel.                  *)
ReceiveAddrsNoStop ==
    /\ pc = "receive" /\ fromSeed # <<>>
    /\ greylist' = greylist \cup Head(fromSeed).addrs
    /\ fromSeed' = Tail(fromSeed)
    /\ pc' = "done"
    /\ UNCHANGED <<toPing, addrs, pinged, toSeed, sentToSeed, stopped>>

(* Lines 123-132: addr_sub.receive() waits for the next AddrsMessage; a    *)
(* stopped channel ends the wait with an error.  The addresses go to the   *)
(* greylist.                                                               *)
ReceiveAddrs ==
    /\ pc = "receive"
    /\ \/ /\ fromSeed # <<>>
          /\ greylist' = greylist \cup Head(fromSeed).addrs
          /\ fromSeed' = Tail(fromSeed)
          /\ pc' = "done"
       \/ stopped /\ fromSeed = <<>> /\ pc' = "failed" /\ UNCHANGED <<greylist, fromSeed>>
    /\ UNCHANGED <<toPing, addrs, pinged, toSeed, sentToSeed, stopped>>

(* The seed takes the node's next message; a GetAddrs is answered with at *)
(* most max of the addresses it knows.                                     *)
SeedReceive ==
    /\ toSeed # <<>> /\ ~stopped
    /\ toSeed' = Tail(toSeed)
    /\ IF Head(toSeed).type = "getaddrs"
       THEN \E as \in SUBSET SeedAddrs :
               /\ Cardinality(as) <= Head(toSeed).max
               /\ fromSeed' = Append(fromSeed, Addrs(as))
       ELSE UNCHANGED fromSeed
    /\ UNCHANGED <<pc, toPing, addrs, pinged, sentToSeed, stopped, greylist>>

(* The channel stops (remote hang-up, a protocol timeout, shutdown).      *)
StopChannel ==
    /\ ~stopped /\ pc \notin {"done", "failed"}
    /\ stopped' = TRUE
    /\ UNCHANGED <<pc, toPing, addrs, pinged, toSeed, sentToSeed, fromSeed, greylist>>

ProtocolStep ==
    /\ SendMyAddrs \/ PingSelf \/ SendMyAddrsMsg \/ SendGetAddrs \/ ReceiveAddrs
    /\ UNCHANGED advertise

Environment == (SeedReceive \/ StopChannel) /\ UNCHANGED advertise

Next == ProtocolStep \/ Environment

(* start() runs on the executor until it returns or awaits.  Nothing is   *)
(* assumed of the remote seed: it may never answer.                        *)
Spec == Init /\ [][Next]_vars /\ WF_vars(ProtocolStep)

-----------------------------------------------------------------------------
PCs == {"send_my_addrs", "ping", "send_addrs", "send_get", "receive",
        "done", "failed"}
Max == OutboundConnections
Messages == {Addrs(as) : as \in SUBSET (ExternalAddrs \cup SeedAddrs)}
            \cup {GetAddrs(Max)}

TypeOK ==
    /\ pc \in PCs
    /\ toPing \subseteq ExternalAddrs /\ addrs \subseteq ExternalAddrs
    /\ pinged \subseteq ExternalAddrs
    /\ toSeed \in Seq(Messages) /\ sentToSeed \in Seq(Messages)
    /\ fromSeed \in Seq(Messages)
    /\ stopped \in BOOLEAN
    /\ greylist \subseteq SeedAddrs
    /\ advertise \in BOOLEAN

(* What the node tells the seed (send_my_addrs, then start): its own      *)
(* addresses at most once and before its GetAddrs, and only as the whole  *)
(* configured list, each address of which answered its self-ping, with    *)
(* advertising enabled; a single GetAddrs follows, carrying max.           *)
AdvertiseAllOrNothing ==
    LET Own == Addrs(ExternalAddrs) IN
    /\ sentToSeed \in {<<>>, <<Own>>, <<Own, GetAddrs(Max)>>, <<GetAddrs(Max)>>}
    /\ (\E i \in DOMAIN sentToSeed : sentToSeed[i].type = "addrs")
         => advertise /\ pinged = ExternalAddrs

(* start() gets through send_my_addrs and its GetAddrs to the wait of    *)
(* line 123, whatever the pings answer and whenever the channel stops;     *)
(* and once the seed's Addrs has arrived or the channel has stopped, the  *)
(* wait in addr_sub.receive() ends and start() returns, with Ok or with   *)
(* the channel's error.  A live, silent seed keeps it waiting: there is    *)
(* no timeout.                                                             *)
StartReturns ==
    /\ <>(pc \in {"receive", "done", "failed"})
    /\ (pc = "receive" /\ (fromSeed # <<>> \/ stopped)) ~> (pc \in {"done", "failed"})

=============================================================================
