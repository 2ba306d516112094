----------------------------- MODULE Membership -----------------------------
(***************************************************************************)
(* What wirefan promises about channel membership, with no registry, no    *)
(* channel objects and no garbage collection in sight: a channel name has  *)
(* a set of members, a subscribe either joins it, is refused because the   *)
(* name is full at that instant, is refused because the connection already *)
(* holds its quota, or fails and may be retried; an unsubscribe or the end *)
(* of the connection leaves it.  A published event is offered to exactly   *)
(* the members of the name at one instant, the publisher among them; the   *)
(* server's own stats event is offered to all members or to nobody.        *)
(* ChannelRegistry implements this module.                                 *)
(***************************************************************************)
EXTENDS FiniteSets, Naturals

CONSTANTS
    Conns,          \* connections
    Names,          \* channel names
    Stats,          \* the stats publisher, not a connection
    StatsName,      \* the channel name it publishes on
    MaxSubs,        \* subscriber cap of each name
    MaxChannels     \* quota of each connection: the names it may be a member of

VARIABLES
    members,        \* [Names -> SUBSET Conns]
    answer,         \* [Conns -> last answer the connection was given]
    snap            \* [Conns \cup {Stats} -> SUBSET Conns], whom an event is being sent to

vars == <<members, answer, snap>>

Init ==
    /\ members = [n \in Names |-> {}]
    /\ answer = [c \in Conns |-> "none"]
    /\ snap = [p \in Conns \cup {Stats} |-> {}]

(* A new request of c begins: its previous answer is forgotten.            *)
Ask(c) ==
    /\ answer' = [answer EXCEPT ![c] = "none"]
    /\ UNCHANGED <<members, snap>>

(* The names c is a member of.                                             *)
Of(c) == {n \in Names : c \in members[n]}

(* c becomes a member of n, which had room, within its quota.              *)
Join(c, n) ==
    /\ c \notin members[n]
    /\ Cardinality(members[n]) < MaxSubs[n]
    /\ Cardinality(Of(c)) < MaxChannels[c]
    /\ members' = [members EXCEPT ![n] = @ \cup {c}]
    /\ answer' = [answer EXCEPT ![c] = "subscribed"]
    /\ UNCHANGED snap

(* A repeated subscribe of a member is acknowledged and changes nothing.   *)
Rejoin(c, n) ==
    /\ c \in members[n]
    /\ answer' = [answer EXCEPT ![c] = "subscribed"]
    /\ UNCHANGED <<members, snap>>

(* A subscribe is refused as full only while n really is full.             *)
RefuseFull(c, n) ==
    /\ c \notin members[n]
    /\ Cardinality(members[n]) >= MaxSubs[n]
    /\ answer' = [answer EXCEPT ![c] = "LIMIT_SUBSCRIBERS"]
    /\ UNCHANGED <<members, snap>>

(* For its quota c is refused only while it has used it up.                *)
RefuseQuota(c, n) ==
    /\ c \notin members[n]
    /\ Cardinality(Of(c)) >= MaxChannels[c]
    /\ answer' = [answer EXCEPT ![c] = "LIMIT_CHANNELS"]
    /\ UNCHANGED <<members, snap>>

(* A subscribe that was within the quota may fail, and leaves no trace.    *)
JoinFails(c, n) ==
    /\ c \notin members[n]
    /\ Cardinality(Of(c)) < MaxChannels[c]
    /\ answer' = [answer EXCEPT ![c] = "SUBSCRIBE_FAILED"]
    /\ UNCHANGED <<members, snap>>

(* c stops being a member of n (unsubscribe, or the end of the connection).*)
Leave(c, n) ==
    /\ c \in members[n]
    /\ members' = [members EXCEPT ![n] = @ \ {c}]
    /\ UNCHANGED <<answer, snap>>

(* An unsubscribe is acknowledged once c is out of n.                      *)
AckLeave(c, n) ==
    /\ c \notin members[n]
    /\ answer' = [answer EXCEPT ![c] = "unsubscribed"]
    /\ UNCHANGED <<members, snap>>

(* An event c publishes on n is offered to the members of n, c included.   *)
Offer(c, n) ==
    /\ c \in members[n]
    /\ snap' = [snap EXCEPT ![c] = members[n]]
    /\ UNCHANGED <<members, answer>>

(* A stats event goes to every member of its channel, or to nobody.        *)
OfferStats ==
    /\ snap' \in {[snap EXCEPT ![Stats] = to] : to \in {members[StatsName], {}}}
    /\ UNCHANGED <<members, answer>>

(* The event has been handed to everybody in the snapshot.                 *)
Sent(p) ==
    /\ snap' = [snap EXCEPT ![p] = {}]
    /\ UNCHANGED <<members, answer>>

Next ==
    \/ OfferStats
    \/ \E p \in Conns \cup {Stats} : Sent(p)
    \/ \E c \in Conns : Ask(c)
    \/ \E c \in Conns, n \in Names :
        \/ Join(c, n) \/ Rejoin(c, n)
        \/ RefuseFull(c, n) \/ RefuseQuota(c, n) \/ JoinFails(c, n)
        \/ Leave(c, n) \/ AckLeave(c, n) \/ Offer(c, n)

Spec == Init /\ [][Next]_vars
=============================================================================
